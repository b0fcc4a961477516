------------------------- MODULE OrderBookSyncProofs -------------------------
(***************************************************************************)
(* The local order book, for every configuration, any number of workers,   *)
(* callers, changes and deltas.  First the protocol of the fetches: a      *)
(* worker that fetches waits for exactly one answer and any other for      *)
(* none.  Then the recursive functions of the book, by induction over      *)
(* their length.  Then the book itself: which changes it lacks, that it    *)
(* does not go back, and that commits bridge a gap.                        *)
(***************************************************************************)
EXTENDS OrderBookSync, SequenceTheorems, FiniteSetTheorems, TLAPS

\* The answers that wait in the inbox.
Queued(w) == {i \in DOMAIN w.inbox : w.inbox[i].msg \in Replies}

Answers == {t \in Tasks : t.msg \in Replies}

\* What the argument needs of the fields of a worker; the others are left open.
Shaped(w) ==
  w \in [life : {"unborn", "run", "stopping", "done"}, state : States,
         book : {w.book}, inbox : Seq(Tasks), staging : {w.staging},
         waiters : {w.waiters}, asked : {"none"} \cup Replies,
         reply : {<<>>} \cup {<<t>> : t \in Answers}, cooling : {w.cooling},
         missed : {w.missed}]

Quiet(w) == w.asked = "none" /\ w.reply = <<>> /\ Queued(w) = {}

\* The one answer is asked for, held by the fetching goroutine, or queued.
Pending(w) ==
  \/ w.asked # "none" /\ w.reply = <<>> /\ Queued(w) = {}
  \/ w.asked = "none" /\ w.reply # <<>> /\ Queued(w) = {}
  \/ w.asked = "none" /\ w.reply = <<>> /\ \E k : Queued(w) = {k}

WorkerOK(w, mode) ==
  /\ Shaped(w)
  /\ mode = "INCREMENTAL" /\ w.life = "run" =>
       IF w.state \in Fetching THEN Pending(w) ELSE Quiet(w)

CallRecord == [op : {"none", "init", "flush"}, gen : Gens \cup {None},
               at : {"idle", "send", "wait", "ok", "error"}]
CallOK(c) == c \in CallRecord /\ (c.at # "idle" => c.op \in {"init", "flush"} /\ c.gen \in Gens)
CallsOK == call = [c \in Callers |-> call[c]] /\ \A c \in Callers : CallOK(call[c])

IInv ==
  /\ cfg \in Configs /\ produced \in Versions
  /\ current \in Gens \cup {None}
  /\ worker = [g \in Gens |-> worker[g]]
  /\ \A g \in Gens : WorkerOK(worker[g], cfg.mode)
  /\ CallsOK

-----------------------------------------------------------------------------
(* Sequences of tasks                                                      *)

LEMMA QueuedAppend ==
  ASSUME NEW w, w.inbox \in Seq(Tasks), NEW t \in Tasks, NEW v, v.inbox = Append(w.inbox, t)
  PROVE  /\ v.inbox \in Seq(Tasks)
         /\ t.msg \notin Replies => Queued(v) = Queued(w)
         /\ t.msg \in Replies => Queued(v) = Queued(w) \cup {Len(w.inbox) + 1}
  BY DEF Queued

LEMMA QueuedTail ==
  ASSUME NEW w, w.inbox \in Seq(Tasks), w.inbox # <<>>, NEW v, v.inbox = Tail(w.inbox)
  PROVE  /\ v.inbox \in Seq(Tasks)
         /\ Head(w.inbox) \in Tasks
         /\ Queued(v) = {i - 1 : i \in Queued(w) \ {1}}
         /\ 1 \in Queued(w) <=> Head(w.inbox).msg \in Replies
<1>1. v.inbox \in Seq(Tasks) /\ Head(w.inbox) \in Tasks /\ Head(w.inbox) = w.inbox[1]
  OBVIOUS
<1>2. Len(w.inbox) \in Nat \ {0} /\ Len(v.inbox) = Len(w.inbox) - 1
      /\ DOMAIN w.inbox = 1 .. Len(w.inbox) /\ DOMAIN v.inbox = 1 .. Len(v.inbox)
  BY <1>1
<1>3. \A i \in 1 .. Len(v.inbox) : v.inbox[i] = w.inbox[i + 1]
  BY <1>2
<1>4. Queued(v) = {i - 1 : i \in Queued(w) \ {1}}
  <2>1. ASSUME NEW j \in Queued(v) PROVE j + 1 \in Queued(w) \ {1} /\ j = (j + 1) - 1
    BY <1>2, <1>3 DEF Queued
  <2>2. ASSUME NEW i \in Queued(w) \ {1} PROVE i - 1 \in Queued(v)
    <3>1. i \in 2 .. Len(w.inbox) /\ w.inbox[i].msg \in Replies
      BY <1>2 DEF Queued
    <3>2. i - 1 \in 1 .. Len(v.inbox) /\ v.inbox[i - 1] = w.inbox[i]
      BY <1>2, <1>3, <3>1
    <3> QED BY <1>2, <3>1, <3>2 DEF Queued
  <2> QED BY <2>1, <2>2
<1>5. 1 \in Queued(w) <=> Head(w.inbox).msg \in Replies
  BY <1>1, <1>2 DEF Queued
<1> QED BY <1>1, <1>4, <1>5

\* What the head of the inbox leaves behind.
LEMMA TakenQueue ==
  ASSUME NEW w, w.inbox \in Seq(Tasks), w.inbox # <<>>, NEW v, v.inbox = Tail(w.inbox)
  PROVE  /\ v.inbox \in Seq(Tasks)
         /\ Queued(w) = {} => Queued(v) = {}
         /\ Head(w.inbox).msg \notin Replies /\ (\E k : Queued(w) = {k}) => \E k : Queued(v) = {k}
         /\ Head(w.inbox).msg \in Replies => Queued(w) # {}
         /\ Head(w.inbox).msg \in Replies /\ (\E k : Queued(w) = {k}) => Queued(v) = {}
<1>1. /\ v.inbox \in Seq(Tasks)
      /\ Queued(v) = {i - 1 : i \in Queued(w) \ {1}}
      /\ 1 \in Queued(w) <=> Head(w.inbox).msg \in Replies
  BY QueuedTail
<1>2. ASSUME Head(w.inbox).msg \notin Replies, \E k : Queued(w) = {k}
      PROVE  \E k : Queued(v) = {k}
  <2>1. PICK k : Queued(w) = {k}
    BY <1>2
  <2>2. Queued(w) \ {1} = {k}
    BY <1>1, <1>2, <2>1
  <2>3. Queued(v) = {k - 1}
    BY <1>1, <2>2
  <2> QED BY <2>3
<1>3. ASSUME Head(w.inbox).msg \in Replies, \E k : Queued(w) = {k}
      PROVE  Queued(v) = {}
  BY <1>1, <1>3
<1> QED BY <1>1, <1>2, <1>3

-----------------------------------------------------------------------------
(* The parts of a handler                                                  *)

\* v differs from w in fields the argument does not look at.
Alike(v, w) ==
  /\ Shaped(v)
  /\ v.life = w.life /\ v.state = w.state /\ v.inbox = w.inbox
  /\ v.asked = w.asked /\ v.reply = w.reply

LEMMA AlikeOK ==
  ASSUME NEW w, NEW v, NEW m, Alike(v, w), WorkerOK(w, m)
  PROVE  WorkerOK(v, m)
<1>1. Queued(v) = Queued(w)
  BY DEF Alike, Queued
<1> QED BY <1>1 DEF WorkerOK, Alike, Quiet, Pending

LEMMA MissAlike ==
  ASSUME NEW w, Shaped(w), NEW deltas PROVE Alike(MissAll(w, deltas), w)
  BY DEF Shaped, MissAll, Alike

LEMMA StageAlike ==
  ASSUME NEW w, Shaped(w), NEW d
  PROVE  Alike(Stage(w, d), w) /\ Alike(Cut(w), w)
<1>1. Alike(Stage(w, d), w)
  BY DEF Shaped, Stage, Alike
<1> DEFINE v == MissAll(w, Range(Dropped(w)))
<1>2. Alike(v, w)
  BY MissAlike
<1> HIDE DEF v
<1>3. Alike([v EXCEPT !.staging = SubSeq(@, Len(Dropped(w)) + 1, Len(@))], v)
  BY <1>2 DEF Shaped, Alike
<1>4. Cut(w) = [v EXCEPT !.staging = SubSeq(@, Len(Dropped(w)) + 1, Len(@))]
  BY DEF Cut, v
<1> QED BY <1>1, <1>2, <1>3, <1>4 DEF Alike

\* A fetch that is started when nothing is on its way.
LEMMA AskOK ==
  ASSUME NEW w, Shaped(w), NEW m, m = "INCREMENTAL" /\ w.life = "run" => Quiet(w)
  PROVE  WorkerOK(AskSnapshot(w), m) /\ WorkerOK(AskRecovery(w), m)
<1>1. ASSUME NEW v, Shaped(v), v.life = w.life, v.inbox = w.inbox, v.reply = w.reply
      PROVE  /\ WorkerOK(AskSnapshot(v), m)
             /\ v.state = "RECOVERING" => WorkerOK(AskCommits(v), m)
  <2>1. /\ Shaped(AskSnapshot(v)) /\ AskSnapshot(v).life = w.life
        /\ AskSnapshot(v).state = "SYNCING" /\ AskSnapshot(v).inbox = w.inbox
        /\ AskSnapshot(v).reply = w.reply /\ AskSnapshot(v).asked = "snapshot"
    BY <1>1 DEF Shaped, AskSnapshot, States, Fetching, Replies
  <2>2. /\ Shaped(AskCommits(v)) /\ AskCommits(v).life = w.life
        /\ AskCommits(v).state = v.state /\ AskCommits(v).inbox = w.inbox
        /\ AskCommits(v).reply = w.reply /\ AskCommits(v).asked = "commits"
    BY <1>1 DEF Shaped, AskCommits, Replies
  <2>3. Queued(AskSnapshot(v)) = Queued(w) /\ Queued(AskCommits(v)) = Queued(w)
    BY <2>1, <2>2 DEF Queued
  <2> QED BY <2>1, <2>2, <2>3 DEF WorkerOK, Quiet, Pending, Fetching
<1> DEFINE r == [w EXCEPT !.state = "RECOVERING"]
<1>2. Shaped(r) /\ r.life = w.life /\ r.inbox = w.inbox /\ r.reply = w.reply
      /\ r.state = "RECOVERING"
  BY DEF Shaped, States, Fetching
<1> HIDE DEF r
<1>3. AskRecovery(w) = IF cfg.commits = "none" THEN AskSnapshot(r) ELSE AskCommits(r)
  BY DEF AskRecovery, r
<1> QED BY <1>1, <1>2, <1>3

LEMMA ReadyOK ==
  ASSUME NEW w, Shaped(w), NEW m, m = "INCREMENTAL" /\ w.life = "run" => Quiet(w), NEW book
  PROVE  /\ WorkerOK(Ready(w, book), m)
         /\ WorkerOK([Ready(w, book) EXCEPT !.cooling = FALSE, !.waiters = {}], m)
<1> DEFINE r == Ready(w, book)
           v == [r EXCEPT !.cooling = FALSE, !.waiters = {}]
<1>1. /\ Shaped(r) /\ r.life = w.life /\ r.inbox = w.inbox /\ r.reply = w.reply
      /\ r.asked = w.asked /\ r.state = "READY"
  BY DEF Shaped, Ready, States
<1>2. Queued(r) = Queued(w)
  BY <1>1 DEF Queued
<1>3. WorkerOK(r, m)
  BY <1>1, <1>2 DEF WorkerOK, Quiet, Fetching
<1> HIDE DEF r
<1>4. Alike(v, r)
  BY <1>1 DEF Shaped, Alike
<1> QED BY <1>3, <1>4, AlikeOK DEF r

\* The worker g becomes one for which the statement holds, the rest stays.
LEMMA Replaced ==
  ASSUME IInv, NEW g \in Gens, NEW w, Becomes(g, w), WorkerOK(w, cfg.mode), cfg' = cfg
  PROVE  /\ worker' = [h \in Gens |-> worker'[h]]
         /\ \A h \in Gens : WorkerOK(worker'[h], cfg'.mode)
<1>1. worker' = [worker EXCEPT ![g] = w] /\ DOMAIN worker = Gens
  BY DEF IInv, Becomes
<1>2. \A h \in Gens : worker'[h] = IF h = g THEN w ELSE worker[h]
  BY <1>1
<1>3. worker' = [h \in Gens |-> worker'[h]]
  BY <1>1
<1> QED BY <1>2, <1>3 DEF IInv

LEMMA AnsweredOK ==
  ASSUME IInv, NEW callers, NEW result \in {"ok", "error", "send"}, Answered(callers, result)
  PROVE  CallsOK'
<1>1. call' = [c \in Callers |-> call'[c]]
  BY DEF Answered
<1>2. ASSUME NEW c \in Callers PROVE CallOK(call'[c])
  <2>1. call'[c] = IF c \in callers /\ call[c].at = "wait"
                  THEN [call[c] EXCEPT !.at = result] ELSE call[c]
    BY DEF Answered
  <2>2. CallOK(call[c])
    BY DEF IInv, CallsOK
  <2> QED BY <2>1, <2>2 DEF CallOK, CallRecord
<1> QED BY <1>1, <1>2 DEF CallsOK

\* One worker and perhaps the calls change.
LEMMA StepOK ==
  ASSUME IInv, NEW g \in Gens, NEW w, Becomes(g, w), WorkerOK(w, cfg.mode), cfg' = cfg,
         produced' \in Versions, current' \in Gens \cup {None}, UNCHANGED call \/ CallsOK'
  PROVE  IInv'
<1>1. /\ worker' = [h \in Gens |-> worker'[h]]
      /\ \A h \in Gens : WorkerOK(worker'[h], cfg'.mode)
  BY Replaced
<1>2. CallsOK'
  BY DEF IInv, CallsOK
<1> QED BY <1>1, <1>2 DEF IInv

-----------------------------------------------------------------------------
(* The handlers                                                            *)

\* A task that is not an answer is taken, or the answer is.
LEMMA TakenOK ==
  ASSUME IInv, NEW g \in Gens, NEW msg, Takes(g, msg)
  PROVE  /\ Head(worker[g].inbox) \in Tasks /\ Head(worker[g].inbox).msg = msg
         /\ Shaped(Taken(g)) /\ Taken(g).life = worker[g].life
         /\ Taken(g).state = worker[g].state
         /\ msg \notin Replies => WorkerOK(Taken(g), cfg.mode)
         /\ msg \in Replies =>
              (cfg.mode = "INCREMENTAL" /\ Taken(g).life = "run" => Quiet(Taken(g)))
<1> DEFINE w == worker[g]
           v == Taken(g)
<1>1. WorkerOK(w, cfg.mode) /\ Shaped(w)
  BY DEF IInv, WorkerOK
<1>2. w.inbox \in Seq(Tasks) /\ w.inbox # <<>> /\ Head(w.inbox).msg = msg
  BY <1>1 DEF Takes, Shaped
<1>3. v.inbox = Tail(w.inbox) /\ v.life = w.life /\ v.state = w.state
      /\ v.asked = w.asked /\ v.reply = w.reply
  BY <1>1 DEF Taken, Shaped
<1>5. v.inbox \in Seq(Tasks) => Shaped(v)
  BY <1>1 DEF Shaped, Taken
<1> HIDE DEF w, v
<1>4. /\ v.inbox \in Seq(Tasks) /\ Head(w.inbox) \in Tasks
      /\ Queued(w) = {} => Queued(v) = {}
      /\ msg \notin Replies /\ (\E k : Queued(w) = {k}) => \E k : Queued(v) = {k}
      /\ msg \in Replies => Queued(w) # {}
      /\ msg \in Replies /\ (\E k : Queued(w) = {k}) => Queued(v) = {}
  <2>1. /\ v.inbox \in Seq(Tasks)
        /\ Queued(w) = {} => Queued(v) = {}
        /\ Head(w.inbox).msg \notin Replies /\ (\E k : Queued(w) = {k}) => \E k : Queued(v) = {k}
        /\ Head(w.inbox).msg \in Replies => Queued(w) # {}
        /\ Head(w.inbox).msg \in Replies /\ (\E k : Queued(w) = {k}) => Queued(v) = {}
    BY <1>2, <1>3, TakenQueue
  <2>2. Head(w.inbox) \in Tasks
    BY <1>2
  <2> QED BY <1>2, <2>1, <2>2
<1>6. msg \notin Replies => WorkerOK(v, cfg.mode)
  BY <1>1, <1>3, <1>4, <1>5 DEF WorkerOK, Quiet, Pending
<1>7. msg \in Replies => (cfg.mode = "INCREMENTAL" /\ v.life = "run" => Quiet(v))
  BY <1>1, <1>3, <1>4, <1>5 DEF WorkerOK, Quiet, Pending
<1> QED BY <1>2, <1>3, <1>4, <1>5, <1>6, <1>7 DEF w, v

\* What a handler leaves of a worker.
HandledOK(g) ==
  /\ \E w : Becomes(g, w) /\ WorkerOK(w, cfg.mode)
  /\ \/ UNCHANGED call
     \/ \E callers : \E result \in {"ok", "error", "send"} : Answered(callers, result)

LEMMA NotFetching ==
  ASSUME NEW w, NEW m, WorkerOK(w, m), w.state \notin Fetching
  PROVE  m = "INCREMENTAL" /\ w.life = "run" => Quiet(w)
  BY DEF WorkerOK

LEMMA UpdateOK ==
  ASSUME IInv, NEW g \in Gens, StageFirst(g) \/ StageUpdate(g) \/ ApplyUpdate(g)
  PROVE  HandledOK(g)
<1> DEFINE d == Head(worker[g].inbox).delta
           v == Taken(g)
<1>1. Shaped(v) /\ WorkerOK(v, cfg.mode) /\ v.state = worker[g].state
  BY TakenOK DEF StageFirst, StageUpdate, ApplyUpdate, Replies
<1>2. Alike(Stage(v, d), v) /\ WorkerOK(Stage(v, d), cfg.mode)
  BY <1>1, StageAlike, AlikeOK
<1>3. CASE StageFirst(g)
  <2>1. Becomes(g, IF Stage(v, d).cooling THEN Stage(v, d) ELSE AskSnapshot(Stage(v, d)))
    BY <1>3 DEF StageFirst
  <2>2. Stage(v, d).state \notin Fetching /\ Shaped(Stage(v, d))
    BY <1>1, <1>2, <1>3 DEF StageFirst, Alike, Fetching
  <2>3. WorkerOK(AskSnapshot(Stage(v, d)), cfg.mode)
    BY <1>2, <2>2, NotFetching, AskOK
  <2>4. UNCHANGED call
    BY <1>3 DEF StageFirst
  <2> HIDE DEF v, d
  <2> QED BY <1>2, <2>1, <2>3, <2>4 DEF HandledOK
<1>4. CASE StageUpdate(g)
  <2>1. Becomes(g, Cut(Stage(v, d))) /\ UNCHANGED call
    BY <1>4 DEF StageUpdate
  <2>2. Shaped(Stage(v, d))
    BY <1>2 DEF Alike
  <2>3. WorkerOK(Cut(Stage(v, d)), cfg.mode)
    BY <1>2, <2>2, StageAlike, AlikeOK
  <2> HIDE DEF v, d
  <2> QED BY <2>1, <2>3 DEF HandledOK
<1>5. CASE ApplyUpdate(g)
  <2> DEFINE book == ApplyDelta(worker[g].book, d)
  <2>1. \/ Becomes(g, v)
        \/ Becomes(g, [v EXCEPT !.book = book])
        \/ Becomes(g, AskRecovery(Stage(v, d)))
    BY <1>5 DEF ApplyUpdate
  <2>2. Alike([v EXCEPT !.book = book], v)
    BY <1>1 DEF Shaped, Alike
  <2>3. WorkerOK([v EXCEPT !.book = book], cfg.mode)
    BY <1>1, <2>2, AlikeOK
  <2>4. Stage(v, d).state \notin Fetching /\ Shaped(Stage(v, d))
    BY <1>1, <1>2, <1>5 DEF ApplyUpdate, Alike, Fetching
  <2>5. WorkerOK(AskRecovery(Stage(v, d)), cfg.mode)
    BY <1>2, <2>4, NotFetching, AskOK
  <2>6. UNCHANGED call
    BY <1>5 DEF ApplyUpdate
  <2> HIDE DEF v, d, book
  <2> QED BY <1>1, <2>1, <2>3, <2>5, <2>6 DEF HandledOK
<1> QED BY <1>3, <1>4, <1>5

LEMMA SnapshotOK ==
  ASSUME IInv, NEW g \in Gens, SnapshotLoaded(g)
  PROVE  HandledOK(g)
<1> DEFINE v == Taken(g)
           reply == Head(worker[g].inbox)
           failed == [v EXCEPT !.state = "UNINITIALIZED", !.cooling = TRUE, !.staging = <<>>,
                               !.waiters = {}]
           loaded == [Ready(v, LoadSnapshot(reply.version)) EXCEPT !.cooling = FALSE, !.waiters = {}]
<1>1. Shaped(v) /\ (cfg.mode = "INCREMENTAL" /\ v.life = "run" => Quiet(v))
  BY TakenOK DEF SnapshotLoaded, Replies
<1>2. \/ Becomes(g, loaded) /\ Answered(v.waiters, "ok")
      \/ Becomes(g, failed) /\ Answered(v.waiters, "error")
  BY DEF SnapshotLoaded
<1>3. WorkerOK(loaded, cfg.mode)
  BY <1>1, ReadyOK
<1>4. /\ Shaped(failed) /\ failed.life = v.life /\ failed.inbox = v.inbox
      /\ failed.asked = v.asked /\ failed.reply = v.reply /\ failed.state = "UNINITIALIZED"
  BY <1>1 DEF Shaped, States
<1> HIDE DEF v, failed, loaded, reply
<1>5. Queued(failed) = Queued(v)
  BY <1>4 DEF Queued
<1>6. WorkerOK(failed, cfg.mode)
  BY <1>1, <1>4, <1>5 DEF WorkerOK, Quiet, Fetching
<1> QED BY <1>2, <1>3, <1>6 DEF HandledOK

LEMMA CommitsOK ==
  ASSUME IInv, NEW g \in Gens, CommitsLoaded(g)
  PROVE  HandledOK(g)
<1> DEFINE v == Taken(g)
           book == ApplyCommits(v.book, Head(worker[g].inbox).list).book
           kept == [v EXCEPT !.book = book]
<1>1. Shaped(v) /\ (cfg.mode = "INCREMENTAL" /\ v.life = "run" => Quiet(v))
  BY TakenOK DEF CommitsLoaded, Replies
<1>2. Becomes(g, Ready(v, book)) \/ Becomes(g, AskSnapshot(kept))
  BY DEF CommitsLoaded
<1>3. WorkerOK(Ready(v, book), cfg.mode)
  BY <1>1, ReadyOK
<1>4. Alike(kept, v)
  BY <1>1 DEF Shaped, Alike
<1>5. UNCHANGED call
  BY DEF CommitsLoaded
<1> HIDE DEF v, book, kept
<1>6. Queued(kept) = Queued(v)
  BY <1>4 DEF Queued, Alike
<1>7. Shaped(kept) /\ (cfg.mode = "INCREMENTAL" /\ kept.life = "run" => Quiet(kept))
  BY <1>1, <1>4, <1>6 DEF Alike, Quiet
<1>8. WorkerOK(AskSnapshot(kept), cfg.mode)
  BY <1>7, AskOK
<1> QED BY <1>2, <1>3, <1>5, <1>8 DEF HandledOK

LEMMA CallerOK ==
  ASSUME IInv, NEW g \in Gens, HandleInit(g) \/ HandleFlush(g)
  PROVE  HandledOK(g)
<1> DEFINE v == Taken(g)
           c == Head(worker[g].inbox).from
           waiting == [v EXCEPT !.waiters = @ \cup {c}]
<1>1. Shaped(v) /\ WorkerOK(v, cfg.mode) /\ v.state = worker[g].state
  BY TakenOK DEF HandleInit, HandleFlush, Replies
<1>2. Alike(waiting, v) /\ WorkerOK(waiting, cfg.mode)
  <2>1. Alike(waiting, v)
    BY <1>1 DEF Shaped, Alike
  <2> QED BY <1>1, <2>1, AlikeOK
<1>3. CASE HandleInit(g)
  <2>1. \/ Becomes(g, v) /\ Answered({c}, "ok")
        \/ worker[g].state = "UNINITIALIZED" /\ Becomes(g, AskSnapshot(waiting)) /\ UNCHANGED call
        \/ Becomes(g, waiting) /\ UNCHANGED call
    BY <1>3 DEF HandleInit
  <2>2. worker[g].state = "UNINITIALIZED" => waiting.state \notin Fetching /\ Shaped(waiting)
    BY <1>1, <1>2 DEF Alike, Fetching
  <2>3. worker[g].state = "UNINITIALIZED" => WorkerOK(AskSnapshot(waiting), cfg.mode)
    BY <1>2, <2>2, NotFetching, AskOK
  <2> HIDE DEF v, c, waiting
  <2> QED BY <1>1, <1>2, <2>1, <2>3 DEF HandledOK
<1>4. CASE HandleFlush(g)
  <2>1. Becomes(g, v)
        /\ Answered({c}, IF worker[g].state \in Fetching THEN "send" ELSE "ok")
    BY <1>4 DEF HandleFlush
  <2> HIDE DEF v, c
  <2> QED BY <1>1, <2>1 DEF HandledOK
<1> QED BY <1>3, <1>4

LEMMA HandleStep == ASSUME IInv, NEW g \in Gens, Handle(g) PROVE IInv'
<1>1. HandledOK(g)
  BY UpdateOK, SnapshotOK, CommitsOK, CallerOK DEF Handle
<1>2. cfg' = cfg /\ produced' \in Versions /\ current' \in Gens \cup {None}
  BY DEF Handle, IInv
<1>3. PICK w : Becomes(g, w) /\ WorkerOK(w, cfg.mode)
  BY <1>1 DEF HandledOK
<1>4. UNCHANGED call \/ CallsOK'
  BY <1>1, AnsweredOK DEF HandledOK
<1> QED BY <1>2, <1>3, <1>4, StepOK

-----------------------------------------------------------------------------
(* The life of a worker and its fetches                                    *)

LEMMA LifeStep ==
  ASSUME IInv, NEW g \in Gens, WorkerStops(g) \/ Cool(g)
  PROVE  IInv'
<1> DEFINE w == worker[g]
           stopped == [w EXCEPT !.life = "done", !.book = EmptyBook]
           cooled == [w EXCEPT !.cooling = FALSE]
<1>1. WorkerOK(w, cfg.mode) /\ Shaped(w)
  BY DEF IInv, WorkerOK
<1>2. cfg' = cfg /\ produced' \in Versions /\ current' \in Gens \cup {None} /\ UNCHANGED call
  BY DEF WorkerStops, Cool, IInv
<1>3. Shaped(stopped) /\ stopped.life = "done"
  BY <1>1 DEF Shaped
<1>4. Alike(cooled, w)
  BY <1>1 DEF Shaped, Alike
<1>5. Becomes(g, stopped) \/ Becomes(g, cooled)
  BY DEF WorkerStops, Cool
<1> HIDE DEF w, stopped, cooled
<1>6. WorkerOK(stopped, cfg.mode)
  BY <1>3 DEF WorkerOK
<1>7. WorkerOK(cooled, cfg.mode)
  BY <1>1, <1>4, AlikeOK
<1> QED BY <1>2, <1>5, <1>6, <1>7, StepOK

\* What the exchange can answer.
LEMMA ShownType == ASSUME IInv PROVE Shown \subseteq Versions
  BY DEF IInv, Shown

LEMMA CommitsType == ASSUME NEW v \in Versions PROVE Commits(v) \in Seq(Deltas)
<1> DEFINE first == IF v > CommitSize THEN v - CommitSize + 1 ELSE 1
           n == v - first + 1
<1>1. v \in Nat /\ v >= 1 /\ v <= MaxVersion /\ MaxVersion \in Nat /\ CommitSize \in Nat \ {0}
  BY BoundsAssumption DEF Versions
<1>2. first \in 1 .. v /\ n \in Nat /\ first + n - 1 = v
  BY <1>1
<1>3. [first |-> first, last |-> v] \in Deltas
  BY <1>1, <1>2 DEF Deltas, Versions
<1>4. \A i \in 1 .. n : [first |-> first + i - 1, last |-> first + i - 1] \in Deltas
  <2> TAKE i \in 1 .. n
  <2> HIDE DEF n, first
  <2>1. first + i - 1 \in Versions
    BY <1>1, <1>2 DEF Versions
  <2> QED BY <2>1 DEF Deltas, Versions
<1>5. Commits(v) = IF cfg.commits = "merged" THEN <<[first |-> first, last |-> v]>>
                  ELSE [i \in 1 .. n |-> [first |-> first + i - 1, last |-> first + i - 1]]
  BY DEF Commits
<1> DEFINE each == [i \in 1 .. n |-> [first |-> first + i - 1, last |-> first + i - 1]]
           merged == <<[first |-> first, last |-> v]>>
<1>6. merged \in Seq(Deltas)
  BY <1>3
<1>7. each \in [1 .. n -> Deltas]
  BY <1>4
<1> HIDE DEF first, each, merged
<1>8. each \in Seq(Deltas)
  BY <1>2, <1>7, SeqDef
<1> QED BY <1>5, <1>6, <1>8 DEF each, merged

\* An answer ends what is asked for.
LEMMA AnswerOK ==
  ASSUME IInv, NEW g \in Gens, worker[g].asked # "none", NEW t \in Answers
  PROVE  WorkerOK([worker[g] EXCEPT !.asked = "none", !.reply = <<t>>], cfg.mode)
<1> DEFINE w == worker[g]
           v == [w EXCEPT !.asked = "none", !.reply = <<t>>]
<1>1. WorkerOK(w, cfg.mode) /\ Shaped(w)
  BY DEF IInv, WorkerOK
<1>2. /\ Shaped(v) /\ v.life = w.life /\ v.state = w.state /\ v.inbox = w.inbox
      /\ v.asked = "none" /\ v.reply = <<t>>
  BY <1>1 DEF Shaped
<1> HIDE DEF v
<1>3. Queued(v) = Queued(w)
  BY <1>2 DEF Queued
<1>4. v.reply # <<>>
  BY <1>2
<1> QED BY <1>1, <1>2, <1>3, <1>4 DEF WorkerOK, Quiet, Pending, v

LEMMA AnswerStep ==
  ASSUME IInv, NEW g \in Gens, AnswerSnapshot(g) \/ AnswerCommits(g)
  PROVE  IInv'
<1>1. cfg' = cfg /\ produced' \in Versions /\ current' \in Gens \cup {None} /\ UNCHANGED call
  BY DEF AnswerSnapshot, AnswerCommits, IInv
<1>2. worker[g].asked # "none"
  BY DEF AnswerSnapshot, AnswerCommits
<1>3. \E t \in Answers : Becomes(g, [worker[g] EXCEPT !.asked = "none", !.reply = <<t>>])
  <2>1. CASE AnswerSnapshot(g)
    <3>1. PICK ok \in BOOLEAN, v \in Versions :
             Becomes(g, [worker[g] EXCEPT !.asked = "none",
                                          !.reply = <<[msg |-> "snapshot", ok |-> ok, version |-> v]>>])
      BY <2>1, ShownType DEF AnswerSnapshot
    <3>2. [msg |-> "snapshot", ok |-> ok, version |-> v] \in Answers
      BY DEF Answers, Tasks, Replies
    <3> QED BY <3>1, <3>2
  <2>2. CASE AnswerCommits(g)
    <3>1. PICK list \in {Commits(v) : v \in Shown} \cup (IF "rest" \in Faults THEN {<<>>} ELSE {}) :
             Becomes(g, [worker[g] EXCEPT !.asked = "none",
                                          !.reply = <<[msg |-> "commits", list |-> list]>>])
      BY <2>2 DEF AnswerCommits
    <3>2. list \in Seq(Deltas)
      <4>1. \A v \in Shown : Commits(v) \in Seq(Deltas)
        BY ShownType, CommitsType
      <4>2. <<>> \in Seq(Deltas)
        OBVIOUS
      <4>3. list = <<>> \/ \E v \in Shown : list = Commits(v)
        BY <3>1
      <4> QED BY <4>1, <4>2, <4>3
    <3>3. [msg |-> "commits", list |-> list] \in Answers
      BY <3>2 DEF Answers, Tasks, Replies
    <3> QED BY <3>1, <3>3
  <2> QED BY <2>1, <2>2
<1> QED BY <1>1, <1>2, <1>3, AnswerOK, StepOK

LEMMA SendReplyStep ==
  ASSUME IInv, NEW g \in Gens, SendReply(g)
  PROVE  IInv'
<1> DEFINE w == worker[g]
           put == [w EXCEPT !.inbox = @ \o w.reply, !.reply = <<>>]
           dropped == [w EXCEPT !.reply = <<>>]
<1>1. WorkerOK(w, cfg.mode) /\ Shaped(w) /\ w.reply # <<>>
  BY DEF IInv, WorkerOK, SendReply
<1>2. cfg' = cfg /\ produced' \in Versions /\ current' \in Gens \cup {None} /\ UNCHANGED call
  BY DEF SendReply, IInv
<1>3. Becomes(g, put) \/ (w.life # "run" /\ Becomes(g, dropped))
  BY DEF SendReply
<1>4. PICK t \in Answers : w.reply = <<t>>
  BY <1>1 DEF Shaped
<1>5. w.inbox \in Seq(Tasks) /\ t \in Tasks /\ t.msg \in Replies
  BY <1>1, <1>4 DEF Shaped, Answers
<1>6. w.inbox \o w.reply = Append(w.inbox, t) /\ Append(w.inbox, t) \in Seq(Tasks)
  BY <1>4, <1>5, AppendIsConcat
<1>7. /\ Shaped(put) /\ put.life = w.life /\ put.state = w.state /\ put.asked = w.asked
      /\ put.reply = <<>> /\ put.inbox = Append(w.inbox, t)
  BY <1>1, <1>6 DEF Shaped
<1>8. Shaped(dropped) /\ dropped.life = w.life
  BY <1>1 DEF Shaped
<1> HIDE DEF w, put, dropped
<1>9. Queued(put) = Queued(w) \cup {Len(w.inbox) + 1}
  BY <1>5, <1>7, QueuedAppend
<1>10. WorkerOK(put, cfg.mode)
  BY <1>1, <1>7, <1>9 DEF WorkerOK, Quiet, Pending
<1>11. w.life # "run" => WorkerOK(dropped, cfg.mode)
  BY <1>8 DEF WorkerOK
<1> QED BY <1>2, <1>3, <1>10, <1>11, StepOK

-----------------------------------------------------------------------------
(* The synchronizer                                                        *)

LEMMA NewWorkerOK == ASSUME NEW m PROVE WorkerOK(NewWorker, m)
<1>1. Shaped(NewWorker)
  BY DEF Shaped, NewWorker, EmptyBook, States, Fetching, Replies
<1>2. /\ NewWorker.state = "UNINITIALIZED" /\ NewWorker.asked = "none"
      /\ NewWorker.reply = <<>> /\ Queued(NewWorker) = {}
  BY DEF NewWorker, Queued
<1> QED BY <1>1, <1>2 DEF WorkerOK, Quiet, Fetching

LEMMA ObtainedOK ==
  ASSUME IInv, NEW g \in Obtained
  PROVE  g \in Gens /\ WorkerOK(WorkerAt(g), cfg.mode)
<1>1. g \in Gens
  BY DEF IInv, Obtained, Unborn, None
<1> QED BY <1>1, NewWorkerOK DEF IInv, WorkerAt

\* A task that is not an answer is put into the inbox.
LEMMA PutOK ==
  ASSUME NEW w, NEW m, WorkerOK(w, m), NEW t \in Tasks, t.msg \notin Replies
  PROVE  WorkerOK([w EXCEPT !.inbox = Append(@, t)], m)
<1> DEFINE v == [w EXCEPT !.inbox = Append(@, t)]
<1>1. Shaped(w) /\ w.inbox \in Seq(Tasks)
  BY DEF WorkerOK, Shaped
<1>2. /\ v.life = w.life /\ v.state = w.state /\ v.asked = w.asked /\ v.reply = w.reply
      /\ v.inbox = Append(w.inbox, t)
  BY <1>1 DEF Shaped
<1>3. Shaped(v)
  BY <1>1 DEF Shaped
<1> HIDE DEF v
<1>4. Queued(v) = Queued(w)
  BY <1>1, <1>2, QueuedAppend
<1>5. WorkerOK(v, m)
  BY <1>2, <1>3, <1>4 DEF WorkerOK, Quiet, Pending
<1> QED BY <1>5 DEF v

LEMMA MissOK ==
  ASSUME NEW w, NEW m, WorkerOK(w, m), NEW d PROVE WorkerOK(Miss(w, d), m)
<1>1. Shaped(w)
  BY DEF WorkerOK
<1> QED BY <1>1, MissAlike, AlikeOK DEF Miss

LEMMA ProcessStep ==
  ASSUME IInv, NEW d \in Deltas, ProcessUpdate(d), cfg' = cfg, produced' = produced, call' = call
  PROVE  IInv'
<1>1. PICK g \in Obtained :
        /\ current' = g
        /\ \/ /\ cfg.mode = "SNAPSHOT"
              /\ Becomes(g, [WorkerAt(g) EXCEPT !.book = LoadSnapshot(d.last), !.state = "READY"])
           \/ Becomes(g, [WorkerAt(g) EXCEPT !.inbox = Append(@, [msg |-> "update", delta |-> d])])
           \/ Becomes(g, Miss(WorkerAt(g), d))
  BY DEF ProcessUpdate
<1> DEFINE w == WorkerAt(g)
           full == [w EXCEPT !.book = LoadSnapshot(d.last), !.state = "READY"]
           t == [msg |-> "update", delta |-> d]
<1>2. g \in Gens /\ WorkerOK(w, cfg.mode)
  BY ObtainedOK
<1>3. Shaped(full)
  BY <1>2 DEF WorkerOK, Shaped, States
<1>4. t \in Tasks /\ t.msg \notin Replies
  BY DEF Tasks, Replies
<1>5. produced' \in Versions /\ current' \in Gens \cup {None}
  BY <1>1, <1>2 DEF IInv
<1> HIDE DEF w, full, t
<1>6. cfg.mode = "SNAPSHOT" => WorkerOK(full, cfg.mode)
  BY <1>3 DEF WorkerOK
<1>7. WorkerOK([w EXCEPT !.inbox = Append(@, t)], cfg.mode) /\ WorkerOK(Miss(w, d), cfg.mode)
  BY <1>2, <1>4, PutOK, MissOK
<1>8. \/ cfg.mode = "SNAPSHOT" /\ Becomes(g, full)
      \/ Becomes(g, [w EXCEPT !.inbox = Append(@, t)])
      \/ Becomes(g, Miss(w, d))
  BY <1>1 DEF w, full, t
<1> QED BY <1>2, <1>5, <1>6, <1>7, <1>8, StepOK

\* Nothing but the calls changes, or a call and a worker.
LEMMA CallStep ==
  ASSUME IInv, NEW c \in Callers, Caller(c)
  PROVE  IInv'
<1>1. CallOK(call[c]) /\ DOMAIN call = Callers /\ DOMAIN worker = Gens
  BY DEF IInv, CallsOK
<1>2. ASSUME NEW r, call' = [call EXCEPT ![c] = r], CallOK(r) PROVE CallsOK'
  BY <1>2 DEF IInv, CallsOK
<1>3. cfg' = cfg /\ produced' \in Versions
  BY DEF Caller, InitializeSymbol, Flush, SendTask, GiveUp, IInv
<1>4. CASE InitializeSymbol(c)
  <2>1. PICK g \in Obtained :
          /\ current' = g /\ Becomes(g, WorkerAt(g))
          /\ call' = [call EXCEPT ![c] = [op |-> "init", gen |-> g, at |-> "send"]]
    BY <1>4 DEF InitializeSymbol
  <2>2. g \in Gens /\ WorkerOK(WorkerAt(g), cfg.mode)
    BY ObtainedOK
  <2>3. CallOK([op |-> "init", gen |-> g, at |-> "send"])
    BY <2>2 DEF CallOK, CallRecord
  <2>4. CallsOK'
    BY <1>2, <2>1, <2>3
  <2> QED BY <1>3, <2>1, <2>2, <2>4, StepOK
<1>5. CASE Flush(c)
  <2>1. /\ call' = [call EXCEPT ![c] = [op |-> "flush", gen |-> current, at |-> "send"]]
        /\ current # None /\ UNCHANGED <<cfg, produced, current, worker>>
    BY <1>5 DEF Flush
  <2>2. CallOK([op |-> "flush", gen |-> current, at |-> "send"])
    BY <2>1 DEF CallOK, CallRecord, IInv
  <2>3. CallsOK'
    BY <1>2, <2>1, <2>2
  <2> QED BY <2>1, <2>3 DEF IInv
<1>6. CASE GiveUp(c)
  <2>1. call' = [call EXCEPT ![c] = [call[c] EXCEPT !.at = "error"]] /\ call[c].at # "idle"
        /\ UNCHANGED <<cfg, produced, current, worker>>
    BY <1>6, <1>1 DEF GiveUp
  <2>2. CallOK([call[c] EXCEPT !.at = "error"])
    BY <1>1, <2>1 DEF CallOK, CallRecord
  <2>3. CallsOK'
    BY <1>2, <2>1, <2>2
  <2> QED BY <2>1, <2>3 DEF IInv
<1>7. CASE SendTask(c)
  <2> DEFINE g == call[c].gen
             t == [msg |-> call[c].op, from |-> c]
  <2>1. call[c].at # "idle" /\ current' = current
        /\ \/ /\ Becomes(g, [worker[g] EXCEPT !.inbox = Append(@, t)])
              /\ call' = [call EXCEPT ![c] = [call[c] EXCEPT !.at = "wait"]]
           \/ /\ call' = [call EXCEPT ![c] = [call[c] EXCEPT !.at = "ok"]]
              /\ UNCHANGED worker
    BY <1>7, <1>1 DEF SendTask
  <2>2. g \in Gens /\ t \in Tasks /\ t.msg \notin Replies
    BY <1>1, <2>1 DEF CallOK, Tasks, Replies
  <2>3. CallOK([call[c] EXCEPT !.at = "wait"]) /\ CallOK([call[c] EXCEPT !.at = "ok"])
    BY <1>1, <2>1 DEF CallOK, CallRecord
  <2>4. CallsOK'
    BY <1>2, <2>1, <2>3
  <2> HIDE DEF g, t
  <2>5. WorkerOK([worker[g] EXCEPT !.inbox = Append(@, t)], cfg.mode)
    BY <2>2, PutOK DEF IInv
  <2>6. CASE UNCHANGED worker
    BY <1>3, <2>1, <2>4, <2>6 DEF IInv
  <2>7. CASE Becomes(g, [worker[g] EXCEPT !.inbox = Append(@, t)])
    <3>1. current' \in Gens \cup {None}
      BY <2>1 DEF IInv
    <3> QED BY <1>3, <2>2, <2>4, <2>5, <2>7, <3>1, StepOK
  <2> QED BY <2>1, <2>6, <2>7
<1> QED BY <1>4, <1>5, <1>6, <1>7 DEF Caller

-----------------------------------------------------------------------------
(* The subscribe manager, the exchange and its stream                      *)

LEMMA MissStep ==
  ASSUME IInv, NEW d, IF current = None THEN UNCHANGED worker
                      ELSE Becomes(current, Miss(worker[current], d)),
         UNCHANGED <<cfg, produced, current, call>>
  PROVE  IInv'
<1>1. CASE current = None
  BY <1>1 DEF IInv, CallsOK
<1>2. CASE current # None
  <2>1. current \in Gens
    BY <1>2 DEF IInv
  <2>2. WorkerOK(Miss(worker[current], d), cfg.mode)
    BY <2>1, MissOK DEF IInv
  <2>3. produced' \in Versions /\ current' \in Gens \cup {None}
    BY DEF IInv
  <2> QED BY <1>2, <2>1, <2>2, <2>3, StepOK
<1> QED BY <1>1, <1>2

LEMMA EnvironmentStep ==
  ASSUME IInv, Subscribe \/ RotateOut \/ Unsubscribe \/ Change \/ Push \/ Lose \/ Resend
  PROVE  IInv'
<1>1. CASE Subscribe
  BY <1>1, MissStep DEF Subscribe
<1>2. CASE RotateOut
  <2> DEFINE w == worker[current]
             v == [w EXCEPT !.life = "stopping"]
  <2>1. CASE current = None
    BY <1>2, <2>1 DEF RotateOut, RemoveSymbol, IInv, CallsOK
  <2>2. CASE current # None
    <3>1. current \in Gens /\ WorkerOK(w, cfg.mode)
      BY <2>2 DEF IInv
    <3>2. Shaped(v) /\ v.life = "stopping"
      BY <3>1 DEF WorkerOK, Shaped
    <3>3. Becomes(current, v) /\ cfg' = cfg /\ produced' \in Versions
          /\ current' \in Gens \cup {None} /\ UNCHANGED call
      BY <1>2, <2>2 DEF RotateOut, RemoveSymbol, IInv
    <3> HIDE DEF v
    <3>4. WorkerOK(v, cfg.mode)
      BY <3>2 DEF WorkerOK
    <3> QED BY <3>1, <3>3, <3>4, StepOK
  <2> QED BY <2>1, <2>2
<1>3. CASE Unsubscribe
  BY <1>3 DEF Unsubscribe, IInv, CallsOK
<1>4. CASE Change
  <2>1. produced' \in Versions
    BY <1>4, BoundsAssumption DEF Change, IInv, Versions
  <2> QED BY <1>4, <2>1 DEF Change, IInv, CallsOK
<1>5. CASE Push
  BY <1>5, ProcessStep DEF Push, NextDeltas
<1>6. CASE Lose
  BY <1>6, MissStep DEF Lose
<1>7. CASE Resend
  BY <1>7, ProcessStep DEF Resend
<1> QED BY <1>1, <1>2, <1>3, <1>4, <1>5, <1>6, <1>7

-----------------------------------------------------------------------------
(* The theorems about the answers                                          *)

LEMMA InitOK == Init => IInv
<1> SUFFICES ASSUME Init PROVE IInv
  OBVIOUS
<1> DEFINE unborn == [NewWorker EXCEPT !.life = "unborn"]
<1>1. Shaped(unborn) /\ unborn.life = "unborn"
  <2>1. Shaped(NewWorker)
    BY NewWorkerOK DEF WorkerOK
  <2> QED BY <2>1 DEF Shaped
<1>2. worker = [g \in Gens |-> unborn]
  BY DEF Init
<1> HIDE DEF unborn
<1>3. WorkerOK(unborn, cfg.mode)
  BY <1>1 DEF WorkerOK
<1>4. CallsOK
  BY DEF Init, CallsOK, CallOK, CallRecord
<1>5. cfg \in Configs /\ produced \in Versions /\ current \in Gens \cup {None}
  BY BoundsAssumption DEF Init, Versions
<1> QED BY <1>2, <1>3, <1>4, <1>5 DEF IInv

LEMMA NextOK == IInv /\ [Next]_vars => IInv'
<1> SUFFICES ASSUME IInv, [Next]_vars PROVE IInv'
  OBVIOUS
<1>1. CASE UNCHANGED vars
  BY <1>1 DEF vars, IInv, CallsOK
<1>2. ASSUME NEW g \in Gens, Worker(g) PROVE IInv'
  BY <1>2, HandleStep, LifeStep, AnswerStep, SendReplyStep DEF Worker
<1>3. ASSUME NEW c \in Callers, Caller(c) PROVE IInv'
  BY <1>3, CallStep
<1> QED BY <1>1, <1>2, <1>3, EnvironmentStep DEF Next

\* What is on its way to a worker keeps its shape: a worker of an incremental
\* book that fetches has one answer pending, any other none (triggerAsyncSnapshot,
\* triggerAsyncRecovery, handleSnapshotLoaded, handleCommitsLoaded, stop).
THEOREM Invariant == Spec => []IInv
  BY InitOK, NextOK, PTL DEF Spec

LEMMA Counted == IInv => AwaitsOneAnswer
<1> SUFFICES ASSUME IInv, cfg.mode = "INCREMENTAL", NEW g \in Gens, worker[g].life = "run"
    PROVE  Awaited(worker[g]) = IF worker[g].state \in Fetching THEN 1 ELSE 0
  BY DEF AwaitsOneAnswer
<1> DEFINE w == worker[g]
<1>1. WorkerOK(w, cfg.mode) /\ Shaped(w)
  BY DEF IInv, WorkerOK
<1> HIDE DEF w
<1>2. Awaited(w) = (IF w.asked = "none" THEN 0 ELSE 1) + Len(w.reply) + Cardinality(Queued(w))
  BY DEF Awaited, Queued
<1>3. w.reply = <<>> => Len(w.reply) = 0
  OBVIOUS
<1>4. w.reply # <<>> => Len(w.reply) = 1
  BY <1>1 DEF Shaped
<1>5. Queued(w) = {} => Cardinality(Queued(w)) = 0
  BY FS_EmptySet
<1>6. (\E k : Queued(w) = {k}) => Cardinality(Queued(w)) = 1
  BY FS_Singleton
<1>7. Pending(w) => Awaited(w) = 1
  <2>1. CASE w.asked # "none" /\ w.reply = <<>> /\ Queued(w) = {}
    BY <1>2, <1>3, <1>5, <2>1
  <2>2. CASE w.asked = "none" /\ w.reply # <<>> /\ Queued(w) = {}
    <3>1. Len(w.reply) = 1 /\ Cardinality(Queued(w)) = 0 /\ w.asked = "none"
      BY <1>4, <1>5, <2>2
    <3>2. Awaited(w) = 0 + 1 + 0
      BY <1>2, <3>1
    <3> QED BY <3>2
  <2>3. CASE w.asked = "none" /\ w.reply = <<>> /\ \E k : Queued(w) = {k}
    <3>1. Len(w.reply) = 0 /\ Cardinality(Queued(w)) = 1 /\ w.asked = "none"
      BY <1>3, <1>6, <2>3
    <3>2. Awaited(w) = 0 + 0 + 1
      BY <1>2, <3>1
    <3> QED BY <3>2
  <2> QED BY <2>1, <2>2, <2>3 DEF Pending
<1>8. Quiet(w) => Awaited(w) = 0
  BY <1>2, <1>3, <1>5 DEF Quiet
<1> QED BY <1>1, <1>7, <1>8 DEF WorkerOK, w

\* A worker that stages deltas waits for exactly one answer and any other for
\* none, however removals, full inboxes, lost deltas, failed calls and new
\* workers interleave with its fetches (run, handleTask).
THEOREM OneAnswer == Spec => []AwaitsOneAnswer
  BY Invariant, Counted, PTL

\* Induction over the naturals for a set: if it leaves one out, adding one would
\* put the smaller numbers it holds into a set with one element less.
LEMMA Counting ==
  ASSUME NEW P, 0 \in P, \A n \in Nat : n \in P => n + 1 \in P
  PROVE  Nat \subseteq P
<1> SUFFICES ASSUME NEW m \in Nat, m \notin P PROVE FALSE
  OBVIOUS
<1> DEFINE A == {k \in 0..m : k \in P}
           B == A \ {0}
           next == [k \in A |-> k + 1]
<1>1. \A k \in A : k \in Nat /\ k + 1 \in A /\ k + 1 # 0
  <2> TAKE k \in A
  <2>1. k \in 0..m /\ k \in P /\ k # m
    OBVIOUS
  <2> QED BY <2>1
<1>2. next \in [A -> B]
  BY <1>1
<1>3. IsFiniteSet(A)
  <2>1. IsFiniteSet(0..m)
    BY FS_Interval
  <2> QED BY <2>1, FS_Subset
<1>4. 0 \in A
  OBVIOUS
<1>5. IsFiniteSet(B) /\ Cardinality(B) = Cardinality(A) - 1
  BY <1>3, <1>4, FS_RemoveElement
<1>6. Cardinality(A) \in Nat
  BY <1>3, FS_CardinalityType
<1>7. Cardinality(B) < Cardinality(A)
  BY <1>5, <1>6
<1>9. \A k \in A : next[k] = k + 1
  OBVIOUS
<1> HIDE DEF A, B, next
<1>8. \E x, y \in A : x # y /\ next[x] = next[y]
  BY <1>2, <1>3, <1>5, <1>7, FS_PigeonHole
<1> QED BY <1>1, <1>8, <1>9

-----------------------------------------------------------------------------
\* What is left of the book by the range of a delta, step by step.
LEMMA UncoveredSteps ==
  ASSUME NEW s \in Seq(Int), NEW d
  PROVE  \E f : /\ Uncovered(s, d) = f[Len(s)]
                /\ f[0] = <<>>
                /\ \A n \in 1..Len(s) : f[n] = IF s[n] \in d.first..d.last THEN f[n - 1]
                                               ELSE Append(f[n - 1], s[n])
<1> DEFINE Body(f, n) == IF n = 0 THEN <<>>
                         ELSE IF s[n] \in d.first..d.last THEN f[n - 1] ELSE Append(f[n - 1], s[n])
           P == {m \in Nat : \E f : f = [n \in 0..m |-> Body(f, n)]}
<1>1. 0 \in P
  <2> DEFINE f == [n \in 0..0 |-> <<>>]
  <2>1. f = [n \in 0..0 |-> Body(f, n)]
    OBVIOUS
  <2> QED BY <2>1
<1>2. ASSUME NEW m \in Nat, m \in P PROVE m + 1 \in P
  <2>1. PICK f : f = [n \in 0..m |-> Body(f, n)]
    BY <1>2
  <2> DEFINE g == [n \in 0..m + 1 |-> IF n = m + 1 THEN Body(f, n) ELSE f[n]]
  <2>2. ASSUME NEW n \in 0..m + 1 PROVE g[n] = Body(g, n)
    <3>1. CASE n = m + 1
      <4>1. n - 1 = m /\ m \in 0..m + 1 /\ m # m + 1 /\ n # 0
        BY <3>1
      <4>2. g[n - 1] = f[n - 1]
        BY <4>1
      <4> QED BY <3>1, <4>2
    <3>2. CASE n # m + 1
      <4>1. n \in 0..m /\ (n # 0 => n - 1 \in 0..m + 1 /\ n - 1 # m + 1)
        BY <3>2
      <4>2. g[n] = f[n] /\ (n # 0 => g[n - 1] = f[n - 1])
        BY <4>1
      <4>3. f[n] = Body(f, n)
        BY <2>1, <4>1
      <4> QED BY <4>2, <4>3
    <3> QED BY <3>1, <3>2
  <2>3. g = [n \in 0..m + 1 |-> Body(g, n)]
    <3> HIDE DEF Body
    <3> QED BY <2>2
  <2> HIDE DEF g, Body
  <2> QED BY <2>3
<1>3. Len(s) \in P
  <2> HIDE DEF P
  <2> QED BY <1>1, <1>2, Counting
<1> DEFINE f == CHOOSE f : f = [n \in 0..Len(s) |-> Body(f, n)]
<1>4. f = [n \in 0..Len(s) |-> Body(f, n)]
  BY <1>3
<1>5. Uncovered(s, d) = f[Len(s)]
  BY DEF Uncovered
<1> HIDE DEF f
<1>6. \A n \in 0..Len(s) : f[n] = Body(f, n)
  <2> HIDE DEF Body
  <2> QED BY <1>4
<1>7. 0 \in 0..Len(s) /\ \A n \in 1..Len(s) : n \in 0..Len(s) /\ n # 0
  OBVIOUS
<1> QED BY <1>5, <1>6, <1>7

-----------------------------------------------------------------------------
(* The changes a book has taken in                                         *)

Ascending(s) == \A i, j \in DOMAIN s : i < j => s[i] < s[j]

\* A book took its changes in order and none above its version.
InOrder(book) ==
  /\ book.version \in Nat /\ book.applied \in Seq(Int)
  /\ Ascending(book.applied) /\ Range(book.applied) \subseteq 1..book.version

LEMMA AppendAscends ==
  ASSUME NEW s \in Seq(Int), Ascending(s), NEW x \in Int, \A y \in Range(s) : y < x
  PROVE  Append(s, x) \in Seq(Int) /\ Ascending(Append(s, x)) /\ Range(Append(s, x)) = Range(s) \cup {x}
<1>1. /\ Append(s, x) \in Seq(Int) /\ DOMAIN s = 1..Len(s) /\ Len(s) \in Nat
      /\ DOMAIN Append(s, x) = 1..Len(s) + 1
      /\ \A i \in 1..Len(s) : Append(s, x)[i] = s[i] /\ s[i] \in Range(s)
      /\ Append(s, x)[Len(s) + 1] = x
  BY DEF Range
<1>2. Ascending(Append(s, x))
  BY <1>1 DEF Ascending
<1>3. Range(Append(s, x)) = Range(s) \cup {x}
  <2>1. Range(Append(s, x)) \subseteq Range(s) \cup {x}
    BY <1>1 DEF Range
  <2>2. Range(s) \cup {x} \subseteq Range(Append(s, x))
    BY <1>1 DEF Range
  <2> QED BY <2>1, <2>2
<1> QED BY <1>1, <1>2, <1>3

LEMMA ConcatAscends ==
  ASSUME NEW s \in Seq(Int), Ascending(s), NEW t \in Seq(Int), Ascending(t),
         \A x \in Range(s), y \in Range(t) : x < y
  PROVE  s \o t \in Seq(Int) /\ Ascending(s \o t) /\ Range(s \o t) = Range(s) \cup Range(t)
<1>1. /\ s \o t \in Seq(Int) /\ Len(s) \in Nat /\ Len(t) \in Nat
      /\ DOMAIN s = 1..Len(s) /\ DOMAIN t = 1..Len(t) /\ DOMAIN (s \o t) = 1..Len(s) + Len(t)
      /\ \A i \in 1..Len(s) : (s \o t)[i] = s[i] /\ s[i] \in Range(s)
      /\ \A i \in Len(s) + 1..Len(s) + Len(t) :
           i - Len(s) \in 1..Len(t) /\ (s \o t)[i] = t[i - Len(s)] /\ t[i - Len(s)] \in Range(t)
  BY DEF Range
<1>2. Ascending(s \o t)
  <2> SUFFICES ASSUME NEW i \in 1..Len(s) + Len(t), NEW j \in 1..Len(s) + Len(t), i < j
               PROVE  (s \o t)[i] < (s \o t)[j]
    BY <1>1 DEF Ascending
  <2>1. CASE j <= Len(s)
    <3>1. i \in 1..Len(s) /\ j \in 1..Len(s)
      BY <1>1, <2>1
    <3>2. s[i] < s[j]
      BY <1>1, <3>1 DEF Ascending
    <3> QED BY <1>1, <3>1, <3>2
  <2>2. CASE i > Len(s)
    <3>1. i - Len(s) \in 1..Len(t) /\ j - Len(s) \in 1..Len(t) /\ i - Len(s) < j - Len(s)
      BY <1>1, <2>2
    <3>2. t[i - Len(s)] < t[j - Len(s)]
      BY <1>1, <3>1 DEF Ascending
    <3> QED BY <1>1, <2>2, <3>2
  <2>3. CASE i <= Len(s) /\ j > Len(s)
    <3>1. i \in 1..Len(s) /\ j \in Len(s) + 1..Len(s) + Len(t)
      BY <1>1, <2>3
    <3>2. (s \o t)[i] \in Range(s) /\ (s \o t)[j] \in Range(t)
      BY <1>1, <3>1
    <3> QED BY <3>2
  <2> QED BY <1>1, <2>1, <2>2, <2>3
<1>3. Range(s \o t) = Range(s) \cup Range(t)
  <2>1. Range(s \o t) \subseteq Range(s) \cup Range(t)
    <3> SUFFICES ASSUME NEW i \in 1..Len(s) + Len(t) PROVE (s \o t)[i] \in Range(s) \cup Range(t)
      BY <1>1 DEF Range
    <3> QED BY <1>1
  <2>2. ASSUME NEW i \in 1..Len(s) PROVE s[i] \in Range(s \o t)
    <3>1. i \in 1..Len(s) + Len(t) /\ (s \o t)[i] = s[i]
      BY <1>1
    <3> QED BY <1>1, <3>1 DEF Range
  <2>3. ASSUME NEW i \in 1..Len(t) PROVE t[i] \in Range(s \o t)
    <3>1. Len(s) + i \in 1..Len(s) + Len(t) /\ (s \o t)[Len(s) + i] = t[i]
      BY <1>1
    <3>2. Len(s) + i \in DOMAIN (s \o t)
      BY <1>1, <3>1
    <3> QED BY <3>1, <3>2 DEF Range
  <2>4. Range(s) \subseteq Range(s \o t)
    BY <1>1, <2>2 DEF Range
  <2>5. Range(t) \subseteq Range(s \o t)
    BY <1>1, <2>3 DEF Range
  <2> QED BY <2>1, <2>4, <2>5
<1> QED BY <1>1, <1>2, <1>3

LEMMA SpanOK ==
  ASSUME NEW a \in Nat, NEW b \in Nat, a <= b + 1
  PROVE  Span(a, b) \in Seq(Int) /\ Ascending(Span(a, b)) /\ Range(Span(a, b)) = a..b
<1> DEFINE n == b - a + 1
           s == [i \in 1..n |-> a + i - 1]
<1>1. n \in Nat /\ s = Span(a, b)
  BY DEF Span
<1>2. s \in [1..n -> Int] /\ \A i \in 1..n : s[i] = a + i - 1
  OBVIOUS
<1>3. \A v \in a..b : v - a + 1 \in 1..n /\ a + (v - a + 1) - 1 = v
  OBVIOUS
<1>4. \A i \in 1..n : a + i - 1 \in a..b
  OBVIOUS
<1>5. DOMAIN s = 1..n
  OBVIOUS
<1> HIDE DEF n, s
<1>6. s \in Seq(Int)
  BY <1>1, <1>2, SeqDef
<1>7. Ascending(s)
  BY <1>1, <1>2, <1>5 DEF Ascending
<1>8. Range(s) = a..b
  <2>1. \A i \in 1..n : s[i] \in a..b
    BY <1>2, <1>4
  <2>2. \A v \in a..b : \E i \in 1..n : s[i] = v
    BY <1>2, <1>3
  <2> QED BY <1>5, <2>1, <2>2 DEF Range
<1> QED BY <1>1, <1>6, <1>7, <1>8

LEMMA UncoveredOK ==
  ASSUME NEW s \in Seq(Int), Ascending(s), NEW d
  PROVE  LET u == Uncovered(s, d)
         IN u \in Seq(Int) /\ Ascending(u) /\ Range(u) = Range(s) \ (d.first..d.last)
<1> DEFINE R == d.first..d.last
<1> HIDE DEF R
<1>1. PICK f : /\ Uncovered(s, d) = f[Len(s)]
               /\ f[0] = <<>>
               /\ \A n \in 1..Len(s) : f[n] = IF s[n] \in R THEN f[n - 1] ELSE Append(f[n - 1], s[n])
  BY UncoveredSteps DEF R
<1> DEFINE Kept(u, n) == u \in Seq(Int) /\ Ascending(u) /\ Range(u) = {s[i] : i \in 1..n} \ R
           P == {n \in Nat : n <= Len(s) => Kept(f[n], n)}
<1>2. Len(s) \in Nat /\ DOMAIN s = 1..Len(s) /\ \A i \in 1..Len(s) : s[i] \in Int
  OBVIOUS
<1>3. 0 \in P
  <2>1. <<>> \in Seq(Int) /\ Ascending(<<>>) /\ Range(<<>>) = {}
    BY DEF Ascending, Range
  <2>2. {s[i] : i \in 1..0} \ R = {}
    OBVIOUS
  <2> QED BY <1>1, <2>1, <2>2
<1>4. ASSUME NEW n \in Nat, n \in P PROVE n + 1 \in P
  <2> SUFFICES ASSUME n + 1 <= Len(s) PROVE Kept(f[n + 1], n + 1)
    OBVIOUS
  <2>1. Kept(f[n], n) /\ n + 1 \in 1..Len(s) /\ (n + 1) - 1 = n
    BY <1>2, <1>4
  <2>2. f[n + 1] = IF s[n + 1] \in R THEN f[n] ELSE Append(f[n], s[n + 1])
    BY <1>1, <2>1
  <2>3. {s[i] : i \in 1..n + 1} = {s[i] : i \in 1..n} \cup {s[n + 1]}
    <3>1. 1..n + 1 = 1..n \cup {n + 1}
      OBVIOUS
    <3> QED BY <3>1
  <2>4. CASE s[n + 1] \in R
    BY <2>1, <2>2, <2>3, <2>4
  <2>5. CASE s[n + 1] \notin R
    <3>1. \A y \in Range(f[n]) : y < s[n + 1]
      <4>1. \A i \in 1..n : i \in DOMAIN s /\ n + 1 \in DOMAIN s /\ i < n + 1
        BY <1>2, <2>1
      <4>2. \A i \in 1..n : s[i] < s[n + 1]
        BY <4>1 DEF Ascending
      <4> QED BY <2>1, <4>2
    <3>2. /\ Append(f[n], s[n + 1]) \in Seq(Int) /\ Ascending(Append(f[n], s[n + 1]))
          /\ Range(Append(f[n], s[n + 1])) = Range(f[n]) \cup {s[n + 1]}
      BY <1>2, <2>1, <3>1, AppendAscends
    <3>3. f[n + 1] = Append(f[n], s[n + 1])
      BY <2>2, <2>5
    <3>4. Range(f[n + 1]) = {s[i] : i \in 1..n + 1} \ R
      BY <2>1, <2>3, <2>5, <3>2, <3>3
    <3> QED BY <3>2, <3>3, <3>4
  <2> QED BY <2>4, <2>5
<1>5. Kept(f[Len(s)], Len(s))
  <2>1. Nat \subseteq P
    <3> HIDE DEF P
    <3> QED BY <1>3, <1>4, Counting
  <2>2. Len(s) \in P
    <3> HIDE DEF P
    <3> QED BY <1>2, <2>1
  <2> QED BY <2>2
<1>6. {s[i] : i \in 1..Len(s)} = Range(s)
  BY <1>2 DEF Range
<1> QED BY <1>1, <1>5, <1>6 DEF R

\* A delta newer than the book adds its changes and leaves the others.
LEMMA ApplyDeltaOK ==
  ASSUME NEW book, InOrder(book), NEW d \in Deltas, book.version < d.last
  PROVE  /\ ApplyDelta(book, d).version = d.last
         /\ InOrder(ApplyDelta(book, d))
         /\ Range(ApplyDelta(book, d).applied) = Range(book.applied) \cup (d.first..d.last)
<1> DEFINE u == Uncovered(book.applied, d)
           s == Span(d.first, d.last)
<1>1. d.first \in Nat /\ d.last \in Nat /\ d.first >= 1 /\ d.first <= d.last
  BY BoundsAssumption DEF Deltas, Versions
<1>2. u \in Seq(Int) /\ Ascending(u) /\ Range(u) = Range(book.applied) \ (d.first..d.last)
  BY UncoveredOK DEF InOrder
<1>3. s \in Seq(Int) /\ Ascending(s) /\ Range(s) = d.first..d.last
  <2>1. d.first <= d.last + 1
    BY <1>1
  <2> QED BY <1>1, <2>1, SpanOK
<1>4. ApplyDelta(book, d).version = d.last /\ ApplyDelta(book, d).applied = u \o s
  BY DEF ApplyDelta
<1> HIDE DEF u, s
<1>5. \A x \in Range(u), y \in Range(s) : x < y
  BY <1>1, <1>2, <1>3 DEF InOrder
<1>6. u \o s \in Seq(Int) /\ Ascending(u \o s) /\ Range(u \o s) = Range(u) \cup Range(s)
  BY <1>2, <1>3, <1>5, ConcatAscends
<1>7. Range(u \o s) = Range(book.applied) \cup (d.first..d.last)
  BY <1>2, <1>3, <1>6
<1>8. Range(u \o s) \subseteq 1..d.last
  BY <1>1, <1>7 DEF InOrder
<1> QED BY <1>1, <1>4, <1>6, <1>7, <1>8 DEF InOrder

-----------------------------------------------------------------------------
(* What a replay of the staged deltas leaves                               *)

LEMMA Least ==
  ASSUME NEW T, T \subseteq Nat, T # {}
  PROVE  \E x \in T : \A y \in T : x <= y
<1> SUFFICES ASSUME \A x \in T : \E y \in T : y < x PROVE FALSE
  OBVIOUS
<1> DEFINE P == {n \in Nat : \A y \in T : y >= n}
<1>1. 0 \in P
  OBVIOUS
<1>2. ASSUME NEW n \in Nat, n \in P PROVE n + 1 \in P
  <2>1. n \notin T
    BY <1>2
  <2> QED BY <1>2, <2>1
<1>3. Nat \subseteq P
  <2> HIDE DEF P
  <2> QED BY <1>1, <1>2, Counting
<1>4. PICK y \in T : TRUE
  OBVIOUS
<1>5. y + 1 \in Nat
  BY <1>4
<1>6. y + 1 \in P
  <2> HIDE DEF P
  <2> QED BY <1>3, <1>5
<1> QED BY <1>4, <1>6

LEMMA WidestOK ==
  ASSUME NEW D, D \subseteq Deltas, D # {}
  PROVE  Widest(D) \in D /\ \A e \in D : Widest(D).first <= e.first
<1> DEFINE T == {d.first : d \in D}
<1>1. T \subseteq Nat /\ T # {}
  BY BoundsAssumption DEF Deltas, Versions
<1>2. PICK x \in T : \A y \in T : x <= y
  <2> HIDE DEF T
  <2> QED BY <1>1, Least
<1>3. PICK d \in D : x = d.first
  BY <1>2
<1>4. \A e \in D : d.first <= e.first
  BY <1>2, <1>3
<1> QED BY <1>4 DEF Widest

\* r is the book once the deltas of the version v have been replayed.
OneReplayed(r, book, staging, v) ==
  /\ InOrder(r)
  /\ r.version = book.version \/ (r.version = v /\ \E d \in Range(staging) : d.last = v)
  /\ Range(book.applied) \subseteq Range(r.applied)
  /\ \A d \in Range(staging) :
       d.last = v => r.version = v /\ d.first..d.last \subseteq Range(r.applied)

LEMMA ReplayVersionOK ==
  ASSUME NEW book, InOrder(book), NEW staging \in Seq(Deltas), NEW v \in Nat, book.version < v
  PROVE  OneReplayed(ReplayVersion(book, staging, v), book, staging, v)
<1> DEFINE D == {d \in Range(staging) : d.last = v}
           r == ReplayVersion(book, staging, v)
<1>1. D \subseteq Deltas
  BY DEF Range
<1>2. r = IF D = {} THEN book ELSE ApplyDelta(book, Widest(D))
  BY DEF ReplayVersion
<1> HIDE DEF r
<1>3. CASE D = {}
  BY <1>2, <1>3 DEF OneReplayed, r
<1>4. CASE D # {}
  <2> DEFINE w == Widest(D)
  <2>1. w \in D /\ \A e \in D : w.first <= e.first
    <3> HIDE DEF D
    <3> QED BY <1>1, <1>4, WidestOK
  <2> HIDE DEF w
  <2>2. w \in Deltas /\ w.last = v /\ w \in Range(staging)
    BY <1>1, <2>1
  <2>3. r = ApplyDelta(book, w)
    BY <1>2, <1>4 DEF w
  <2>4. r.version = v /\ InOrder(r) /\ Range(r.applied) = Range(book.applied) \cup (w.first..w.last)
    BY <2>2, <2>3, ApplyDeltaOK
  <2>5. ASSUME NEW d \in Range(staging), d.last = v PROVE d.first..d.last \subseteq w.first..w.last
    <3>1. d \in D /\ d \in Deltas
      BY <1>1, <2>5
    <3>2. w.first <= d.first /\ w.first \in Nat /\ d.first \in Nat
      BY <2>1, <2>2, <3>1, BoundsAssumption DEF Deltas, Versions
    <3> QED BY <2>2, <2>5, <3>2
  <2> QED BY <2>2, <2>4, <2>5 DEF OneReplayed, r
<1> QED BY <1>3, <1>4 DEF r

\* The books of a replay, version by version.
LEMMA ReplaySteps ==
  ASSUME NEW book, book.version \in Nat, book.version <= MaxVersion, NEW staging
  PROVE  \E f : /\ ReplayStaged(book, staging) = f[MaxVersion]
                /\ f[book.version] = book
                /\ \A v \in book.version + 1..MaxVersion :
                     f[v] = ReplayVersion(f[v - 1], staging, v)
<1> DEFINE b == book.version
           Body(f, v) == IF v = b THEN book ELSE ReplayVersion(f[v - 1], staging, v)
           P == {n \in Nat : \E f : f = [v \in b..b + n |-> Body(f, v)]}
<1> HIDE DEF b
<1>1. b \in Nat /\ MaxVersion \in Nat /\ b <= MaxVersion
  BY BoundsAssumption DEF b
<1>2. 0 \in P
  <2> DEFINE f == [v \in b..b + 0 |-> book]
  <2>1. \A v \in b..b + 0 : v = b
    BY <1>1
  <2>2. f = [v \in b..b + 0 |-> Body(f, v)]
    BY <2>1
  <2> QED BY <2>2
<1>3. ASSUME NEW n \in Nat, n \in P PROVE n + 1 \in P
  <2>1. PICK f : f = [v \in b..b + n |-> Body(f, v)]
    BY <1>3
  <2> DEFINE m == b + n
             g == [v \in b..m + 1 |-> IF v = m + 1 THEN Body(f, v) ELSE f[v]]
  <2>2. ASSUME NEW v \in b..m + 1 PROVE g[v] = Body(g, v)
    <3>1. CASE v = m + 1
      <4>1. v - 1 = m /\ m \in b..m + 1 /\ m # m + 1 /\ v # b
        BY <1>1, <3>1
      <4>2. g[v - 1] = f[v - 1]
        BY <4>1
      <4> QED BY <3>1, <4>1, <4>2
    <3>2. CASE v # m + 1
      <4>1. v \in b..m /\ (v # b => v - 1 \in b..m + 1 /\ v - 1 # m + 1)
        BY <1>1, <3>2
      <4>2. g[v] = f[v] /\ (v # b => g[v - 1] = f[v - 1])
        BY <3>2, <4>1
      <4>3. f[v] = Body(f, v)
        <5> HIDE DEF Body
        <5> QED BY <2>1, <4>1
      <4> QED BY <4>2, <4>3
    <3> QED BY <3>1, <3>2
  <2>3. g = [v \in b..m + 1 |-> Body(g, v)]
    <3> HIDE DEF Body
    <3> QED BY <2>2
  <2>4. m + 1 = b + (n + 1)
    BY <1>1
  <2> HIDE DEF g, Body, m
  <2> QED BY <2>3, <2>4
<1>4. MaxVersion - b \in P /\ b + (MaxVersion - b) = MaxVersion
  <2> HIDE DEF P
  <2> QED BY <1>1, <1>2, <1>3, Counting
<1> DEFINE f == CHOOSE f : f = [v \in b..MaxVersion |-> Body(f, v)]
<1>5. f = [v \in b..MaxVersion |-> Body(f, v)]
  BY <1>4
<1>6. ReplayStaged(book, staging) = f[MaxVersion]
  BY DEF ReplayStaged, b
<1> HIDE DEF f
<1>7. \A v \in b..MaxVersion : f[v] = Body(f, v)
  <2> HIDE DEF Body
  <2> QED BY <1>5
<1>8. f[b] = book /\ \A v \in b + 1..MaxVersion : f[v] = ReplayVersion(f[v - 1], staging, v)
  BY <1>1, <1>7
<1> QED BY <1>6, <1>8 DEF b

\* r is the book once the staged deltas up to the version v have been replayed.
AllReplayed(r, book, staging, v) ==
  /\ InOrder(r)
  /\ book.version <= r.version /\ r.version <= v
  /\ r.version = book.version \/ \E d \in Range(staging) : r.version = d.last
  /\ Range(book.applied) \subseteq Range(r.applied)
  /\ \A d \in Range(staging) :
       book.version < d.last /\ d.last <= v =>
         d.last <= r.version /\ d.first..d.last \subseteq Range(r.applied)

LEMMA ReplayOK ==
  ASSUME NEW book, InOrder(book), book.version <= MaxVersion, NEW staging \in Seq(Deltas)
  PROVE  AllReplayed(ReplayStaged(book, staging), book, staging, MaxVersion)
<1>0. \E f : /\ ReplayStaged(book, staging) = f[MaxVersion]
             /\ f[book.version] = book
             /\ \A v \in book.version + 1..MaxVersion : f[v] = ReplayVersion(f[v - 1], staging, v)
  <2>1. book.version \in Nat
    BY DEF InOrder
  <2> QED BY <2>1, ReplaySteps
<1> DEFINE b == book.version
<1>1. b \in Nat /\ MaxVersion \in Nat /\ \A d \in Range(staging) : d.last \in Nat
  BY BoundsAssumption DEF InOrder, Deltas, Versions, Range
<1>2. PICK f : /\ ReplayStaged(book, staging) = f[MaxVersion]
               /\ f[b] = book
               /\ \A v \in b + 1..MaxVersion : f[v] = ReplayVersion(f[v - 1], staging, v)
  BY <1>0
<1> DEFINE P == {n \in Nat : b + n <= MaxVersion => AllReplayed(f[b + n], book, staging, b + n)}
<1>3. 0 \in P
  <2>1. b + 0 = b /\ b <= b /\ \A x \in Nat : ~(b < x /\ x <= b)
    BY <1>1
  <2>2. AllReplayed(f[b], book, staging, b)
    BY <1>1, <1>2, <2>1 DEF AllReplayed
  <2> QED BY <2>1, <2>2
<1>4. ASSUME NEW n \in Nat, n \in P PROVE n + 1 \in P
  <2> SUFFICES ASSUME b + (n + 1) <= MaxVersion
               PROVE  AllReplayed(f[b + (n + 1)], book, staging, b + (n + 1))
    <3>1. n + 1 \in Nat
      OBVIOUS
    <3> QED BY <3>1, Zenon
  <2> DEFINE u == b + n
             v == b + (n + 1)
  <2>1. u \in Nat /\ v \in Nat /\ v = u + 1 /\ v - 1 = u /\ v \in b + 1..MaxVersion /\ u <= MaxVersion
    <3> HIDE DEF b
    <3>1. u \in Nat /\ v = u + 1 /\ v <= MaxVersion
      BY <1>1
    <3>2. b + 1 <= v
      BY <1>1
    <3> HIDE DEF u, v
    <3> QED BY <1>1, <3>1, <3>2
  <2>2. AllReplayed(f[u], book, staging, u)
    BY <1>4, <2>1
  <2>3. f[v] = ReplayVersion(f[u], staging, v)
    BY <1>2, <2>1
  <2> HIDE DEF u, v, b
  <2>4. InOrder(f[u]) /\ f[u].version < v
    BY <2>1, <2>2 DEF AllReplayed, InOrder
  <2>5. OneReplayed(f[v], f[u], staging, v)
    BY <2>1, <2>3, <2>4, ReplayVersionOK
  <2>6. f[u].version \in Nat /\ f[v].version \in Nat
    BY <2>2, <2>5 DEF AllReplayed, OneReplayed, InOrder
  <2>7. b <= f[v].version /\ f[v].version <= v
    BY <1>1, <2>1, <2>2, <2>5, <2>6 DEF AllReplayed, OneReplayed, b
  <2>8. ASSUME NEW d \in Range(staging), b < d.last, d.last <= v
        PROVE  d.last <= f[v].version /\ d.first..d.last \subseteq Range(f[v].applied)
    <3>1. d.last = v \/ d.last <= u
      BY <1>1, <2>1, <2>8
    <3>2. d.last <= u => d.last <= f[u].version /\ d.first..d.last \subseteq Range(f[u].applied)
      BY <2>2, <2>8 DEF AllReplayed, b
    <3>3. f[u].version <= f[v].version
      BY <2>1, <2>4, <2>5, <2>6 DEF OneReplayed
    <3> QED BY <1>1, <2>1, <2>5, <2>6, <3>1, <3>2, <3>3 DEF OneReplayed
  <2>9. f[v].version = b \/ \E d \in Range(staging) : f[v].version = d.last
    BY <2>2, <2>5 DEF AllReplayed, OneReplayed, b
  <2>10. AllReplayed(f[v], book, staging, v)
    BY <2>2, <2>5, <2>7, <2>8, <2>9 DEF AllReplayed, OneReplayed, b
  <2> QED BY <2>10 DEF v
<1>5. MaxVersion - b \in Nat /\ b + (MaxVersion - b) = MaxVersion
  BY <1>1
<1>6. MaxVersion - b \in P
  <2> HIDE DEF P
  <2> QED BY <1>3, <1>4, <1>5, Counting
<1>7. AllReplayed(f[MaxVersion], book, staging, MaxVersion)
  BY <1>1, <1>5, <1>6
<1> QED BY <1>2, <1>7

-----------------------------------------------------------------------------
(* What a list of commits leaves                                           *)

Acc(acc) == acc \in [book : {acc.book}, ok : BOOLEAN] /\ InOrder(acc.book)

\* r is what a commit c makes of acc.
OneBridged(r, acc, c) ==
  /\ Acc(r)
  /\ acc.book.version <= r.book.version
  /\ r.book.version = acc.book.version \/ r.book.version = c.last
  /\ r.ok => acc.ok /\ c.last <= r.book.version
  /\ Range(acc.book.applied) \subseteq Range(r.book.applied)
  /\ cfg.strict /\ 0 < acc.book.version =>
       acc.book.version + 1..r.book.version \subseteq Range(r.book.applied)
  /\ acc.ok /\ c.last <= acc.book.version + 1 => r.ok

LEMMA CommitOK ==
  ASSUME NEW acc, Acc(acc), NEW c \in Deltas
  PROVE  OneBridged(Commit(acc, c), acc, c)
<1> DEFINE one == [first |-> c.last, last |-> c.last]
           r == Commit(acc, c)
           b == acc.book
           applied == [acc EXCEPT !.book = ApplyDelta(b, c)]
           failed == [acc EXCEPT !.ok = FALSE]
<1>1. /\ c.first \in Nat /\ c.last \in Nat /\ c.first >= 1 /\ c.first <= c.last
      /\ b.version \in Nat
  BY BoundsAssumption DEF Deltas, Versions, Acc, InOrder
<1>2. /\ Stale(b, one) <=> b.version > 0 /\ c.last <= b.version
      /\ Gap(b, one) <=> cfg.strict /\ b.version > 0 /\ c.last # b.version + 1
  BY DEF Stale, Gap
<1>3. r = IF ~acc.ok \/ Stale(b, one) THEN acc ELSE IF Gap(b, one) THEN failed ELSE applied
  BY DEF Commit
<1>4. Acc(failed) /\ failed.book = b /\ ~failed.ok
  BY DEF Acc
<1> HIDE DEF r, b, failed, applied, one
<1>5. CASE ~acc.ok \/ Stale(b, one)
  <2>1. r = acc /\ b.version + 1..b.version = {}
    BY <1>1, <1>3, <1>5
  <2> QED BY <1>1, <1>2, <1>5, <2>1 DEF OneBridged, b, r
<1>6. CASE acc.ok /\ ~Stale(b, one) /\ Gap(b, one)
  <2>1. r = failed /\ b.version + 1..b.version = {}
    BY <1>1, <1>3, <1>6
  <2>2. c.last > b.version + 1
    BY <1>1, <1>2, <1>6
  <2> QED BY <1>1, <1>4, <2>1, <2>2 DEF OneBridged, b, r
<1>7. CASE acc.ok /\ ~Stale(b, one) /\ ~Gap(b, one)
  <2>1. b.version < c.last
    BY <1>1, <1>2, <1>7
  <2> DEFINE a == ApplyDelta(b, c)
  <2>2. a.version = c.last /\ InOrder(a) /\ Range(a.applied) = Range(b.applied) \cup (c.first..c.last)
    BY <2>1, ApplyDeltaOK DEF Acc, b
  <2>3. r = [acc EXCEPT !.book = a]
    BY <1>3, <1>7 DEF applied
  <2> HIDE DEF a
  <2>4. r.book = a /\ r.ok /\ Acc(r)
    BY <1>7, <2>2, <2>3 DEF Acc
  <2>5. cfg.strict /\ 0 < b.version => b.version + 1..a.version \subseteq Range(a.applied)
    <3> SUFFICES ASSUME cfg.strict, 0 < b.version PROVE b.version + 1..a.version \subseteq Range(a.applied)
      OBVIOUS
    <3>1. c.last = b.version + 1
      BY <1>2, <1>7, <2>1, <1>1
    <3>2. b.version + 1..a.version = {c.last}
      BY <1>1, <2>2, <3>1
    <3>3. c.last \in c.first..c.last
      BY <1>1
    <3> QED BY <2>2, <3>2, <3>3
  <2> QED BY <1>1, <1>7, <2>1, <2>2, <2>4, <2>5 DEF OneBridged, b, r
<1> QED BY <1>5, <1>6, <1>7 DEF r

LEMMA CommitSteps ==
  ASSUME NEW book, NEW list \in Seq(Deltas)
  PROVE  \E f : /\ ApplyCommits(book, list) = f[Len(list)]
                /\ f[0] = [book |-> book, ok |-> TRUE]
                /\ \A n \in 1..Len(list) : f[n] = Commit(f[n - 1], list[n])
<1> DEFINE Body(f, n) == IF n = 0 THEN [book |-> book, ok |-> TRUE] ELSE Commit(f[n - 1], list[n])
           P == {m \in Nat : \E f : f = [n \in 0..m |-> Body(f, n)]}
<1>1. 0 \in P
  <2> DEFINE f == [n \in 0..0 |-> [book |-> book, ok |-> TRUE]]
  <2>1. f = [n \in 0..0 |-> Body(f, n)]
    OBVIOUS
  <2> QED BY <2>1
<1>2. ASSUME NEW m \in Nat, m \in P PROVE m + 1 \in P
  <2>1. PICK f : f = [n \in 0..m |-> Body(f, n)]
    BY <1>2
  <2> DEFINE g == [n \in 0..m + 1 |-> IF n = m + 1 THEN Body(f, n) ELSE f[n]]
  <2>2. ASSUME NEW n \in 0..m + 1 PROVE g[n] = Body(g, n)
    <3>1. CASE n = m + 1
      <4>1. n - 1 = m /\ m \in 0..m + 1 /\ m # m + 1 /\ n # 0
        BY <3>1
      <4>2. g[n - 1] = f[n - 1]
        BY <4>1
      <4> QED BY <3>1, <4>1, <4>2
    <3>2. CASE n # m + 1
      <4>1. n \in 0..m /\ (n # 0 => n - 1 \in 0..m + 1 /\ n - 1 # m + 1)
        BY <3>2
      <4>2. g[n] = f[n] /\ (n # 0 => g[n - 1] = f[n - 1])
        BY <3>2, <4>1
      <4>3. f[n] = Body(f, n)
        <5> HIDE DEF Body
        <5> QED BY <2>1, <4>1
      <4> QED BY <4>2, <4>3
    <3> QED BY <3>1, <3>2
  <2>3. g = [n \in 0..m + 1 |-> Body(g, n)]
    <3> HIDE DEF Body
    <3> QED BY <2>2
  <2> HIDE DEF g, Body
  <2> QED BY <2>3
<1>3. Len(list) \in Nat /\ Len(list) \in P
  <2> HIDE DEF P
  <2> QED BY <1>1, <1>2, Counting
<1> DEFINE f == CHOOSE f : f = [n \in 0..Len(list) |-> Body(f, n)]
<1>4. f = [n \in 0..Len(list) |-> Body(f, n)]
  BY <1>3
<1>5. ApplyCommits(book, list) = f[Len(list)]
  BY DEF ApplyCommits
<1> HIDE DEF f
<1>6. \A n \in 0..Len(list) : f[n] = Body(f, n)
  <2> HIDE DEF Body
  <2> QED BY <1>4
<1>7. 0 \in 0..Len(list) /\ \A n \in 1..Len(list) : n \in 0..Len(list) /\ n # 0
  BY <1>3
<1> QED BY <1>5, <1>6, <1>7

\* Each commit is numbered one higher than the one before.
Chained(list) == \A i \in DOMAIN list : i > 1 => list[i].last = list[i - 1].last + 1

\* r is what the first n commits of the list make of the book.
AllBridged(r, book, list, n) ==
  /\ Acc(r)
  /\ book.version <= r.book.version
  /\ r.book.version = book.version \/ \E i \in 1..n : r.book.version = list[i].last
  /\ r.ok => \A i \in 1..n : list[i].last <= r.book.version
  /\ Range(book.applied) \subseteq Range(r.book.applied)
  /\ cfg.strict /\ 0 < book.version =>
       book.version + 1..r.book.version \subseteq Range(r.book.applied)
  /\ Chained(list) /\ (n > 0 => list[1].last <= book.version + 1) => r.ok

LEMMA ApplyCommitsOK ==
  ASSUME NEW book, InOrder(book), NEW list \in Seq(Deltas)
  PROVE  AllBridged(ApplyCommits(book, list), book, list, Len(list))
<1> DEFINE N == Len(list)
<1>1. /\ book.version \in Nat /\ N \in Nat /\ DOMAIN list = 1..N
      /\ \A i \in 1..N : list[i] \in Deltas
      /\ \A d \in Deltas : d.last \in Nat
  BY BoundsAssumption DEF InOrder, Deltas, Versions
<1>2. PICK f : /\ ApplyCommits(book, list) = f[N]
               /\ f[0] = [book |-> book, ok |-> TRUE]
               /\ \A n \in 1..N : f[n] = Commit(f[n - 1], list[n])
  BY CommitSteps
<1> HIDE DEF N
<1> DEFINE P == {n \in Nat : n <= N => AllBridged(f[n], book, list, n)}
<1>3. 0 \in P
  <2> DEFINE r == [book |-> book, ok |-> TRUE]
  <2>1. Acc(r) /\ r.book = book /\ r.ok
    BY DEF Acc
  <2>2. 1..0 = {} /\ book.version + 1..book.version = {}
    BY <1>1
  <2> HIDE DEF r
  <2>3. AllBridged(r, book, list, 0)
    BY <1>1, <2>1, <2>2 DEF AllBridged
  <2> QED BY <1>2, <2>3 DEF r
<1>4. ASSUME NEW m \in Nat, m \in P PROVE m + 1 \in P
  <2> SUFFICES ASSUME m + 1 <= N PROVE AllBridged(f[m + 1], book, list, m + 1)
    OBVIOUS
  <2> DEFINE n == m + 1
             a == f[m]
             r == f[n]
             c == list[n]
  <2>1. n \in 1..N /\ n - 1 = m /\ m <= N /\ 1..n = 1..m \cup {n} /\ c \in Deltas
    BY <1>1
  <2>2. AllBridged(a, book, list, m)
    BY <1>4, <2>1
  <2>3. r = Commit(a, c)
    BY <1>2, <2>1
  <2>4. m > 0 => m \in 1..m /\ 1 \in 1..m
    OBVIOUS
  <2>5. Chained(list) /\ m > 0 => c.last = list[m].last + 1
    BY <1>1, <2>1 DEF Chained
  <2>6. m = 0 => c = list[1]
    OBVIOUS
  <2>7. m > 0 => n > 0 /\ list[m] \in Deltas
    BY <1>1, <2>1
  <2> HIDE DEF a, r, c, n
  <2>8. OneBridged(r, a, c)
    BY <2>1, <2>2, <2>3, CommitOK DEF AllBridged
  <2>9. a.book.version \in Nat /\ r.book.version \in Nat /\ c.last \in Nat
    BY <1>1, <2>1, <2>2, <2>8 DEF AllBridged, OneBridged, Acc, InOrder
  <2>10. Acc(r) /\ book.version <= r.book.version /\ Range(book.applied) \subseteq Range(r.book.applied)
    BY <1>1, <2>2, <2>8, <2>9 DEF AllBridged, OneBridged
  <2>11. r.book.version = book.version \/ \E i \in 1..n : r.book.version = list[i].last
    BY <2>1, <2>2, <2>8 DEF AllBridged, OneBridged, c
  <2>12. ASSUME r.ok, NEW i \in 1..n PROVE list[i].last <= r.book.version
    <3>1. CASE i = n
      BY <2>8, <2>12, <3>1 DEF OneBridged, c
    <3>2. CASE i # n
      <4>1. i \in 1..m /\ list[i] \in Deltas
        BY <1>1, <2>1, <3>2
      <4>2. list[i].last <= a.book.version
        BY <2>2, <2>8, <2>12, <4>1 DEF AllBridged, OneBridged
      <4> QED BY <1>1, <2>8, <2>9, <4>1, <4>2 DEF OneBridged
    <3> QED BY <3>1, <3>2
  <2>13. ASSUME cfg.strict, 0 < book.version
         PROVE  book.version + 1..r.book.version \subseteq Range(r.book.applied)
    <3>1. 0 < a.book.version /\ book.version + 1..a.book.version \subseteq Range(r.book.applied)
      BY <1>1, <2>2, <2>8, <2>9, <2>13 DEF AllBridged, OneBridged
    <3>2. a.book.version + 1..r.book.version \subseteq Range(r.book.applied)
      BY <2>8, <2>13, <3>1 DEF OneBridged
    <3> QED BY <1>1, <2>9, <3>1, <3>2
  <2>14. ASSUME Chained(list), n > 0 => list[1].last <= book.version + 1 PROVE r.ok
    <3>1. a.ok
      BY <2>2, <2>7, <2>14 DEF AllBridged
    <3>2. CASE m = 0
      <4>1. c.last <= a.book.version + 1
        BY <1>1, <2>2, <2>6, <2>9, <2>14, <3>2 DEF AllBridged, n
      <4> QED BY <2>8, <3>1, <4>1 DEF OneBridged
    <3>3. CASE m > 0
      <4>1. list[m].last <= a.book.version /\ list[m].last \in Nat
        BY <1>1, <2>2, <2>4, <2>7, <3>1, <3>3 DEF AllBridged
      <4>2. c.last <= a.book.version + 1
        BY <2>5, <2>9, <2>14, <3>3, <4>1
      <4> QED BY <2>8, <3>1, <4>2 DEF OneBridged
    <3> QED BY <3>2, <3>3
  <2>15. AllBridged(r, book, list, n)
    BY <2>10, <2>11, <2>12, <2>13, <2>14 DEF AllBridged
  <2> QED BY <2>15 DEF r, n
<1>5. N \in P
  <2> HIDE DEF P
  <2> QED BY <1>1, <1>3, <1>4, Counting
<1> QED BY <1>1, <1>2, <1>5 DEF N

-----------------------------------------------------------------------------
(* The book of a worker and the changes on their way to it                 *)

Carried(w) == Range(w.inbox) \cup Range(w.reply)

\* An answer on its way to the worker shows the version v.
Shows(w, v) ==
  \E t \in Carried(w) :
    (t.msg = "snapshot" /\ t.version = v) \/ (t.msg = "commits" /\ t.list = Commits(v))

\* Missed, or staged, or in one of the first i tasks of the inbox.
Held(w, u) == u \in w.missed \/ \E d \in Range(w.staging) : u \in d.first..d.last
Known(w, u, i) ==
  \/ Held(w, u)
  \/ \E j \in 1..i : w.inbox[j].msg = "update"
                     /\ u \in w.inbox[j].delta.first..w.inbox[j].delta.last

\* No change after the version v is lost unnoticed: those before the end of a
\* delta, and those the stream has put out, are known.
Accounted(w, v, s) ==
  /\ \A d \in Range(w.staging) : \A u \in v + 1..d.last : Held(w, u)
  /\ \A i \in 1..Len(w.inbox) : w.inbox[i].msg = "update" =>
       \A u \in v + 1..w.inbox[i].delta.last : Known(w, u, i)
  /\ \A u \in v + 1..s : Known(w, u, Len(w.inbox))

BookKept(w) ==
  /\ InOrder(w.book) /\ w.book.version <= MaxVersion
  /\ w.staging \in Seq(Deltas)
  /\ \A t \in Carried(w) : t.msg = "commits" => t.list = <<>> \/ \E v \in Versions : t.list = Commits(v)
  /\ w.life = "unborn" => w.book = EmptyBook

\* Nothing is newer than what the stream has put out (s) or the exchange has (p).
Bounded(w, s, p) ==
  /\ w.book.version <= p
  /\ \A d \in Range(w.staging) : d.last <= s
  /\ \A i \in 1..Len(w.inbox) : w.inbox[i].msg = "update" => w.inbox[i].delta.last <= s

Answerable(w, s, p) ==
  \A v \in Versions : Shows(w, v) => w.book.version <= v /\ v <= p /\ Accounted(w, v, s)

Bridging(w) ==
  w.asked = "commits" \/ (\E t \in Carried(w) : t.msg = "commits") => w.state = "RECOVERING"

Covered(book, missed) == 1..book.version \subseteq Range(book.applied) \cup missed
Whole(w) ==
  w.state \in {"READY", "RECOVERING"} =>
    0 < w.book.version /\ (cfg.strict => Covered(w.book, w.missed))

\* What holds of the running worker of an incremental book when no REST answer lags.
Prompt == "lag" \notin Faults /\ cfg.mode = "INCREMENTAL"
Synced(w, s, p) == Bounded(w, s, p) /\ Answerable(w, s, p) /\ Bridging(w) /\ Whole(w)
Good(w, s, p) == BookKept(w) /\ (Prompt /\ w.life = "run" => Synced(w, s, p))

\* v follows w, and the book has not gone back.
Follows(v, w, s, p) ==
  Good(v, s, p) /\ (Prompt /\ v.life = "run" => w.book.version <= v.book.version)

\* v differs from w in fields neither statement looks at.
SameData(v, w) ==
  /\ v.life = w.life /\ v.state = w.state /\ v.inbox = w.inbox /\ v.reply = w.reply
  /\ v.asked = w.asked /\ v.book = w.book /\ v.staging = w.staging /\ v.missed = w.missed

LEMMA SameGood ==
  ASSUME NEW v, NEW w, SameData(v, w), NEW s, NEW p, Good(w, s, p)
  PROVE  Good(v, s, p)
  BY DEF SameData, Good, BookKept, Synced, Bounded, Answerable, Bridging, Whole, Shows, Carried,
         Accounted, Held, Known

LEMMA VersionType == ASSUME NEW w, BookKept(w) PROVE w.book.version \in 0..MaxVersion
  BY BoundsAssumption DEF BookKept, InOrder

LEMMA DeltaType ==
  /\ MaxVersion \in Nat \ {0} /\ Versions = 1..MaxVersion
  /\ \A d \in Deltas : d.first \in Versions /\ d.last \in Versions /\ d.first <= d.last
  BY BoundsAssumption DEF Deltas, Versions

LEMMA TaskDelta ==
  ASSUME NEW inbox \in Seq(Tasks)
  PROVE  /\ Len(inbox) \in Nat /\ DOMAIN inbox = 1..Len(inbox)
         /\ \A i \in 1..Len(inbox) : inbox[i] \in Tasks /\ inbox[i] \in Range(inbox)
         /\ \A i \in 1..Len(inbox) : inbox[i].msg = "update" => inbox[i].delta \in Deltas
<1>1. \A t \in Tasks : t.msg = "update" => t.delta \in Deltas
  BY DEF Tasks
<1> QED BY <1>1 DEF Range

\* Nothing is shown when no answer is on its way.
LEMMA QuietShows ==
  ASSUME NEW w, Shaped(w), Quiet(w)
  PROVE  /\ \A t \in Carried(w) : t.msg \notin Replies
         /\ \A v : ~Shows(w, v)
         /\ Bridging(w)
         /\ \A s, p : Answerable(w, s, p)
<1>1. \A t \in Carried(w) : t.msg \notin Replies
  <2>1. Range(w.reply) = {}
    BY DEF Quiet, Range
  <2>2. \A i \in DOMAIN w.inbox : w.inbox[i].msg \notin Replies
    BY DEF Quiet, Queued
  <2> QED BY <2>1, <2>2 DEF Carried, Range
<1>2. \A v : ~Shows(w, v)
  BY <1>1 DEF Shows, Replies
<1>3. Bridging(w)
  BY <1>1 DEF Bridging, Replies, Quiet
<1> QED BY <1>1, <1>2, <1>3 DEF Answerable

\* An answer that is shown is on its way.
LEMMA ShownQueued ==
  ASSUME NEW w, NEW v, Shows(w, v)
  PROVE  ReplyQueued(w)
<1>1. PICK t \in Carried(w) : t.msg \in Replies
  BY DEF Shows, Replies
<1>2. CASE t \in Range(w.inbox)
  BY <1>1, <1>2 DEF Range, ReplyQueued
<1>3. CASE t \in Range(w.reply)
  <2>1. w.reply # <<>>
    BY <1>3 DEF Range
  <2> QED BY <2>1 DEF ReplyQueued
<1> QED BY <1>1, <1>2, <1>3 DEF Carried

-----------------------------------------------------------------------------
(* The inbox                                                               *)

\* The task at the head is taken; an update it carries is still to be staged.
LEMMA TakenKnown ==
  ASSUME NEW w, w.inbox \in Seq(Tasks), w.inbox # <<>>, NEW v, v.inbox = Tail(w.inbox),
         NEW u, NEW i \in 1..Len(w.inbox), Known(w, u, i),
         Held(w, u) => Held(v, u),
         Head(w.inbox).msg = "update" /\ u \in Head(w.inbox).delta.first..Head(w.inbox).delta.last
           => Held(v, u)
  PROVE  Known(v, u, i - 1)
<1>1. CASE Held(w, u)
  BY <1>1 DEF Known
<1>2. ASSUME NEW j \in 1..i, w.inbox[j].msg = "update",
             u \in w.inbox[j].delta.first..w.inbox[j].delta.last
      PROVE  Known(v, u, i - 1)
  <2>1. CASE j = 1
    <3>1. w.inbox[j] = Head(w.inbox)
      BY <2>1
    <3> QED BY <1>2, <3>1 DEF Known
  <2>2. CASE j # 1
    <3>1. j - 1 \in 1..i - 1 /\ j - 1 \in 1..Len(w.inbox) - 1 /\ (j - 1) + 1 = j
      BY <2>2
    <3>2. v.inbox[j - 1] = w.inbox[j]
      BY <3>1
    <3> QED BY <1>2, <3>1, <3>2 DEF Known
  <2> QED BY <2>1, <2>2
<1> QED BY <1>1, <1>2 DEF Known

LEMMA TakenAccounted ==
  ASSUME NEW w, w.inbox \in Seq(Tasks), w.inbox # <<>>, NEW v, v.inbox = Tail(w.inbox),
         NEW x, NEW s, Accounted(w, x, s),
         \A u : Held(w, u) => Held(v, u),
         Head(w.inbox).msg = "update" =>
           \A u \in Head(w.inbox).delta.first..Head(w.inbox).delta.last : Held(v, u),
         \A d \in Range(v.staging) : \/ d \in Range(w.staging)
                                     \/ Head(w.inbox).msg = "update" /\ d = Head(w.inbox).delta
  PROVE  Accounted(v, x, s)
<1>1. /\ Len(w.inbox) \in Nat \ {0} /\ Len(v.inbox) = Len(w.inbox) - 1
      /\ Head(w.inbox) = w.inbox[1] /\ 1 \in 1..Len(w.inbox)
      /\ \A i \in 1..Len(v.inbox) : i + 1 \in 1..Len(w.inbox) /\ v.inbox[i] = w.inbox[i + 1]
                                    /\ (i + 1) - 1 = i
  OBVIOUS
<1>2. \A u : \A i \in 1..Len(w.inbox) : Known(w, u, i) => Known(v, u, i - 1)
  BY TakenKnown
<1>3. ASSUME NEW d \in Range(v.staging), NEW u \in x + 1..d.last PROVE Held(v, u)
  <2>1. CASE d \in Range(w.staging)
    BY <1>3, <2>1 DEF Accounted
  <2>2. CASE Head(w.inbox).msg = "update" /\ d = Head(w.inbox).delta
    <3>1. Known(w, u, 1)
      BY <1>1, <1>3, <2>2 DEF Accounted
    <3>2. Known(v, u, 1 - 1)
      BY <1>1, <1>2, <3>1
    <3> QED BY <3>2 DEF Known
  <2> QED BY <2>1, <2>2
<1>4. ASSUME NEW i \in 1..Len(v.inbox), v.inbox[i].msg = "update", NEW u \in x + 1..v.inbox[i].delta.last
      PROVE  Known(v, u, i)
  <2>1. Known(w, u, i + 1)
    BY <1>1, <1>4 DEF Accounted
  <2> QED BY <1>1, <1>2, <2>1
<1>5. ASSUME NEW u \in x + 1..s PROVE Known(v, u, Len(v.inbox))
  <2>1. Known(w, u, Len(w.inbox)) /\ Len(w.inbox) \in 1..Len(w.inbox)
    BY <1>1 DEF Accounted
  <2> QED BY <1>1, <1>2, <2>1
<1> QED BY <1>3, <1>4, <1>5 DEF Accounted

\* A task is put behind the others; the stream has gone on from s to r.
LEMMA PutAccounted ==
  ASSUME NEW w, w.inbox \in Seq(Tasks), NEW t \in Tasks, NEW v, v.inbox = Append(w.inbox, t),
         v.staging = w.staging, v.missed = w.missed, NEW x \in Nat, NEW s \in Nat, NEW r \in Nat, s <= r,
         Accounted(w, x, s),
         t.msg = "update" => t.delta.last <= r,
         \A u \in s + 1..r : t.msg = "update" /\ u \in t.delta.first..t.delta.last
  PROVE  Accounted(v, x, r)
<1>1. /\ Len(w.inbox) \in Nat /\ Len(v.inbox) = Len(w.inbox) + 1 /\ v.inbox[Len(w.inbox) + 1] = t
      /\ \A i \in 1..Len(w.inbox) : v.inbox[i] = w.inbox[i]
  OBVIOUS
<1> DEFINE n == Len(w.inbox)
<1>2. \A u : Held(v, u) <=> Held(w, u)
  BY DEF Held
<1>3. \A u : \A i \in 0..n : Known(w, u, i) => Known(v, u, i)
  BY <1>1, <1>2 DEF Known
<1>4. \A u : \A i \in 0..n : Known(v, u, i) => Known(v, u, n + 1)
  BY <1>1 DEF Known
<1>5. ASSUME NEW u \in x + 1..r PROVE Known(v, u, n + 1)
  <2>1. CASE u <= s
    <3>1. Known(w, u, n)
      BY <2>1 DEF Accounted
    <3> QED BY <1>1, <1>3, <1>4, <3>1
  <2>2. CASE u > s
    <3>1. u \in s + 1..r
      BY <2>2
    <3>2. t.msg = "update" /\ u \in t.delta.first..t.delta.last
      BY <3>1
    <3>3. n + 1 \in 1..n + 1
      BY <1>1
    <3> QED BY <1>1, <3>2, <3>3 DEF Known
  <2> QED BY <2>1, <2>2
<1>6. ASSUME NEW i \in 1..n + 1, v.inbox[i].msg = "update", NEW u \in x + 1..v.inbox[i].delta.last
      PROVE  Known(v, u, i)
  <2>1. CASE i = n + 1
    <3>1. t.delta \in Deltas /\ t.delta.last <= r /\ u \in x + 1..t.delta.last
      BY <1>1, <1>6, <2>1 DEF Tasks
    <3>2. u \in x + 1..r
      BY <3>1, DeltaType
    <3> QED BY <1>5, <2>1, <3>2
  <2>2. CASE i # n + 1
    <3>1. i \in 1..n
      BY <1>1, <2>2
    <3>2. Known(w, u, i)
      BY <1>1, <1>6, <3>1 DEF Accounted
    <3> QED BY <1>1, <1>3, <3>1, <3>2
  <2> QED BY <2>1, <2>2
<1>7. \A d \in Range(v.staging) : \A u \in x + 1..d.last : Held(v, u)
  BY <1>2 DEF Accounted
<1> QED BY <1>1, <1>5, <1>6, <1>7 DEF Accounted

-----------------------------------------------------------------------------
(* The parts of a handler and the book                                     *)

\* The fields of a worker whose head was taken.
LEMMA TakenData ==
  ASSUME IInv, NEW g \in Gens, NEW msg, Takes(g, msg), BookKept(worker[g])
  PROVE  LET w == worker[g]
             v == Taken(g)
         IN /\ v.inbox = Tail(w.inbox) /\ w.inbox \in Seq(Tasks) /\ w.inbox # <<>>
            /\ v.life = w.life /\ v.state = w.state /\ v.reply = w.reply /\ v.asked = w.asked
            /\ v.book = w.book /\ v.staging = w.staging /\ v.missed = w.missed
            /\ Carried(v) \subseteq Carried(w) /\ Head(w.inbox) \in Carried(w)
            /\ BookKept(v) /\ \A s, p : Bounded(w, s, p) => Bounded(v, s, p)
<1> DEFINE w == worker[g]
           v == Taken(g)
<1>1. Shaped(w) /\ w.inbox # <<>>
  BY DEF IInv, WorkerOK, Takes
<1>2. /\ v.inbox = Tail(w.inbox)
      /\ v.life = w.life /\ v.state = w.state /\ v.reply = w.reply /\ v.asked = w.asked
      /\ v.book = w.book /\ v.staging = w.staging /\ v.missed = w.missed
  BY <1>1 DEF Taken, Shaped
<1>3. w.inbox \in Seq(Tasks)
  BY <1>1 DEF Shaped
<1> HIDE DEF w, v
<1>4. /\ Len(w.inbox) \in Nat /\ Len(v.inbox) = Len(w.inbox) - 1 /\ Head(w.inbox) = w.inbox[1]
      /\ 1 \in DOMAIN w.inbox /\ DOMAIN v.inbox = 1..Len(v.inbox) /\ DOMAIN w.inbox = 1..Len(w.inbox)
      /\ \A i \in 1..Len(v.inbox) : i + 1 \in 1..Len(w.inbox) /\ v.inbox[i] = w.inbox[i + 1]
  BY <1>1, <1>2, <1>3 DEF w
<1>5. Range(v.inbox) \subseteq Range(w.inbox) /\ Head(w.inbox) \in Range(w.inbox)
  <2>1. ASSUME NEW t \in Range(v.inbox) PROVE t \in Range(w.inbox)
    <3>1. PICK i \in 1..Len(v.inbox) : t = v.inbox[i]
      BY <1>4, <2>1 DEF Range
    <3>2. i + 1 \in DOMAIN w.inbox /\ t = w.inbox[i + 1]
      BY <1>4, <3>1
    <3> QED BY <3>2 DEF Range
  <2>2. Head(w.inbox) \in Range(w.inbox)
    BY <1>4 DEF Range
  <2> QED BY <2>1, <2>2
<1>6. Carried(v) \subseteq Carried(w) /\ Head(w.inbox) \in Carried(w)
  BY <1>2, <1>5 DEF Carried
<1>7. BookKept(w)
  BY DEF w
<1>8. BookKept(v)
  BY <1>2, <1>6, <1>7 DEF BookKept
<1>9. \A s, p : Bounded(w, s, p) => Bounded(v, s, p)
  BY <1>2, <1>4 DEF Bounded
<1> QED BY <1>1, <1>2, <1>3, <1>6, <1>8, <1>9 DEF w, v

LEMMA StageData ==
  ASSUME NEW w, Shaped(w), w.staging \in Seq(Deltas), NEW d \in Deltas
  PROVE  LET v == Stage(w, d)
         IN /\ v.staging \in Seq(Deltas) /\ Range(v.staging) = Range(w.staging) \cup {d}
            /\ v.life = w.life /\ v.state = w.state /\ v.inbox = w.inbox /\ v.reply = w.reply
            /\ v.asked = w.asked /\ v.book = w.book /\ v.missed = w.missed
            /\ \A u : Held(v, u) <=> Held(w, u) \/ u \in d.first..d.last
<1> DEFINE v == Stage(w, d)
<1>1. /\ v.staging = Append(w.staging, d)
      /\ v.life = w.life /\ v.state = w.state /\ v.inbox = w.inbox /\ v.reply = w.reply
      /\ v.asked = w.asked /\ v.book = w.book /\ v.missed = w.missed
  BY DEF Stage, Shaped
<1> HIDE DEF v
<1>2. /\ v.staging \in Seq(Deltas) /\ Len(w.staging) \in Nat /\ Len(v.staging) = Len(w.staging) + 1
      /\ DOMAIN w.staging = 1..Len(w.staging) /\ DOMAIN v.staging = 1..Len(w.staging) + 1
      /\ v.staging[Len(w.staging) + 1] = d
      /\ \A i \in 1..Len(w.staging) : v.staging[i] = w.staging[i]
  BY <1>1
<1>3. Range(v.staging) \subseteq Range(w.staging) \cup {d}
  BY <1>2 DEF Range
<1>4. Range(w.staging) \cup {d} \subseteq Range(v.staging)
  BY <1>2 DEF Range
<1>5. Range(v.staging) = Range(w.staging) \cup {d}
  BY <1>3, <1>4
<1>6. \A u : Held(v, u) <=> Held(w, u) \/ u \in d.first..d.last
  BY <1>1, <1>5 DEF Held
<1> QED BY <1>1, <1>2, <1>5, <1>6 DEF v

LEMMA MissData ==
  ASSUME NEW w, Shaped(w), NEW deltas
  PROVE  LET v == MissAll(w, deltas)
         IN /\ v.life = w.life /\ v.state = w.state /\ v.inbox = w.inbox /\ v.reply = w.reply
            /\ v.asked = w.asked /\ v.book = w.book /\ v.staging = w.staging
            /\ Shaped(v)
            /\ v.missed = IF ReplyQueued(w) THEN w.missed \cup UNION {d.first..d.last : d \in deltas}
                          ELSE w.missed
  BY DEF MissAll, Shaped

\* What is cut off the staging buffer counts as missed.
LEMMA CutData ==
  ASSUME NEW w, Shaped(w), w.staging \in Seq(Deltas)
  PROVE  LET v == Cut(w)
         IN /\ v.staging \in Seq(Deltas) /\ Range(v.staging) \subseteq Range(w.staging)
            /\ v.life = w.life /\ v.state = w.state /\ v.inbox = w.inbox /\ v.reply = w.reply
            /\ v.asked = w.asked /\ v.book = w.book /\ w.missed \subseteq v.missed
            /\ ReplyQueued(w) => \A u : Held(w, u) => Held(v, u)
<1> DEFINE dropped == Dropped(w)
           m == MissAll(w, Range(dropped))
           n == Len(dropped)
           rest == SubSeq(w.staging, n + 1, Len(w.staging))
           v == Cut(w)
<1>1. /\ m.life = w.life /\ m.state = w.state /\ m.inbox = w.inbox /\ m.reply = w.reply
      /\ m.asked = w.asked /\ m.book = w.book /\ m.staging = w.staging
      /\ Shaped(m)
      /\ m.missed = IF ReplyQueued(w) THEN w.missed \cup UNION {d.first..d.last : d \in Range(dropped)}
                    ELSE w.missed
  <2> HIDE DEF dropped
  <2> QED BY MissData
<1> HIDE DEF m
<1>2. v = [m EXCEPT !.staging = SubSeq(@, n + 1, Len(@))]
  BY DEF Cut, m
<1> HIDE DEF v
<1>3. /\ v.life = w.life /\ v.state = w.state /\ v.inbox = w.inbox /\ v.reply = w.reply
      /\ v.asked = w.asked /\ v.book = w.book /\ v.staging = rest /\ v.missed = m.missed
  BY <1>1, <1>2 DEF Shaped
<1>4. /\ n \in 0..Len(w.staging) /\ Len(w.staging) \in Nat
      /\ DOMAIN dropped = 1..n /\ \A i \in 1..n : dropped[i] = w.staging[i]
  <2>1. StageMax \in Nat /\ StageKeep \in Nat /\ StageKeep <= StageMax
    BY BoundsAssumption
  <2>2. CASE Len(w.staging) > StageMax
    <3>1. dropped = SubSeq(w.staging, 1, Len(w.staging) - StageKeep)
      BY <2>2 DEF Dropped
    <3> QED BY <2>1, <2>2, <3>1
  <2>3. CASE ~(Len(w.staging) > StageMax)
    <3>1. dropped = <<>>
      BY <2>3 DEF Dropped
    <3> QED BY <3>1
  <2> QED BY <2>2, <2>3
<1>5. /\ rest \in Seq(Deltas) /\ Len(rest) = Len(w.staging) - n /\ DOMAIN rest = 1..Len(rest)
      /\ \A i \in 1..Len(rest) : rest[i] = w.staging[n + i] /\ n + i \in 1..Len(w.staging)
  <2> HIDE DEF n, dropped
  <2>1. n \in Nat /\ n <= Len(w.staging) /\ n + 1 \in 1..Len(w.staging) + 1 /\ Len(w.staging) \in Nat
    BY <1>4
  <2>2. \A i \in n + 1..Len(w.staging) : w.staging[i] \in Deltas
    BY <2>1
  <2> HIDE DEF rest
  <2>3. /\ rest \in Seq(Deltas) /\ Len(rest) = IF n + 1 <= Len(w.staging) THEN Len(w.staging) - (n + 1) + 1 ELSE 0
        /\ \A i \in 1..Len(w.staging) - (n + 1) + 1 : rest[i] = w.staging[(n + 1) + i - 1]
    BY <2>1, <2>2, SubSeqProperties DEF rest
  <2>4. Len(rest) = Len(w.staging) - n /\ DOMAIN rest = 1..Len(rest)
    BY <2>1, <2>3
  <2>5. \A i \in 1..Len(rest) : /\ i \in 1..Len(w.staging) - (n + 1) + 1 /\ (n + 1) + i - 1 = n + i
                                 /\ n + i \in 1..Len(w.staging)
    BY <2>1, <2>4
  <2> QED BY <2>3, <2>4, <2>5
<1> HIDE DEF rest, n, dropped
<1>6. DOMAIN w.staging = 1..Len(w.staging)
  OBVIOUS
<1>7. Range(rest) \subseteq Range(w.staging)
  BY <1>5, <1>6 DEF Range
<1>8. ASSUME NEW d \in Range(w.staging) PROVE d \in Range(dropped) \/ d \in Range(rest)
  <2>1. PICK i \in 1..Len(w.staging) : d = w.staging[i]
    BY <1>6, <1>8 DEF Range
  <2>2. CASE i <= n
    <3>1. i \in 1..n
      BY <1>4, <2>2
    <3> QED BY <1>4, <2>1, <3>1 DEF Range
  <2>3. CASE i > n
    <3>1. i - n \in 1..Len(rest) /\ n + (i - n) = i
      BY <1>4, <1>5, <2>3
    <3>2. rest[i - n] = w.staging[i]
      BY <1>5, <3>1
    <3> QED BY <1>5, <2>1, <3>1, <3>2 DEF Range
  <2> QED BY <1>4, <2>2, <2>3
<1>9. ASSUME ReplyQueued(w), NEW u, Held(w, u) PROVE Held(v, u)
  <2>1. CASE u \in w.missed
    BY <1>1, <1>3, <1>9, <2>1 DEF Held
  <2>2. ASSUME NEW d \in Range(w.staging), u \in d.first..d.last PROVE Held(v, u)
    <3>1. CASE d \in Range(dropped)
      BY <1>1, <1>3, <1>9, <2>2, <3>1 DEF Held
    <3>2. CASE d \in Range(rest)
      BY <1>3, <2>2, <3>2 DEF Held
    <3> QED BY <1>8, <3>1, <3>2
  <2> QED BY <1>9, <2>1, <2>2 DEF Held
<1> QED BY <1>1, <1>3, <1>5, <1>7, <1>9 DEF v

\* What a replay makes of a book that is whole but for what was missed.
LEMMA ReplayWhole ==
  ASSUME NEW book, InOrder(book), book.version <= MaxVersion, 0 < book.version,
         NEW missed, cfg.strict => Covered(book, missed),
         NEW w, w.staging \in Seq(Deltas), w.missed = missed, NEW s \in Nat, NEW p \in Nat, s <= p,
         book.version <= p, \A d \in Range(w.staging) : d.last <= s,
         NEW x \in Nat, x <= book.version, Accounted(w, x, s)
  PROVE  LET r == ReplayStaged(book, w.staging)
         IN /\ InOrder(r) /\ r.version <= MaxVersion /\ r.version <= p
            /\ book.version <= r.version
            /\ cfg.strict => Covered(r, missed)
<1> DEFINE r == ReplayStaged(book, w.staging)
<1>1. AllReplayed(r, book, w.staging, MaxVersion)
  BY ReplayOK
<1> HIDE DEF r
<1>2. book.version \in Nat /\ r.version \in Nat /\ \A d \in Range(w.staging) : d.first \in Nat /\ d.last \in Nat
  BY <1>1, DeltaType DEF AllReplayed, InOrder, Range
<1>3. r.version <= p
  BY <1>1, <1>2 DEF AllReplayed
<1>4. ASSUME cfg.strict, NEW u \in 1..r.version PROVE u \in Range(r.applied) \cup missed
  <2>1. CASE u <= book.version
    <3>1. u \in 1..book.version
      BY <1>2, <1>4, <2>1
    <3> QED BY <1>1, <1>4, <3>1 DEF AllReplayed, Covered
  <2>2. CASE u > book.version
    <3>1. PICK d \in Range(w.staging) : r.version = d.last
      BY <1>1, <1>2, <1>4, <2>2 DEF AllReplayed
    <3>2. Held(w, u)
      BY <1>2, <1>4, <2>2, <3>1 DEF Accounted
    <3>3. ASSUME NEW e \in Range(w.staging), u \in e.first..e.last PROVE u \in Range(r.applied)
      <4>1. book.version < e.last /\ e.last <= MaxVersion
        BY <1>2, <2>2, <3>3, DeltaType DEF Range
      <4> QED BY <1>1, <3>3, <4>1 DEF AllReplayed
    <3> QED BY <3>2, <3>3 DEF Held
  <2> QED BY <1>2, <2>1, <2>2
<1> QED BY <1>1, <1>3, <1>4 DEF AllReplayed, Covered, r

-----------------------------------------------------------------------------
(* What the parts of a handler leave                                       *)

\* A book nothing was put into.
LEMMA EmptyOK ==
  /\ InOrder(EmptyBook) /\ EmptyBook.version = 0 /\ 0 <= MaxVersion
  /\ Range(<<>>) = {} /\ DOMAIN <<>> = {} /\ <<>> \in Seq(Deltas) /\ Len(<<>>) = 0
<1>1. Range(<<>>) = {} /\ DOMAIN <<>> = {} /\ <<>> \in Seq(Int) /\ <<>> \in Seq(Deltas) /\ Len(<<>>) = 0
  BY DEF Range
<1> QED BY <1>1, DeltaType DEF InOrder, EmptyBook, Ascending

LEMMA QuietGood ==
  ASSUME NEW v, Shaped(v), BookKept(v), NEW s, NEW p,
         Prompt /\ v.life = "run" => Quiet(v) /\ Bounded(v, s, p) /\ Whole(v)
  PROVE  Good(v, s, p)
  BY QuietShows DEF Good, Synced

\* A snapshot is asked for when nothing is on its way.
LEMMA AskSnapshotGood ==
  ASSUME NEW w, Shaped(w), BookKept(w), NEW s, NEW p,
         Prompt /\ w.life = "run" => Quiet(w) /\ Bounded(w, s, p)
  PROVE  LET v == AskSnapshot(w)
         IN Good(v, s, p) /\ v.book = w.book /\ v.life = w.life
<1> DEFINE v == AskSnapshot(w)
<1>1. /\ v.life = w.life /\ v.state = "SYNCING" /\ v.inbox = w.inbox /\ v.reply = w.reply
      /\ v.asked = "snapshot" /\ v.book = w.book /\ v.staging = w.staging
  BY DEF AskSnapshot, Shaped
<1> HIDE DEF v
<1>2. Carried(v) = Carried(w)
  BY <1>1 DEF Carried
<1>3. BookKept(v)
  BY <1>1, <1>2 DEF BookKept
<1>4. ASSUME Prompt, v.life = "run" PROVE Synced(v, s, p)
  <2>1. Quiet(w) /\ Bounded(w, s, p)
    BY <1>1, <1>4
  <2>2. Bounded(v, s, p)
    BY <1>1, <2>1 DEF Bounded
  <2>3. \A t \in Carried(v) : t.msg \notin Replies
    BY <1>2, <2>1, QuietShows
  <2>4. Answerable(v, s, p) /\ Bridging(v)
    BY <1>1, <2>3 DEF Answerable, Bridging, Shows, Replies
  <2> QED BY <1>1, <2>2, <2>4 DEF Synced, Whole
<1> QED BY <1>1, <1>3, <1>4 DEF Good, v

\* A gap is found while nothing is on its way.
LEMMA AskRecoveryGood ==
  ASSUME NEW w, Shaped(w), BookKept(w), NEW s, NEW p,
         Prompt /\ w.life = "run" =>
           Quiet(w) /\ Bounded(w, s, p) /\ 0 < w.book.version /\ (cfg.strict => Covered(w.book, w.missed))
  PROVE  LET v == AskRecovery(w)
         IN Good(v, s, p) /\ v.book = w.book /\ v.life = w.life
<1> DEFINE v == AskRecovery(w)
           m == [w EXCEPT !.state = "RECOVERING"]
<1>1. /\ m.life = w.life /\ m.state = "RECOVERING" /\ m.inbox = w.inbox /\ m.reply = w.reply
      /\ m.asked = w.asked /\ m.book = w.book /\ m.staging = w.staging /\ m.missed = w.missed
      /\ Shaped(m)
  BY DEF Shaped, States, Fetching
<1>2. v = IF cfg.commits = "none" THEN AskSnapshot(m) ELSE AskCommits(m)
  BY DEF AskRecovery
<1> HIDE DEF v, m
<1>3. Carried(m) = Carried(w) /\ Queued(m) = Queued(w)
  BY <1>1 DEF Carried, Queued
<1>4. BookKept(m)
  BY <1>1, <1>3 DEF BookKept
<1>5. Prompt /\ m.life = "run" => Quiet(m) /\ Bounded(m, s, p)
  BY <1>1, <1>3 DEF Quiet, Bounded
<1>6. CASE cfg.commits = "none"
  <2>1. LET a == AskSnapshot(m) IN Good(a, s, p) /\ a.book = m.book /\ a.life = m.life
    BY <1>1, <1>4, <1>5, AskSnapshotGood
  <2> QED BY <1>1, <1>2, <1>6, <2>1 DEF v
<1>7. CASE cfg.commits # "none"
  <2>1. /\ v.life = w.life /\ v.state = "RECOVERING" /\ v.inbox = w.inbox /\ v.reply = w.reply
        /\ v.asked = "commits" /\ v.book = w.book /\ v.staging = w.staging /\ v.missed = w.missed
    BY <1>1, <1>2, <1>7 DEF AskCommits, Shaped
  <2>2. Carried(v) = Carried(w)
    BY <2>1 DEF Carried
  <2>3. BookKept(v)
    BY <2>1, <2>2 DEF BookKept
  <2>4. ASSUME Prompt, v.life = "run" PROVE Synced(v, s, p)
    <3>1. /\ Quiet(w) /\ Bounded(w, s, p) /\ 0 < w.book.version
          /\ cfg.strict => Covered(w.book, w.missed)
      BY <2>1, <2>4
    <3>2. Bounded(v, s, p)
      BY <2>1, <3>1 DEF Bounded
    <3>3. \A t \in Carried(v) : t.msg \notin Replies
      BY <2>2, <3>1, QuietShows
    <3>4. Answerable(v, s, p) /\ Bridging(v)
      BY <2>1, <3>3 DEF Answerable, Bridging, Shows, Replies
    <3> QED BY <2>1, <3>1, <3>2, <3>4 DEF Synced, Whole
  <2> QED BY <2>1, <2>3, <2>4 DEF Good, v
<1> QED BY <1>6, <1>7

\* The last answer has been handled: the staged deltas go into the book.
LEMMA ReadyGood ==
  ASSUME NEW w, Shaped(w), BookKept(w), w.life # "unborn",
         NEW book, InOrder(book), book.version <= MaxVersion,
         NEW s \in Nat, NEW p \in Nat, s <= p,
         Prompt /\ w.life = "run" =>
           /\ Quiet(w) /\ Bounded(w, s, p) /\ 0 < book.version /\ book.version <= p
           /\ cfg.strict => Covered(book, w.missed)
           /\ \E x \in Nat : x <= book.version /\ Accounted(w, x, s)
  PROVE  LET v == Ready(w, book)
         IN Good(v, s, p) /\ v.life = w.life /\ (Prompt => book.version <= v.book.version)
<1> DEFINE v == Ready(w, book)
           r == ReplayStaged(book, w.staging)
<1>1. /\ v.life = w.life /\ v.state = "READY" /\ v.inbox = w.inbox /\ v.reply = w.reply
      /\ v.asked = w.asked /\ v.staging = <<>> /\ v.missed = w.missed
      /\ v.book = IF cfg.mode = "INCREMENTAL" THEN r ELSE book
      /\ Shaped(v)
  BY DEF Ready, Shaped, States
<1>2. InOrder(r) /\ r.version <= MaxVersion /\ book.version <= r.version
  BY ReplayOK DEF AllReplayed, BookKept
<1> HIDE DEF v, r
<1>3. Carried(v) = Carried(w) /\ Queued(v) = Queued(w)
  BY <1>1 DEF Carried, Queued
<1>4. <<>> \in Seq(Deltas) /\ Range(v.staging) = {}
  BY <1>1 DEF Range
<1>5. BookKept(v)
  BY <1>1, <1>2, <1>3, <1>4 DEF BookKept
<1>6. ASSUME Prompt, v.life = "run" PROVE Quiet(v) /\ Bounded(v, s, p) /\ Whole(v)
  <2>1. PICK x \in Nat : x <= book.version /\ Accounted(w, x, s)
    BY <1>1, <1>6
  <2>2. /\ Quiet(w) /\ Bounded(w, s, p) /\ 0 < book.version /\ book.version <= p
        /\ cfg.strict => Covered(book, w.missed)
    BY <1>1, <1>6
  <2>3. w.staging \in Seq(Deltas) /\ \A d \in Range(w.staging) : d.last <= s
    BY <2>2 DEF BookKept, Bounded
  <2>4. /\ r.version <= p /\ book.version <= r.version
        /\ cfg.strict => Covered(r, w.missed)
    BY <2>1, <2>2, <2>3, ReplayWhole DEF r
  <2>5. v.book = r /\ 0 < r.version
    BY <1>1, <1>2, <1>6, <2>2 DEF Prompt, InOrder
  <2>6. Quiet(v)
    BY <1>1, <1>3, <2>2 DEF Quiet
  <2>7. Bounded(v, s, p)
    BY <1>1, <1>4, <2>2, <2>4, <2>5 DEF Bounded
  <2>8. Whole(v)
    BY <1>1, <2>4, <2>5 DEF Whole
  <2> QED BY <2>6, <2>7, <2>8
<1>7. Good(v, s, p)
  BY <1>1, <1>5, <1>6, QuietGood
<1>8. Prompt => book.version <= v.book.version
  BY <1>1, <1>2 DEF Prompt
<1> QED BY <1>1, <1>7, <1>8 DEF v

\* Only the worker of the symbol runs, and every worker keeps its book.
SyncInv ==
  /\ sent \in 1..produced
  /\ \A g \in Gens : worker[g].life = "run" <=> current = g
  /\ \A g \in Gens : Good(worker[g], sent, produced)

\* The worker g becomes one whose book follows.
Moves(g) ==
  \E v : /\ Becomes(g, v) /\ Follows(v, worker[g], sent, produced)
         /\ v.life = "run" <=> worker[g].life = "run"

-----------------------------------------------------------------------------
(* The handlers and the book                                               *)

LEMMA Streams ==
  ASSUME IInv, SyncInv
  PROVE  sent \in Nat /\ produced \in Nat /\ sent <= produced /\ sent >= 1
         /\ produced <= MaxVersion /\ MaxVersion \in Nat
  BY DeltaType DEF IInv, SyncInv

\* What a handler finds when it has taken the head of the inbox.
LEMMA TakenGood ==
  ASSUME IInv, SyncInv, NEW g \in Gens, NEW msg, Takes(g, msg)
  PROVE  LET w == worker[g]
             v == Taken(g)
         IN /\ Shaped(w) /\ Shaped(v) /\ BookKept(w) /\ BookKept(v)
            /\ w.life # "unborn" /\ v.life = w.life /\ v.state = w.state /\ v.book = w.book
            /\ v.staging = w.staging /\ v.missed = w.missed /\ v.inbox = Tail(w.inbox)
            /\ v.asked = w.asked
            /\ w.inbox \in Seq(Tasks) /\ w.inbox # <<>> /\ w.book.version \in Nat
            /\ Head(w.inbox) \in Carried(w) /\ Head(w.inbox) \in Tasks /\ Head(w.inbox).msg = msg
            /\ Carried(v) \subseteq Carried(w)
            /\ Prompt /\ w.life = "run" =>
                 /\ Synced(w, sent, produced) /\ Bounded(v, sent, produced)
                 /\ w.state \notin Fetching \/ msg \in Replies => Quiet(v)
                 /\ msg # "update" => \A x : Accounted(w, x, sent) => Accounted(v, x, sent)
<1> DEFINE w == worker[g]
           v == Taken(g)
<1>1. Good(w, sent, produced) /\ WorkerOK(w, cfg.mode)
  BY DEF SyncInv, IInv
<1>2. BookKept(w) /\ Shaped(w) /\ (Prompt /\ w.life = "run" => Synced(w, sent, produced))
  BY <1>1 DEF Good, WorkerOK
<1>3. /\ v.inbox = Tail(w.inbox) /\ w.inbox \in Seq(Tasks) /\ w.inbox # <<>>
      /\ v.life = w.life /\ v.state = w.state /\ v.reply = w.reply /\ v.asked = w.asked
      /\ v.book = w.book /\ v.staging = w.staging /\ v.missed = w.missed
      /\ Carried(v) \subseteq Carried(w) /\ Head(w.inbox) \in Carried(w)
      /\ BookKept(v) /\ \A s, p : Bounded(w, s, p) => Bounded(v, s, p)
  BY <1>2, TakenData
<1>4. /\ Head(w.inbox) \in Tasks /\ Head(w.inbox).msg = msg
      /\ Shaped(v)
      /\ msg \notin Replies => WorkerOK(v, cfg.mode)
      /\ msg \in Replies => (cfg.mode = "INCREMENTAL" /\ v.life = "run" => Quiet(v))
  BY TakenOK
<1>5. w.life # "unborn"
  BY DEF Takes
<1> HIDE DEF w, v
<1>6. w.book.version \in Nat
  BY <1>2 DEF BookKept, InOrder
<1>7. ASSUME Prompt, w.life = "run", w.state \notin Fetching \/ msg \in Replies PROVE Quiet(v)
  BY <1>3, <1>4, <1>7, NotFetching DEF Prompt
<1>8. ASSUME msg # "update", NEW x, Accounted(w, x, sent) PROVE Accounted(v, x, sent)
  <2>1. \A u : Held(w, u) => Held(v, u)
    BY <1>3 DEF Held
  <2> QED BY <1>3, <1>4, <1>8, <2>1, TakenAccounted
<1>9. Prompt /\ w.life = "run" => Synced(w, sent, produced) /\ Bounded(v, sent, produced)
  BY <1>2, <1>3 DEF Synced
<1> QED BY <1>2, <1>3, <1>4, <1>5, <1>6, <1>7, <1>8, <1>9 DEF w, v

\* A task of a caller changes nothing the book depends on.
LEMMA CallerGood ==
  ASSUME IInv, SyncInv, NEW g \in Gens, HandleInit(g) \/ HandleFlush(g)
  PROVE  Moves(g)
<1> DEFINE w == worker[g]
           v == Taken(g)
           waiting == [v EXCEPT !.waiters = @ \cup {Head(w.inbox).from}]
<1>1. PICK msg \in {"init", "flush"} : Takes(g, msg)
  BY DEF HandleInit, HandleFlush
<1>2. /\ Shaped(w) /\ Shaped(v) /\ BookKept(w) /\ BookKept(v)
      /\ v.life = w.life /\ v.state = w.state /\ v.book = w.book
      /\ v.missed = w.missed /\ v.asked = w.asked
      /\ w.book.version \in Nat /\ Carried(v) \subseteq Carried(w)
      /\ Prompt /\ w.life = "run" =>
           /\ Synced(w, sent, produced) /\ Bounded(v, sent, produced)
           /\ w.state \notin Fetching => Quiet(v)
           /\ \A x : Accounted(w, x, sent) => Accounted(v, x, sent)
  BY <1>1, TakenGood
<1>3. \/ Becomes(g, v) \/ Becomes(g, waiting)
      \/ w.state = "UNINITIALIZED" /\ Becomes(g, AskSnapshot(waiting))
  BY DEF HandleInit, HandleFlush
<1>4. Shaped(waiting) /\ SameData(waiting, v)
  BY <1>2 DEF Shaped, SameData
<1> HIDE DEF w, v, waiting
<1>5. ASSUME Prompt, v.life = "run" PROVE Synced(v, sent, produced)
  <2>1. /\ Synced(w, sent, produced) /\ Bounded(v, sent, produced)
        /\ \A x : Accounted(w, x, sent) => Accounted(v, x, sent)
    BY <1>2, <1>5
  <2>2. \A x : Shows(v, x) => Shows(w, x)
    BY <1>2 DEF Shows
  <2>3. Answerable(v, sent, produced)
    BY <1>2, <2>1, <2>2 DEF Synced, Answerable
  <2>4. Bridging(v) /\ Whole(v)
    BY <1>2, <2>1 DEF Synced, Bridging, Whole
  <2> QED BY <2>1, <2>3, <2>4 DEF Synced
<1>6. Good(v, sent, produced)
  BY <1>2, <1>5 DEF Good
<1>7. Good(waiting, sent, produced)
  BY <1>4, <1>6, SameGood
<1>8. w.state = "UNINITIALIZED" => /\ Good(AskSnapshot(waiting), sent, produced)
                                   /\ AskSnapshot(waiting).book = waiting.book
                                   /\ AskSnapshot(waiting).life = waiting.life
  <2>1. ASSUME w.state = "UNINITIALIZED", Prompt, waiting.life = "run"
        PROVE  Quiet(waiting) /\ Bounded(waiting, sent, produced)
    <3>1. Quiet(v) /\ Bounded(v, sent, produced)
      BY <1>2, <1>4, <2>1 DEF Fetching, SameData
    <3> QED BY <1>4, <3>1 DEF SameData, Quiet, Queued, Bounded
  <2>2. BookKept(waiting)
    BY <1>7 DEF Good
  <2> QED BY <1>4, <2>1, <2>2, AskSnapshotGood
<1>9. /\ w.book.version <= v.book.version /\ waiting.book = v.book
      /\ waiting.life = w.life /\ v.life = w.life
  BY <1>2, <1>4 DEF SameData
<1> QED BY <1>3, <1>6, <1>7, <1>8, <1>9 DEF Moves, Follows, w

LEMMA LoadedOK ==
  ASSUME NEW x \in Versions
  PROVE  LET book == LoadSnapshot(x)
         IN /\ book.version = x /\ InOrder(book) /\ x <= MaxVersion /\ x \in Nat /\ 0 < x
            /\ \A missed : Covered(book, missed)
<1>1. x \in Nat /\ x >= 1 /\ x <= MaxVersion
  BY DeltaType
<1>2. Span(1, x) \in Seq(Int) /\ Ascending(Span(1, x)) /\ Range(Span(1, x)) = 1..x
  <2>1. 1 \in Nat /\ 1 <= x + 1
    BY <1>1
  <2> QED BY <1>1, <2>1, SpanOK
<1> QED BY <1>1, <1>2 DEF LoadSnapshot, InOrder, Covered

LEMMA SnapshotGood ==
  ASSUME IInv, SyncInv, NEW g \in Gens, SnapshotLoaded(g)
  PROVE  Moves(g)
<1> DEFINE w == worker[g]
           v == Taken(g)
           reply == Head(w.inbox)
           failed == [v EXCEPT !.state = "UNINITIALIZED", !.cooling = TRUE, !.staging = <<>>,
                               !.waiters = {}]
           ready == Ready(v, LoadSnapshot(reply.version))
           loaded == [ready EXCEPT !.cooling = FALSE, !.waiters = {}]
<1>1. Takes(g, "snapshot")
  BY DEF SnapshotLoaded
<1>2. /\ Shaped(v) /\ BookKept(v) /\ w.life # "unborn"
      /\ v.life = w.life /\ v.book = w.book /\ v.missed = w.missed
      /\ w.book.version \in Nat /\ reply \in Carried(w) /\ reply \in Tasks /\ reply.msg = "snapshot"
      /\ Prompt /\ w.life = "run" =>
           /\ Synced(w, sent, produced) /\ Bounded(v, sent, produced) /\ Quiet(v)
           /\ \A x : Accounted(w, x, sent) => Accounted(v, x, sent)
  BY <1>1, TakenGood DEF Replies
<1>3. Becomes(g, loaded) \/ Becomes(g, failed)
  BY DEF SnapshotLoaded
<1>4. /\ Shaped(failed) /\ failed.life = v.life /\ failed.inbox = v.inbox
      /\ failed.asked = v.asked /\ failed.reply = v.reply /\ failed.state = "UNINITIALIZED"
      /\ failed.book = v.book /\ failed.staging = <<>> /\ failed.missed = v.missed
  BY <1>2 DEF Shaped, States
<1>5. reply.version \in Versions
  BY <1>2 DEF Tasks
<1>6. SameData(loaded, ready)
  BY DEF SameData, Ready
<1> HIDE DEF w, v, reply, failed, ready, loaded
<1>7. Good(failed, sent, produced)
  <2>1. Carried(failed) = Carried(v) /\ Queued(failed) = Queued(v) /\ Range(failed.staging) = {}
    BY <1>4 DEF Carried, Queued, Range
  <2>2. BookKept(failed)
    BY <1>2, <1>4, <2>1 DEF BookKept
  <2>3. Prompt /\ failed.life = "run" =>
          Quiet(failed) /\ Bounded(failed, sent, produced) /\ Whole(failed)
    BY <1>2, <1>4, <2>1 DEF Quiet, Bounded, Whole
  <2> QED BY <1>4, <2>2, <2>3, QuietGood
<1> DEFINE x == reply.version
           book == LoadSnapshot(x)
<1>8. /\ book.version = x /\ InOrder(book) /\ x <= MaxVersion /\ x \in Nat /\ 0 < x
      /\ \A missed : Covered(book, missed)
  BY <1>5, LoadedOK
<1>9. ASSUME Prompt, w.life = "run"
      PROVE  w.book.version <= x /\ x <= produced /\ Accounted(v, x, sent)
  <2>1. Shows(w, x)
    BY <1>2 DEF Shows
  <2> QED BY <1>2, <1>5, <1>9, <2>1 DEF Synced, Answerable
<1> HIDE DEF x, book
<1>10. /\ Good(ready, sent, produced) /\ ready.life = v.life
       /\ Prompt => x <= ready.book.version
  <2>1. /\ sent \in Nat /\ produced \in Nat /\ sent <= produced
    BY Streams
  <2>2. Prompt /\ v.life = "run" =>
           /\ Quiet(v) /\ Bounded(v, sent, produced) /\ 0 < book.version /\ book.version <= produced
           /\ cfg.strict => Covered(book, v.missed)
           /\ \E y \in Nat : y <= book.version /\ Accounted(v, y, sent)
    BY <1>2, <1>8, <1>9
  <2>3. ready = Ready(v, book)
    BY DEF ready, book, x
  <2>4. InOrder(book) /\ book.version <= MaxVersion /\ v.life # "unborn"
    BY <1>2, <1>8
  <2>5. Good(ready, sent, produced) /\ ready.life = v.life /\ (Prompt => book.version <= ready.book.version)
    BY <1>2, <2>1, <2>2, <2>3, <2>4, ReadyGood
  <2> QED BY <1>8, <2>5
<1>11. /\ Good(loaded, sent, produced)
       /\ Prompt /\ loaded.life = "run" => w.book.version <= loaded.book.version
  <2>1. Good(loaded, sent, produced)
    BY <1>6, <1>10, SameGood
  <2>2. ASSUME Prompt, loaded.life = "run" PROVE w.book.version <= loaded.book.version
    <3>1. loaded.book = ready.book /\ w.life = "run"
      BY <1>2, <1>6, <1>10, <2>2 DEF SameData
    <3>2. ready.book.version \in Nat
      BY <1>10 DEF Good, BookKept, InOrder
    <3>3. w.book.version <= x /\ x <= ready.book.version
      BY <1>9, <1>10, <2>2, <3>1
    <3> QED BY <1>2, <1>8, <3>1, <3>2, <3>3
  <2> QED BY <2>1, <2>2
<1>12. /\ w.book.version <= failed.book.version
       /\ failed.life = w.life /\ loaded.life = w.life
  BY <1>2, <1>4, <1>6, <1>10 DEF SameData
<1> QED BY <1>3, <1>7, <1>11, <1>12 DEF Moves, Follows, w

\* A delta is staged before or after a snapshot was asked for.
LEMMA StageGood ==
  ASSUME IInv, SyncInv, NEW g \in Gens, StageFirst(g) \/ StageUpdate(g)
  PROVE  Moves(g)
<1> DEFINE w == worker[g]
           v == Taken(g)
           d == Head(w.inbox).delta
           st == Stage(v, d)
<1>1. Takes(g, "update")
  BY DEF StageFirst, StageUpdate
<1>2. /\ Shaped(v) /\ BookKept(v) /\ w.life # "unborn" /\ BookKept(w)
      /\ v.life = w.life /\ v.state = w.state /\ v.book = w.book /\ v.inbox = Tail(w.inbox)
      /\ v.staging = w.staging /\ v.missed = w.missed /\ v.asked = w.asked
      /\ w.inbox \in Seq(Tasks) /\ w.inbox # <<>> /\ w.book.version \in Nat
      /\ Head(w.inbox) \in Tasks /\ Head(w.inbox).msg = "update"
      /\ Carried(v) \subseteq Carried(w)
      /\ Prompt /\ w.life = "run" =>
           /\ Synced(w, sent, produced) /\ Bounded(v, sent, produced)
           /\ w.state \notin Fetching => Quiet(v)
  BY <1>1, TakenGood DEF Replies
<1>3. d \in Deltas
  BY <1>2 DEF Tasks
<1> HIDE DEF v, d
<1>4. /\ st.staging \in Seq(Deltas) /\ Range(st.staging) = Range(v.staging) \cup {d}
      /\ st.life = v.life /\ st.state = v.state /\ st.inbox = v.inbox /\ st.reply = v.reply
      /\ st.asked = v.asked /\ st.book = v.book /\ st.missed = v.missed
      /\ \A u : Held(st, u) <=> Held(v, u) \/ u \in d.first..d.last
  BY <1>2, <1>3, StageData DEF BookKept
<1>5. Shaped(st)
  BY <1>2, StageAlike DEF Alike
<1> HIDE DEF st
<1>6. Carried(st) = Carried(v) /\ Queued(st) = Queued(v)
  BY <1>4 DEF Carried, Queued
<1>7. BookKept(st)
  BY <1>2, <1>4, <1>6 DEF BookKept
<1>8. Prompt /\ w.life = "run" => d.last <= sent
  <2>1. Head(w.inbox) = w.inbox[1] /\ 1 \in 1..Len(w.inbox)
    BY <1>2
  <2> QED BY <1>2, <2>1 DEF Synced, Bounded, d
<1>9. Prompt /\ w.life = "run" => Bounded(st, sent, produced)
  BY <1>2, <1>4, <1>8 DEF Bounded
<1>10. ASSUME NEW x, Accounted(w, x, sent) PROVE Accounted(st, x, sent)
  <2>1. \A u : Held(w, u) => Held(st, u)
    BY <1>2, <1>4 DEF Held
  <2>2. \A u \in d.first..d.last : Held(st, u)
    BY <1>4
  <2>3. \A e \in Range(st.staging) : e \in Range(w.staging) \/ e = d
    BY <1>2, <1>4
  <2> QED BY <1>2, <1>4, <1>10, <2>1, <2>2, <2>3, TakenAccounted DEF d
<1>11. CASE StageFirst(g)
  <2>1. /\ w.state = "UNINITIALIZED"
        /\ Becomes(g, IF st.cooling THEN st ELSE AskSnapshot(st))
    BY <1>11 DEF StageFirst, st, v, d
  <2>2. Prompt /\ st.life = "run" => Quiet(st) /\ Bounded(st, sent, produced) /\ Whole(st)
    BY <1>2, <1>4, <1>6, <1>9, <2>1 DEF Quiet, Whole, Fetching
  <2>3. Good(st, sent, produced)
    BY <1>5, <1>7, <2>2, QuietGood
  <2>4. LET a == AskSnapshot(st) IN Good(a, sent, produced) /\ a.book = st.book /\ a.life = st.life
    BY <1>5, <1>7, <2>2, AskSnapshotGood
  <2>5. w.book.version <= w.book.version /\ st.book = w.book /\ st.life = w.life
    BY <1>2, <1>4
  <2> HIDE DEF w
  <2> QED BY <2>1, <2>3, <2>4, <2>5 DEF Moves, Follows, w
<1>12. CASE StageUpdate(g)
  <2> DEFINE c == Cut(st)
  <2>1. w.state \in Fetching /\ Becomes(g, c)
    BY <1>12 DEF StageUpdate, st, v, d
  <2>2. /\ c.staging \in Seq(Deltas) /\ Range(c.staging) \subseteq Range(st.staging)
        /\ c.life = st.life /\ c.state = st.state /\ c.inbox = st.inbox /\ c.reply = st.reply
        /\ c.asked = st.asked /\ c.book = st.book /\ st.missed \subseteq c.missed
        /\ ReplyQueued(st) => \A u : Held(st, u) => Held(c, u)
    BY <1>4, <1>5, CutData
  <2> HIDE DEF c, w
  <2>3. Carried(c) = Carried(st)
    BY <2>2 DEF Carried
  <2>4. BookKept(c)
    BY <1>7, <2>2, <2>3 DEF BookKept
  <2>5. ASSUME Prompt, c.life = "run" PROVE Synced(c, sent, produced)
    <3>1. Synced(w, sent, produced) /\ Bounded(st, sent, produced)
      BY <1>2, <1>4, <1>9, <2>2, <2>5
    <3>2. Bounded(c, sent, produced)
      BY <2>2, <3>1 DEF Bounded
    <3>3. Bridging(c)
      BY <1>2, <1>4, <1>6, <2>2, <2>3, <3>1 DEF Bridging, Synced
    <3>4. Whole(c)
      <4>1. \A book : Covered(book, w.missed) => Covered(book, c.missed)
        BY <1>2, <1>4, <2>2 DEF Covered
      <4> QED BY <1>2, <1>4, <2>2, <3>1, <4>1 DEF Whole, Synced
    <3>5. ASSUME NEW x \in Versions, Shows(c, x)
          PROVE  c.book.version <= x /\ x <= produced /\ Accounted(c, x, sent)
      <4>1. Shows(w, x) /\ Shows(st, x)
        BY <1>2, <1>6, <2>3, <3>5 DEF Shows
      <4>2. w.book.version <= x /\ x <= produced /\ Accounted(w, x, sent)
        BY <3>1, <4>1 DEF Synced, Answerable
      <4>3. Accounted(st, x, sent) /\ \A u : Held(st, u) => Held(c, u)
        BY <1>10, <2>2, <4>1, <4>2, ShownQueued
      <4>4. \A u, i : Known(st, u, i) => Known(c, u, i)
        BY <2>2, <4>3 DEF Known
      <4>5. Accounted(c, x, sent)
        BY <2>2, <4>3, <4>4 DEF Accounted
      <4> QED BY <1>2, <1>4, <2>2, <4>2, <4>5
    <3> QED BY <3>2, <3>3, <3>4, <3>5 DEF Synced, Answerable
  <2>6. w.book.version <= c.book.version /\ c.life = w.life
    BY <1>2, <1>4, <2>2
  <2> QED BY <2>1, <2>4, <2>5, <2>6 DEF Moves, Follows, Good, w
<1> QED BY <1>11, <1>12

LEMMA ApplyGood ==
  ASSUME IInv, SyncInv, NEW g \in Gens, ApplyUpdate(g)
  PROVE  Moves(g)
<1> DEFINE w == worker[g]
           v == Taken(g)
           d == Head(w.inbox).delta
           st == Stage(v, d)
           b == w.book
           new == ApplyDelta(b, d)
           n == [v EXCEPT !.book = new]
<1>1. Takes(g, "update") /\ w.state = "READY"
  BY DEF ApplyUpdate
<1>2. /\ Shaped(v) /\ BookKept(v) /\ BookKept(w) /\ w.life # "unborn"
      /\ v.life = w.life /\ v.state = w.state /\ v.book = w.book /\ v.inbox = Tail(w.inbox)
      /\ v.staging = w.staging /\ v.missed = w.missed
      /\ w.inbox \in Seq(Tasks) /\ w.inbox # <<>> /\ w.book.version \in Nat
      /\ Head(w.inbox) \in Tasks /\ Head(w.inbox).msg = "update"
      /\ Prompt /\ w.life = "run" =>
           /\ Synced(w, sent, produced) /\ Bounded(v, sent, produced) /\ Quiet(v)
  BY <1>1, TakenGood DEF Replies, Fetching
<1>3. d \in Deltas
  BY <1>2 DEF Tasks
<1>4. \/ Becomes(g, v)
      \/ ~Stale(b, d) /\ ~Gap(b, d) /\ Becomes(g, n)
      \/ Becomes(g, AskRecovery(st))
  BY DEF ApplyUpdate
<1>5. Prompt /\ w.life = "run" => d.last <= sent
  <2>1. Head(w.inbox) = w.inbox[1] /\ 1 \in 1..Len(w.inbox)
    BY <1>2
  <2> QED BY <1>2, <2>1 DEF Synced, Bounded
<1>6. d.first \in Nat /\ d.last \in Nat /\ d.first >= 1 /\ d.first <= d.last /\ d.last <= MaxVersion
  BY <1>3, DeltaType
<1>7. Prompt /\ w.life = "run" => 0 < b.version /\ (cfg.strict => Covered(b, w.missed))
  BY <1>1, <1>2 DEF Synced, Whole
<1>8. InOrder(b)
  BY <1>2 DEF BookKept
<1>9. /\ n.life = v.life /\ n.state = v.state /\ n.inbox = v.inbox /\ n.reply = v.reply
      /\ n.asked = v.asked /\ n.book = new /\ n.staging = v.staging /\ n.missed = v.missed
      /\ Shaped(n)
  <2> HIDE DEF v, new
  <2> QED BY <1>2 DEF Shaped
<1> HIDE DEF v, d
<1>10. /\ st.staging \in Seq(Deltas) /\ Range(st.staging) = Range(v.staging) \cup {d}
       /\ st.life = v.life /\ st.state = v.state /\ st.inbox = v.inbox /\ st.reply = v.reply
       /\ st.asked = v.asked /\ st.book = v.book /\ st.missed = v.missed
  BY <1>2, <1>3, StageData DEF BookKept
<1>11. Shaped(st)
  BY <1>2, StageAlike DEF Alike
<1> HIDE DEF st, n, new
<1>12. Good(v, sent, produced)
  BY <1>1, <1>2, <1>7, QuietGood DEF Whole
<1>13. ASSUME ~Stale(b, d), ~Gap(b, d)
       PROVE  Good(n, sent, produced) /\ b.version <= n.book.version
  <2>1. b.version < d.last /\ (cfg.strict /\ 0 < b.version => d.first = b.version + 1)
    BY <1>2, <1>6, <1>13 DEF Stale, Gap
  <2>2. new.version = d.last /\ InOrder(new) /\ Range(new.applied) = Range(b.applied) \cup (d.first..d.last)
    BY <1>3, <1>8, <2>1, ApplyDeltaOK DEF new
  <2>3. Carried(n) = Carried(v) /\ Queued(n) = Queued(v)
    BY <1>9 DEF Carried, Queued
  <2>4. BookKept(n)
    BY <1>2, <1>6, <1>9, <2>2, <2>3 DEF BookKept
  <2>5. ASSUME Prompt, n.life = "run" PROVE Quiet(n) /\ Bounded(n, sent, produced) /\ Whole(n)
    <3>1. /\ Bounded(v, sent, produced) /\ Quiet(v) /\ d.last <= sent
          /\ 0 < b.version /\ (cfg.strict => Covered(b, w.missed))
      BY <1>2, <1>5, <1>7, <1>9, <2>5
    <3>2. Quiet(n)
      BY <1>9, <2>3, <3>1 DEF Quiet
    <3>3. new.version <= produced
      BY <1>6, <2>2, <3>1, Streams
    <3>4. Bounded(n, sent, produced)
      BY <1>9, <3>1, <3>3 DEF Bounded
    <3>5. cfg.strict => Covered(new, w.missed)
      <4>1. ASSUME cfg.strict, NEW u \in 1..new.version PROVE u \in Range(new.applied) \cup w.missed
        <5>1. u \in 1..b.version \/ u \in d.first..d.last
          BY <1>2, <1>6, <2>1, <2>2, <3>1, <4>1
        <5> QED BY <2>2, <3>1, <4>1, <5>1 DEF Covered
      <4> QED BY <4>1 DEF Covered
    <3>6. 0 < new.version
      BY <1>6, <2>2
    <3> QED BY <1>2, <1>9, <3>2, <3>4, <3>5, <3>6 DEF Whole
  <2>6. b.version <= n.book.version
    BY <1>2, <1>6, <1>9, <2>1, <2>2
  <2> QED BY <1>9, <2>4, <2>5, <2>6, QuietGood
<1>14. LET a == AskRecovery(st) IN Good(a, sent, produced) /\ a.book = st.book /\ a.life = st.life
  <2>1. Carried(st) = Carried(v) /\ Queued(st) = Queued(v)
    BY <1>10 DEF Carried, Queued
  <2>2. BookKept(st)
    BY <1>2, <1>10, <2>1 DEF BookKept
  <2>3. Prompt /\ st.life = "run" =>
          /\ Quiet(st) /\ Bounded(st, sent, produced) /\ 0 < st.book.version
          /\ cfg.strict => Covered(st.book, st.missed)
    BY <1>2, <1>5, <1>7, <1>10, <2>1 DEF Quiet, Bounded
  <2> QED BY <1>11, <2>2, <2>3, AskRecoveryGood
<1>15. /\ w.book.version <= w.book.version /\ st.book = w.book /\ v.book = w.book
       /\ v.life = w.life /\ st.life = w.life /\ n.life = w.life
  BY <1>2, <1>9, <1>10
<1> HIDE DEF b
<1>16. w.book = b
  BY DEF b
<1> HIDE DEF w
<1> QED BY <1>4, <1>12, <1>13, <1>14, <1>15, <1>16 DEF Moves, Follows, w

\* What the exchange answers ends with the version it shows.
LEMMA CommitsList ==
  ASSUME NEW x \in Versions
  PROVE  LET list == Commits(x)
         IN /\ list \in Seq(Deltas) /\ Len(list) \in Nat \ {0} /\ list # <<>>
            /\ list[Len(list)].last = x
            /\ \A i \in 1..Len(list) : list[i].last <= x
            /\ cfg.commits = "each" => Chained(list) /\ list[1].first = list[1].last
<1> DEFINE list == Commits(x)
           first == IF x > CommitSize THEN x - CommitSize + 1 ELSE 1
           n == x - first + 1
           each == [i \in 1..n |-> [first |-> first + i - 1, last |-> first + i - 1]]
           merged == <<[first |-> first, last |-> x]>>
<1>1. x \in Nat /\ x >= 1 /\ CommitSize \in Nat \ {0}
  BY DeltaType, BoundsAssumption
<1>2. first \in 1..x /\ n \in Nat \ {0} /\ first + n - 1 = x
  BY <1>1
<1>3. list = IF cfg.commits = "merged" THEN merged ELSE each
  BY DEF Commits
<1>4. list \in Seq(Deltas)
  BY CommitsType
<1> HIDE DEF list, first, n
<1>5. CASE cfg.commits = "merged"
  <2>1. Len(list) = 1 /\ list[1].last = x
    BY <1>3, <1>5
  <2>2. list # <<>>
    BY <2>1
  <2> QED BY <1>1, <1>4, <1>5, <2>1, <2>2 DEF list
<1>6. CASE cfg.commits # "merged"
  <2>1. Len(list) = n /\ DOMAIN list = 1..n
    BY <1>2, <1>3, <1>4, <1>6
  <2>2. \A i \in 1..n : list[i].last = first + i - 1 /\ list[i].first = first + i - 1
    BY <1>3, <1>6
  <2>3. n \in 1..n /\ 1 \in 1..n /\ list # <<>>
    BY <1>2, <2>1
  <2>4. \A i \in 1..n : list[i].last <= x
    BY <1>1, <1>2, <2>2
  <2>5. Chained(list)
    <3>1. ASSUME NEW i \in 1..n, i > 1 PROVE list[i].last = list[i - 1].last + 1
      <4>1. i - 1 \in 1..n
        BY <1>2, <3>1
      <4> QED BY <1>2, <2>2, <3>1, <4>1
    <3> QED BY <2>1, <3>1 DEF Chained
  <2> QED BY <1>2, <1>4, <2>1, <2>2, <2>3, <2>4, <2>5 DEF list
<1> QED BY <1>5, <1>6

LEMMA CommitsGood ==
  ASSUME IInv, SyncInv, NEW g \in Gens, CommitsLoaded(g)
  PROVE  Moves(g)
<1> DEFINE w == worker[g]
           v == Taken(g)
           t == Head(w.inbox)
           list == t.list
           bridge == ApplyCommits(v.book, list)
           kept == [v EXCEPT !.book = bridge.book]
           ready == Ready(v, bridge.book)
<1>1. Takes(g, "commits")
  BY DEF CommitsLoaded
<1>2. /\ Shaped(v) /\ BookKept(v) /\ BookKept(w) /\ w.life # "unborn"
      /\ v.life = w.life /\ v.book = w.book /\ v.missed = w.missed
      /\ w.book.version \in Nat /\ t \in Carried(w) /\ t \in Tasks /\ t.msg = "commits"
      /\ Prompt /\ w.life = "run" =>
           /\ Synced(w, sent, produced) /\ Bounded(v, sent, produced) /\ Quiet(v)
           /\ \A x : Accounted(w, x, sent) => Accounted(v, x, sent)
  BY <1>1, TakenGood DEF Replies
<1>3. \/ list # <<>> /\ bridge.ok /\ Becomes(g, ready)
      \/ Becomes(g, AskSnapshot(kept))
  BY DEF CommitsLoaded
<1>4. list = <<>> \/ \E x \in Versions : list = Commits(x)
  BY <1>2 DEF BookKept
<1> HIDE DEF v, t, bridge, kept, ready, list
<1>5. list \in Seq(Deltas)
  <2>1. <<>> \in Seq(Deltas)
    OBVIOUS
  <2> QED BY <1>4, <2>1, CommitsList
<1>6. InOrder(v.book) /\ v.book.version <= MaxVersion /\ MaxVersion \in Nat
  BY <1>2, DeltaType DEF BookKept
<1>7. AllBridged(bridge, v.book, list, Len(list))
  BY <1>5, <1>6, ApplyCommitsOK DEF bridge
<1>8. /\ InOrder(bridge.book) /\ bridge.book.version \in Nat /\ w.book.version <= bridge.book.version
      /\ bridge.book.version = w.book.version \/ \E i \in 1..Len(list) : bridge.book.version = list[i].last
      /\ Range(w.book.applied) \subseteq Range(bridge.book.applied)
      /\ cfg.strict /\ 0 < w.book.version =>
           w.book.version + 1..bridge.book.version \subseteq Range(bridge.book.applied)
      /\ bridge.ok => \A i \in 1..Len(list) : list[i].last <= bridge.book.version
  BY <1>2, <1>7 DEF AllBridged, Acc, InOrder
<1>9. bridge.book.version <= MaxVersion
  <2>1. \A i \in 1..Len(list) : list[i] \in Deltas
    BY <1>5
  <2>2. \A i \in 1..Len(list) : list[i].last <= MaxVersion
    BY <2>1, DeltaType
  <2> QED BY <1>2, <1>6, <1>8, <2>2
<1>10. ASSUME Prompt, w.life = "run"
       PROVE  bridge.book.version <= produced
  <2>1. w.book.version <= produced /\ produced \in Nat
    BY <1>2, <1>10, Streams DEF Synced, Bounded
  <2>2. ASSUME NEW i \in 1..Len(list), bridge.book.version = list[i].last
        PROVE  bridge.book.version <= produced
    <3>1. list # <<>>
      BY <2>2
    <3>2. PICK x \in Versions : list = Commits(x)
      BY <1>4, <3>1
    <3>3. x <= produced
      BY <1>2, <1>10, <3>2 DEF Shows, Synced, Answerable, list
    <3>4. list[i].last <= x /\ x \in Nat
      BY <2>2, <3>2, CommitsList, DeltaType
    <3> QED BY <1>8, <2>1, <2>2, <3>3, <3>4
  <2> QED BY <1>8, <2>1, <2>2
<1>11. ASSUME list # <<>>, bridge.ok
       PROVE  Good(ready, sent, produced) /\ ready.life = v.life
              /\ (Prompt => bridge.book.version <= ready.book.version)
  <2>1. PICK x \in Versions : list = Commits(x)
    BY <1>4, <1>11
  <2>2. x \in Nat /\ x <= bridge.book.version
    <3>1. Len(list) \in 1..Len(list) /\ list[Len(list)].last = x
      BY <2>1, CommitsList
    <3> QED BY <1>8, <1>11, <3>1, DeltaType
  <2>3. ASSUME Prompt, v.life = "run"
        PROVE  /\ Quiet(v) /\ Bounded(v, sent, produced) /\ 0 < bridge.book.version
               /\ bridge.book.version <= produced
               /\ cfg.strict => Covered(bridge.book, v.missed)
               /\ \E y \in Nat : y <= bridge.book.version /\ Accounted(v, y, sent)
    <3>1. Synced(w, sent, produced) /\ Quiet(v) /\ Bounded(v, sent, produced)
      BY <1>2, <2>3
    <3>2. w.state = "RECOVERING"
      BY <1>2, <3>1 DEF Synced, Bridging
    <3>3. 0 < w.book.version /\ (cfg.strict => Covered(w.book, w.missed))
      BY <3>1, <3>2 DEF Synced, Whole
    <3>4. Accounted(v, x, sent)
      <4>1. Shows(w, x)
        BY <1>2, <2>1 DEF Shows, list
      <4> QED BY <1>2, <2>3, <3>1, <4>1 DEF Synced, Answerable
    <3>5. ASSUME cfg.strict, NEW u \in 1..bridge.book.version
          PROVE  u \in Range(bridge.book.applied) \cup v.missed
      <4>1. u \in 1..w.book.version \/ u \in w.book.version + 1..bridge.book.version
        BY <1>2, <1>8, <3>5
      <4> QED BY <1>2, <1>8, <3>3, <3>5, <4>1 DEF Covered
    <3>6. 0 < bridge.book.version
      BY <1>2, <1>8, <3>3
    <3> QED BY <1>2, <1>10, <2>2, <2>3, <3>1, <3>4, <3>5, <3>6 DEF Covered
  <2>4. sent \in Nat /\ produced \in Nat /\ sent <= produced
    BY Streams
  <2>5. v.life # "unborn"
    BY <1>2
  <2> QED BY <1>2, <1>8, <1>9, <2>3, <2>4, <2>5, ReadyGood DEF ready
<1>12. LET a == AskSnapshot(kept)
       IN Good(a, sent, produced) /\ a.book = kept.book /\ a.life = kept.life
  <2>1. /\ kept.life = v.life /\ kept.inbox = v.inbox /\ kept.reply = v.reply
        /\ kept.asked = v.asked /\ kept.book = bridge.book /\ kept.staging = v.staging
        /\ Shaped(kept)
    BY <1>2 DEF Shaped, kept
  <2>2. Carried(kept) = Carried(v) /\ Queued(kept) = Queued(v)
    BY <2>1 DEF Carried, Queued
  <2>3. BookKept(kept)
    BY <1>2, <1>8, <1>9, <2>1, <2>2 DEF BookKept
  <2>4. Prompt /\ kept.life = "run" => Quiet(kept) /\ Bounded(kept, sent, produced)
    BY <1>2, <1>10, <2>1, <2>2 DEF Quiet, Bounded
  <2> QED BY <2>1, <2>3, <2>4, AskSnapshotGood
<1>13. kept.book = bridge.book /\ kept.life = w.life /\ v.life = w.life
  BY <1>2 DEF Shaped, kept
<1>14. ASSUME Prompt, list # <<>>, bridge.ok PROVE w.book.version <= ready.book.version
  <2>1. ready.book.version \in Nat
    BY <1>11, <1>14 DEF Good, BookKept, InOrder
  <2> QED BY <1>2, <1>8, <1>11, <1>14, <2>1
<1> HIDE DEF w
<1> QED BY <1>3, <1>8, <1>11, <1>12, <1>13, <1>14 DEF Moves, Follows, w

LEMMA HandleGood ==
  ASSUME IInv, SyncInv, NEW g \in Gens, Handle(g)
  PROVE  Moves(g)
  BY StageGood, ApplyGood, SnapshotGood, CommitsGood, CallerGood DEF Handle

-----------------------------------------------------------------------------
(* The life of a worker, its fetches and the book                          *)

LEMMA LifeGood ==
  ASSUME IInv, SyncInv, NEW g \in Gens, WorkerStops(g) \/ Cool(g)
  PROVE  Moves(g)
<1> DEFINE w == worker[g]
           stopped == [w EXCEPT !.life = "done", !.book = EmptyBook]
           cooled == [w EXCEPT !.cooling = FALSE]
<1>1. Good(w, sent, produced) /\ Shaped(w)
  BY DEF SyncInv, IInv, WorkerOK
<1>2. SameData(cooled, w)
  BY <1>1 DEF Shaped, SameData
<1>3. /\ stopped.life = "done" /\ stopped.book = EmptyBook /\ stopped.staging = w.staging
      /\ stopped.inbox = w.inbox /\ stopped.reply = w.reply
  BY <1>1 DEF Shaped
<1>4. (w.life = "stopping" /\ Becomes(g, stopped)) \/ Becomes(g, cooled)
  BY DEF WorkerStops, Cool
<1> HIDE DEF w, stopped, cooled
<1>5. Good(cooled, sent, produced)
  BY <1>1, <1>2, SameGood
<1>6. InOrder(EmptyBook) /\ EmptyBook.version <= MaxVersion
  BY EmptyOK
<1>7. Good(stopped, sent, produced)
  <2>1. Carried(stopped) = Carried(w)
    BY <1>3 DEF Carried
  <2> QED BY <1>1, <1>3, <1>6, <2>1 DEF Good, BookKept
<1>8. cooled.book = w.book /\ cooled.life = w.life /\ w.book.version <= w.book.version
  BY <1>1, <1>2 DEF SameData, Good, BookKept, InOrder
<1> QED BY <1>3, <1>4, <1>5, <1>7, <1>8 DEF Moves, Follows, w

\* An answer is the newest version: everything the stream has put out is before it.
LEMMA AnswerGood ==
  ASSUME IInv, SyncInv, NEW g \in Gens, AnswerSnapshot(g) \/ AnswerCommits(g)
  PROVE  Moves(g)
<1> DEFINE w == worker[g]
           Reply(t) == [w EXCEPT !.asked = "none", !.reply = <<t>>]
<1>1. Good(w, sent, produced) /\ WorkerOK(w, cfg.mode) /\ Shaped(w)
  BY DEF SyncInv, IInv, WorkerOK
<1>2. w.asked # "none"
  BY DEF AnswerSnapshot, AnswerCommits
<1>3. /\ sent \in Nat /\ produced \in Nat /\ sent <= produced /\ produced \in Versions
  BY Streams DEF IInv
<1>4. \E t \in Tasks :
         /\ Becomes(g, Reply(t))
         /\ \/ t.msg = "snapshot" /\ t.version \in Shown
            \/ /\ t.msg = "commits" /\ w.asked = "commits"
               /\ t.list = <<>> \/ \E x \in Shown : t.list = Commits(x)
  <2>1. CASE AnswerSnapshot(g)
    <3>1. PICK ok \in BOOLEAN, x \in Shown :
             Becomes(g, Reply([msg |-> "snapshot", ok |-> ok, version |-> x]))
      BY <2>1 DEF AnswerSnapshot
    <3> DEFINE t == [msg |-> "snapshot", ok |-> ok, version |-> x]
    <3>2. t \in Tasks /\ t.msg = "snapshot" /\ t.version = x
      BY ShownType DEF Tasks
    <3> HIDE DEF t
    <3>3. Becomes(g, Reply(t))
      BY <3>1 DEF t
    <3> QED BY <3>2, <3>3
  <2>2. CASE AnswerCommits(g)
    <3>1. PICK list \in {Commits(v) : v \in Shown} \cup (IF "rest" \in Faults THEN {<<>>} ELSE {}) :
             Becomes(g, Reply([msg |-> "commits", list |-> list]))
      BY <2>2 DEF AnswerCommits
    <3>2. list = <<>> \/ \E x \in Shown : list = Commits(x)
      BY <3>1
    <3>3. list \in Seq(Deltas)
      <4>1. \A x \in Shown : Commits(x) \in Seq(Deltas)
        BY ShownType, CommitsType
      <4>2. <<>> \in Seq(Deltas)
        OBVIOUS
      <4> QED BY <3>2, <4>1, <4>2
    <3> DEFINE t == [msg |-> "commits", list |-> list]
    <3>4. t \in Tasks /\ t.msg = "commits" /\ t.list = list
      BY <3>3 DEF Tasks
    <3> HIDE DEF t
    <3>5. Becomes(g, Reply(t)) /\ w.asked = "commits"
      BY <2>2, <3>1 DEF t, AnswerCommits
    <3> QED BY <3>2, <3>4, <3>5
  <2> QED BY <2>1, <2>2
<1>5. PICK t \in Tasks :
         /\ Becomes(g, Reply(t))
         /\ \/ t.msg = "snapshot" /\ t.version \in Shown
            \/ /\ t.msg = "commits" /\ w.asked = "commits"
               /\ t.list = <<>> \/ \E x \in Shown : t.list = Commits(x)
  BY <1>4
<1> DEFINE v == Reply(t)
<1>6. /\ v.life = w.life /\ v.state = w.state /\ v.inbox = w.inbox /\ v.reply = <<t>>
      /\ v.asked = "none" /\ v.book = w.book /\ v.staging = w.staging /\ v.missed = w.missed
  BY <1>1 DEF Shaped
<1>7. Becomes(g, v)
  BY <1>5
<1> HIDE DEF v, w
<1>8. Carried(v) \subseteq Carried(w) \cup {t}
  BY <1>6 DEF Carried, Range
<1>9. BookKept(v)
  <2>1. t.msg = "commits" => t.list = <<>> \/ \E x \in Versions : t.list = Commits(x)
    BY <1>5, ShownType
  <2> QED BY <1>1, <1>6, <1>8, <2>1 DEF Good, BookKept
<1>10. ASSUME Prompt, v.life = "run" PROVE Synced(v, sent, produced)
  <2>1. Synced(w, sent, produced) /\ Pending(w)
    BY <1>1, <1>2, <1>6, <1>10 DEF Good, WorkerOK, Prompt, Quiet
  <2>2. Shown = {produced}
    BY <1>10 DEF Shown, Prompt
  <2>3. \A r \in Carried(w) : r.msg \notin Replies
    <3>1. Range(w.reply) = {} /\ Queued(w) = {}
      BY <1>2, <2>1 DEF Pending, Range
    <3> QED BY <3>1 DEF Carried, Queued, Range
  <2>4. Bounded(v, sent, produced)
    BY <1>6, <2>1 DEF Synced, Bounded
  <2>5. Bridging(v)
    BY <1>5, <1>6, <1>8, <2>1, <2>3 DEF Synced, Bridging, Replies
  <2>6. Whole(v)
    BY <1>6, <2>1 DEF Synced, Whole
  <2>7. ASSUME NEW x \in Versions, Shows(v, x)
        PROVE  v.book.version <= x /\ x <= produced /\ Accounted(v, x, sent)
    <3>1. (t.msg = "snapshot" /\ t.version = x) \/ (t.msg = "commits" /\ t.list = Commits(x))
      BY <1>8, <2>3, <2>7 DEF Shows, Replies
    <3>2. x = produced
      <4>1. CASE t.msg = "snapshot" /\ t.version = x
        BY <1>5, <2>2, <4>1
      <4>2. CASE t.msg = "commits" /\ t.list = Commits(x)
        <5>1. t.list # <<>> /\ t.list[Len(t.list)].last = x
          BY <2>7, <4>2, CommitsList
        <5>2. t.list = Commits(produced)
          BY <1>5, <2>2, <4>2, <5>1
        <5>3. t.list[Len(t.list)].last = produced
          BY <1>3, <5>2, CommitsList
        <5> QED BY <5>1, <5>3
      <4> QED BY <3>1, <4>1, <4>2
    <3>3. v.book.version <= x
      BY <2>4, <3>2 DEF Bounded
    <3>4. Accounted(v, x, sent)
      <4>1. \A d \in Range(v.staging) : d.last \in Int /\ d.last <= x
        <5>1. \A d \in Range(v.staging) : d \in Deltas
          BY <1>9 DEF BookKept, Range
        <5> QED BY <1>3, <2>4, <3>2, <5>1, DeltaType DEF Bounded
      <4>2. \A i \in 1..Len(v.inbox) : v.inbox[i].msg = "update" =>
              v.inbox[i].delta.last \in Int /\ v.inbox[i].delta.last <= x
        <5>1. v.inbox \in Seq(Tasks)
          BY <1>1, <1>6 DEF Shaped
        <5>2. \A i \in 1..Len(v.inbox) : v.inbox[i].msg = "update" => v.inbox[i].delta \in Deltas
          BY <5>1, TaskDelta
        <5> QED BY <1>3, <2>4, <3>2, <5>2, DeltaType DEF Bounded
      <4>3. \A l \in Int : l <= x => x + 1..l = {}
        BY <1>3, <3>2
      <4> QED BY <1>3, <3>2, <4>1, <4>2, <4>3 DEF Accounted
    <3> QED BY <1>3, <3>2, <3>3, <3>4
  <2> QED BY <2>4, <2>5, <2>6, <2>7 DEF Synced, Answerable
<1>11. w.book.version <= v.book.version
  BY <1>1, <1>6 DEF Good, BookKept, InOrder
<1> QED BY <1>6, <1>7, <1>9, <1>10, <1>11 DEF Moves, Follows, Good, w

\* No book of a running worker goes back.
NoFallBack ==
  \A g \in Gens : Prompt /\ worker'[g].life = "run" => worker[g].book.version <= worker'[g].book.version
BookStep == SyncInv' /\ NoFallBack

\* The configuration does not change.
LEMMA GoodAgain ==
  ASSUME cfg' = cfg, NEW h \in Gens, Good(worker'[h], sent', produced')
  PROVE  Good(worker[h], sent, produced)'
<1>1. BookKept(worker'[h]) => BookKept(worker[h])'
  BY DEF BookKept, Commits
<1>2. Synced(worker'[h], sent', produced') => Synced(worker[h], sent, produced)'
  BY DEF Synced, Answerable, Shows, Commits, Whole
<1> QED BY <1>1, <1>2 DEF Good, Prompt

\* The worker g becomes one whose book follows; no other runs when the stream goes on.
LEMMA MovedStep ==
  ASSUME IInv, SyncInv, NEW g \in Gens, NEW v, Becomes(g, v), Follows(v, worker[g], sent', produced'),
         sent' \in 1..produced', produced' = produced, cfg' = cfg,
         v.life = "run" <=> current' = g,
         \A h \in Gens \ {g} : worker[h].life = "run" <=> current' = h,
         sent' = sent \/ \A h \in Gens \ {g} : worker[h].life # "run"
  PROVE  BookStep
<1>1. \A h \in Gens : worker'[h] = IF h = g THEN v ELSE worker[h]
  BY DEF IInv, Becomes
<1>2. ASSUME NEW h \in Gens PROVE Good(worker'[h], sent', produced')
  <2>1. CASE h = g
    BY <1>1, <2>1 DEF Follows
  <2>2. CASE h # g
    BY <1>1, <2>2 DEF SyncInv, Good
  <2> QED BY <2>1, <2>2
<1>3. \A h \in Gens : worker'[h].life = "run" <=> current' = h
  BY <1>1
<1>4. SyncInv'
  BY <1>2, <1>3, GoodAgain DEF SyncInv
<1>5. \A h \in Gens : worker[h].book.version \in Nat
  BY DEF SyncInv, Good, BookKept, InOrder
<1>6. NoFallBack
  BY <1>1, <1>5 DEF NoFallBack, Follows
<1> QED BY <1>4, <1>6 DEF BookStep

LEMMA MovesStep ==
  ASSUME IInv, SyncInv, NEW g \in Gens, Moves(g), UNCHANGED <<cfg, produced, sent, current>>
  PROVE  BookStep
<1>1. PICK v : /\ Becomes(g, v) /\ Follows(v, worker[g], sent, produced)
               /\ v.life = "run" <=> worker[g].life = "run"
  BY DEF Moves
<1> QED BY <1>1, MovedStep DEF SyncInv

\* Nothing but the calls and the manager changes, or the exchange's book grows.
LEMMA StillStep ==
  ASSUME IInv, SyncInv, UNCHANGED <<cfg, sent, current, worker>>,
         produced' = produced \/ (produced < MaxVersion /\ produced' = produced + 1)
  PROVE  BookStep
<1>1. /\ sent \in Nat /\ produced \in Nat /\ sent <= produced /\ sent >= 1
      /\ MaxVersion \in Nat
  BY Streams
<1>2. produced <= produced' /\ produced' \in Nat
  BY <1>1
<1>3. ASSUME NEW h \in Gens PROVE Good(worker'[h], sent', produced')
  <2> DEFINE w == worker[h]
  <2>1. Good(w, sent, produced)
    BY DEF SyncInv
  <2>2. w.book.version \in Nat /\ \A x \in Versions : x \in Nat
    BY <2>1, DeltaType DEF Good, BookKept, InOrder
  <2> HIDE DEF w
  <2>3. Synced(w, sent, produced) => Synced(w, sent, produced')
    BY <1>1, <1>2, <2>2 DEF Synced, Bounded, Answerable
  <2>4. worker'[h] = w /\ sent' = sent
    BY DEF w
  <2> QED BY <2>1, <2>3, <2>4 DEF Good
<1>4. sent' \in 1..produced'
  BY <1>1, <1>2
<1>5. SyncInv'
  BY <1>3, <1>4, GoodAgain DEF SyncInv
<1>6. \A h \in Gens : worker[h].book.version \in Nat
  BY DEF SyncInv, Good, BookKept, InOrder
<1> QED BY <1>5, <1>6 DEF BookStep, NoFallBack

-----------------------------------------------------------------------------
(* What is put into the inbox, or misses it                                *)

\* A task is queued; the stream has gone on from s to r.
LEMMA QueueGood ==
  ASSUME NEW w, NEW s \in Nat, NEW p \in Nat, NEW r \in Nat, s <= r, r <= p,
         Good(w, s, p), w.inbox \in Seq(Tasks), NEW t \in Tasks, NEW v,
         v.inbox = Append(w.inbox, t), Carried(v) \subseteq Carried(w) \cup {t},
         t.msg \in Replies => t \in Carried(w),
         v.life = w.life, v.state = w.state, v.asked = w.asked, v.book = w.book,
         v.staging = w.staging, v.missed = w.missed,
         t.msg = "update" => t.delta.last <= r,
         \A u \in s + 1..r : t.msg = "update" /\ u \in t.delta.first..t.delta.last
  PROVE  Good(v, r, p)
<1>1. \A q \in Carried(v) : q.msg \in Replies => q \in Carried(w)
  OBVIOUS
<1>2. BookKept(v)
  BY <1>1 DEF Good, BookKept, Replies
<1>3. ASSUME Prompt, v.life = "run" PROVE Synced(v, r, p)
  <2>1. Synced(w, s, p)
    BY <1>3 DEF Good
  <2>2. Bounded(v, r, p)
    <3>1. v.book.version <= p
      BY <2>1 DEF Synced, Bounded
    <3>2. \A d \in Range(v.staging) : d.last <= r
      <4>1. \A d \in Range(w.staging) : d.last <= s /\ d \in Deltas
        BY <2>1 DEF Synced, Bounded, Good, BookKept, Range
      <4> QED BY <4>1, DeltaType
    <3>3. ASSUME NEW i \in 1..Len(v.inbox), v.inbox[i].msg = "update" PROVE v.inbox[i].delta.last <= r
      <4>1. /\ Len(w.inbox) \in Nat /\ Len(v.inbox) = Len(w.inbox) + 1 /\ v.inbox[Len(w.inbox) + 1] = t
            /\ \A j \in 1..Len(w.inbox) : v.inbox[j] = w.inbox[j]
        OBVIOUS
      <4>2. CASE i = Len(w.inbox) + 1
        BY <3>3, <4>1, <4>2
      <4>3. CASE i # Len(w.inbox) + 1
        <5>1. i \in 1..Len(w.inbox)
          BY <4>1, <4>3
        <5>2. w.inbox[i].delta \in Deltas /\ w.inbox[i].delta.last <= s
          BY <2>1, <3>3, <4>1, <5>1, TaskDelta DEF Synced, Bounded
        <5> QED BY <4>1, <5>1, <5>2, DeltaType
      <4> QED BY <4>2, <4>3
    <3> QED BY <3>1, <3>2, <3>3 DEF Bounded
  <2>3. Bridging(v)
    BY <1>1, <2>1 DEF Synced, Bridging, Replies
  <2>4. Whole(v)
    BY <2>1 DEF Synced, Whole
  <2>5. ASSUME NEW x \in Versions, Shows(v, x)
        PROVE  v.book.version <= x /\ x <= p /\ Accounted(v, x, r)
    <3>1. Shows(w, x)
      BY <1>1, <2>5 DEF Shows, Replies
    <3>2. w.book.version <= x /\ x <= p /\ Accounted(w, x, s)
      BY <2>1, <3>1 DEF Synced, Answerable
    <3>3. x \in Nat
      BY DeltaType
    <3>4. Accounted(v, x, r)
      BY <3>2, <3>3, PutAccounted
    <3> QED BY <3>2, <3>4
  <2> QED BY <2>2, <2>3, <2>4, <2>5 DEF Synced, Answerable
<1> QED BY <1>2, <1>3 DEF Good

\* Changes miss the inbox; the stream has gone on from s to r.
LEMMA MissGood ==
  ASSUME NEW w, Shaped(w), NEW s \in Nat, NEW p \in Nat, NEW r \in Nat, s <= r, r <= p,
         Good(w, s, p), NEW d, \A u \in s + 1..r : u \in d.first..d.last
  PROVE  LET v == Miss(w, d)
         IN Good(v, r, p) /\ v.book = w.book /\ v.life = w.life
<1> DEFINE v == Miss(w, d)
<1>1. /\ v.life = w.life /\ v.state = w.state /\ v.inbox = w.inbox /\ v.reply = w.reply
      /\ v.asked = w.asked /\ v.book = w.book /\ v.staging = w.staging
      /\ v.missed = IF ReplyQueued(w) THEN w.missed \cup UNION {e.first..e.last : e \in {d}}
                    ELSE w.missed
  BY MissData DEF Miss
<1> HIDE DEF v
<1>2. w.missed \subseteq v.missed /\ (ReplyQueued(w) => d.first..d.last \subseteq v.missed)
  BY <1>1
<1>3. Carried(v) = Carried(w)
  BY <1>1 DEF Carried
<1>4. BookKept(v)
  BY <1>1, <1>3 DEF Good, BookKept
<1>5. ASSUME Prompt, v.life = "run" PROVE Synced(v, r, p)
  <2>1. Synced(w, s, p)
    BY <1>1, <1>5 DEF Good
  <2>2. Bounded(v, r, p)
    <3>1. \A d1 \in Range(w.staging) : d1.last <= s /\ d1 \in Deltas
      BY <2>1 DEF Synced, Bounded, Good, BookKept, Range
    <3>2. \A d1 \in Range(w.staging) : d1.last <= r
      BY <3>1, DeltaType
    <3>3. ASSUME NEW i \in 1..Len(w.inbox), w.inbox[i].msg = "update" PROVE w.inbox[i].delta.last <= r
      <4>1. w.inbox[i].delta \in Deltas /\ w.inbox[i].delta.last <= s
        BY <2>1, <3>3, TaskDelta DEF Synced, Bounded, Shaped
      <4> QED BY <4>1, DeltaType
    <3> QED BY <1>1, <2>1, <3>2, <3>3 DEF Bounded, Synced
  <2>3. Bridging(v)
    BY <1>1, <1>3, <2>1 DEF Synced, Bridging
  <2>4. Whole(v)
    BY <1>1, <1>2, <2>1 DEF Synced, Whole, Covered
  <2>5. ASSUME NEW x \in Versions, Shows(v, x)
        PROVE  v.book.version <= x /\ x <= p /\ Accounted(v, x, r)
    <3>1. Shows(w, x)
      BY <1>3, <2>5 DEF Shows
    <3>2. w.book.version <= x /\ x <= p /\ Accounted(w, x, s)
      BY <2>1, <3>1 DEF Synced, Answerable
    <3>3. d.first..d.last \subseteq v.missed
      BY <1>2, <3>1, ShownQueued
    <3>4. \A u : Held(w, u) => Held(v, u)
      BY <1>1, <1>2 DEF Held
    <3>5. \A u, i : Known(w, u, i) => Known(v, u, i)
      BY <1>1, <3>4 DEF Known
    <3>6. ASSUME NEW u \in x + 1..r PROVE Known(v, u, Len(v.inbox))
      <4>1. x \in Nat
        BY DeltaType
      <4>2. CASE u \in x + 1..s
        BY <1>1, <3>2, <3>5, <4>2 DEF Accounted
      <4>3. CASE u \in s + 1..r
        BY <3>3, <4>3 DEF Known, Held
      <4> QED BY <4>1, <4>2, <4>3
    <3>7. Accounted(v, x, r)
      BY <1>1, <3>2, <3>4, <3>5, <3>6 DEF Accounted
    <3> QED BY <1>1, <3>2, <3>7
  <2> QED BY <2>2, <2>3, <2>4, <2>5 DEF Synced, Answerable
<1> QED BY <1>1, <1>4, <1>5 DEF Good, v

LEMMA SendReplyGood ==
  ASSUME IInv, SyncInv, NEW g \in Gens, SendReply(g)
  PROVE  Moves(g)
<1> DEFINE w == worker[g]
           put == [w EXCEPT !.inbox = @ \o w.reply, !.reply = <<>>]
           dropped == [w EXCEPT !.reply = <<>>]
<1>1. Good(w, sent, produced) /\ Shaped(w) /\ w.reply # <<>>
  BY DEF SyncInv, IInv, WorkerOK, SendReply
<1>2. Becomes(g, put) \/ (w.life # "run" /\ Becomes(g, dropped))
  BY DEF SendReply
<1>3. PICK t \in Answers : w.reply = <<t>>
  BY <1>1 DEF Shaped
<1>4. w.inbox \in Seq(Tasks) /\ t \in Tasks /\ t.msg \in Replies
  BY <1>1, <1>3 DEF Shaped, Answers
<1>5. /\ put.inbox = Append(w.inbox, t) /\ put.reply = <<>>
      /\ put.life = w.life /\ put.state = w.state /\ put.asked = w.asked /\ put.book = w.book
      /\ put.staging = w.staging /\ put.missed = w.missed
  <2>1. w.inbox \o w.reply = Append(w.inbox, t)
    BY <1>3, <1>4, AppendIsConcat
  <2> QED BY <1>1, <2>1 DEF Shaped
<1>6. /\ dropped.reply = <<>> /\ dropped.inbox = w.inbox /\ dropped.life = w.life
      /\ dropped.book = w.book /\ dropped.staging = w.staging
  BY <1>1 DEF Shaped
<1> HIDE DEF w, put, dropped
<1>7. t \in Carried(w)
  BY <1>3 DEF Carried, Range
<1>8. Good(put, sent, produced)
  <2>1. Carried(put) \subseteq Carried(w) \cup {t}
    <3>1. Range(put.inbox) \subseteq Range(w.inbox) \cup {t}
      BY <1>4, <1>5 DEF Range
    <3>2. Range(put.reply) = {}
      BY <1>5 DEF Range
    <3> QED BY <3>1, <3>2 DEF Carried
  <2>2. t.msg # "update"
    BY <1>4 DEF Replies
  <2>3. sent \in Nat /\ produced \in Nat /\ sent <= produced /\ sent <= sent
    BY Streams
  <2>4. \A u \in sent + 1..sent : FALSE
    BY <2>3
  <2> QED BY <1>1, <1>4, <1>5, <1>7, <2>1, <2>2, <2>3, <2>4, QueueGood
<1>9. w.life # "run" => Good(dropped, sent, produced)
  <2>1. Range(dropped.reply) = {}
    BY <1>6 DEF Range
  <2>2. Carried(dropped) \subseteq Carried(w)
    BY <1>6, <2>1 DEF Carried
  <2> QED BY <1>1, <1>6, <2>2 DEF Good, BookKept
<1>10. w.book.version <= w.book.version
  BY <1>1 DEF Good, BookKept, InOrder
<1> QED BY <1>2, <1>5, <1>6, <1>8, <1>9, <1>10 DEF Moves, Follows, w

LEMMA WorkerStep ==
  ASSUME IInv, SyncInv, NEW g \in Gens, Worker(g)
  PROVE  BookStep
<1>1. Moves(g)
  BY HandleGood, LifeGood, AnswerGood, SendReplyGood DEF Worker
<1>2. UNCHANGED <<cfg, produced, sent, current>>
  BY DEF Worker, Handle, WorkerStops, Cool, AnswerSnapshot, AnswerCommits, SendReply
<1> QED BY <1>1, <1>2, MovesStep

-----------------------------------------------------------------------------
(* The synchronizer and the book                                           *)

LEMMA NewGood ==
  ASSUME IInv, SyncInv
  PROVE  Good(NewWorker, sent, produced) /\ NewWorker.life = "run" /\ NewWorker.book.version = 0
<1> DEFINE w == NewWorker
<1>1. /\ w.life = "run" /\ w.state = "UNINITIALIZED" /\ w.inbox = <<>> /\ w.reply = <<>>
      /\ w.staging = <<>> /\ w.book = EmptyBook /\ w.asked = "none" /\ Shaped(w)
  BY NewWorkerOK DEF NewWorker, WorkerOK
<1> HIDE DEF w
<1>2. Carried(w) = {}
  BY <1>1, EmptyOK DEF Carried
<1>3. BookKept(w)
  BY <1>1, <1>2, EmptyOK DEF BookKept
<1>4. Quiet(w) /\ Whole(w)
  BY <1>1, EmptyOK DEF Quiet, Queued, Whole
<1>5. Bounded(w, sent, produced)
  BY <1>1, EmptyOK, Streams DEF Bounded
<1> QED BY <1>1, <1>3, <1>4, <1>5, EmptyOK, QuietGood DEF w

\* The worker of the symbol, or a new one, runs, and no other.
LEMMA ObtainedGood ==
  ASSUME IInv, SyncInv, NEW g \in Obtained
  PROVE  /\ g \in Gens /\ Shaped(WorkerAt(g)) /\ WorkerAt(g).life = "run"
         /\ Good(WorkerAt(g), sent, produced)
         /\ worker[g].book.version <= WorkerAt(g).book.version
         /\ \A h \in Gens \ {g} : worker[h].life # "run"
<1>1. g \in Gens /\ WorkerOK(WorkerAt(g), cfg.mode)
  BY ObtainedOK
<1>2. Good(worker[g], sent, produced) /\ worker[g].book.version \in Nat
  BY <1>1 DEF SyncInv, Good, BookKept, InOrder
<1>3. CASE current = g
  BY <1>1, <1>2, <1>3 DEF SyncInv, WorkerAt, WorkerOK
<1>4. CASE current # g
  <2>1. current = None /\ worker[g].life = "unborn"
    BY <1>4 DEF Obtained, Unborn
  <2>2. WorkerAt(g) = NewWorker
    BY <1>4 DEF WorkerAt
  <2>3. worker[g].book.version = 0
    BY <1>2, <2>1 DEF Good, BookKept, EmptyBook
  <2>4. \A h \in Gens : h # None
    BY BoundsAssumption DEF Gens, None
  <2> QED BY <1>1, <2>1, <2>2, <2>3, <2>4, NewGood DEF SyncInv, WorkerOK
<1> QED BY <1>3, <1>4

LEMMA ObtainedStep ==
  ASSUME IInv, SyncInv, NEW g \in Obtained, NEW v, Becomes(g, v), current' = g,
         UNCHANGED <<cfg, produced>>, sent' \in 1..produced,
         Good(v, sent', produced), v.life = "run",
         Prompt => v.book = WorkerAt(g).book
  PROVE  BookStep
<1>1. /\ g \in Gens /\ worker[g].book.version <= WorkerAt(g).book.version
      /\ \A h \in Gens \ {g} : worker[h].life # "run"
  BY ObtainedGood
<1>2. Follows(v, worker[g], sent', produced')
  BY <1>1 DEF Follows
<1> QED BY <1>1, <1>2, MovedStep

LEMMA ProcessGood ==
  ASSUME IInv, SyncInv, NEW d \in Deltas, ProcessUpdate(d), UNCHANGED <<cfg, produced>>,
         sent' \in 1..produced, sent <= sent', d.last <= sent',
         \A u \in sent + 1..sent' : u \in d.first..d.last
  PROVE  BookStep
<1>1. PICK g \in Obtained :
        /\ current' = g
        /\ \/ /\ cfg.mode = "SNAPSHOT"
              /\ Becomes(g, [WorkerAt(g) EXCEPT !.book = LoadSnapshot(d.last), !.state = "READY"])
           \/ Becomes(g, [WorkerAt(g) EXCEPT !.inbox = Append(@, [msg |-> "update", delta |-> d])])
           \/ Becomes(g, Miss(WorkerAt(g), d))
  BY DEF ProcessUpdate
<1> DEFINE w == WorkerAt(g)
           full == [w EXCEPT !.book = LoadSnapshot(d.last), !.state = "READY"]
           t == [msg |-> "update", delta |-> d]
           put == [w EXCEPT !.inbox = Append(@, t)]
<1>2. g \in Gens /\ Shaped(w) /\ w.life = "run" /\ Good(w, sent, produced)
  BY ObtainedGood
<1>3. /\ sent \in Nat /\ sent' \in Nat /\ produced \in Nat /\ sent' <= produced
  BY Streams
<1>4. t \in Tasks /\ t.msg = "update" /\ t.delta = d
  BY DEF Tasks
<1>5. \/ cfg.mode = "SNAPSHOT" /\ Becomes(g, full)
      \/ Becomes(g, put)
      \/ Becomes(g, Miss(w, d))
  BY <1>1
<1>6. /\ full.life = "run" /\ full.inbox = w.inbox /\ full.reply = w.reply
      /\ full.staging = w.staging /\ full.book = LoadSnapshot(d.last)
  BY <1>2 DEF Shaped
<1> HIDE DEF t
<1>7. /\ put.inbox = Append(w.inbox, t) /\ put.reply = w.reply
      /\ put.life = w.life /\ put.state = w.state /\ put.asked = w.asked /\ put.book = w.book
      /\ put.staging = w.staging /\ put.missed = w.missed /\ w.inbox \in Seq(Tasks)
  BY <1>2 DEF Shaped
<1> HIDE DEF w, full, put
<1>8. CASE cfg.mode = "SNAPSHOT" /\ Becomes(g, full)
  <2>1. InOrder(full.book) /\ full.book.version <= MaxVersion
    BY <1>6, DeltaType, LoadedOK
  <2>2. Carried(full) = Carried(w)
    BY <1>6 DEF Carried
  <2>3. ~Prompt
    BY <1>8 DEF Prompt
  <2>4. Good(full, sent', produced)
    BY <1>2, <1>6, <2>1, <2>2, <2>3 DEF Good, BookKept
  <2> QED BY <1>1, <1>6, <1>8, <2>3, <2>4, ObtainedStep
<1>9. CASE Becomes(g, put)
  <2>1. Carried(put) \subseteq Carried(w) \cup {t}
    <3>1. Range(put.inbox) \subseteq Range(w.inbox) \cup {t}
      BY <1>4, <1>7 DEF Range
    <3> QED BY <1>7, <3>1 DEF Carried
  <2>2. t.msg \notin Replies
    BY <1>4 DEF Replies
  <2>3. Good(put, sent', produced)
    BY <1>2, <1>3, <1>4, <1>7, <2>1, <2>2, QueueGood
  <2> QED BY <1>1, <1>2, <1>7, <1>9, <2>3, ObtainedStep DEF w
<1>10. CASE Becomes(g, Miss(w, d))
  <2>1. LET v == Miss(w, d) IN Good(v, sent', produced) /\ v.book = w.book /\ v.life = w.life
    BY <1>2, <1>3, MissGood
  <2> QED BY <1>1, <1>2, <1>10, <2>1, ObtainedStep DEF w
<1> QED BY <1>5, <1>8, <1>9, <1>10

LEMMA CallerStep ==
  ASSUME IInv, SyncInv, NEW c \in Callers, Caller(c)
  PROVE  BookStep
<1>1. UNCHANGED <<cfg, produced, sent>>
  BY DEF Caller, InitializeSymbol, Flush, SendTask, GiveUp
<1>2. CASE InitializeSymbol(c)
  <2>1. PICK g \in Obtained : current' = g /\ Becomes(g, WorkerAt(g))
    BY <1>2 DEF InitializeSymbol
  <2>2. Good(WorkerAt(g), sent', produced) /\ WorkerAt(g).life = "run"
    BY <1>1, ObtainedGood
  <2>3. sent' \in 1..produced
    BY <1>1 DEF SyncInv
  <2> QED BY <1>1, <2>1, <2>2, <2>3, ObtainedStep
<1>3. CASE Flush(c) \/ GiveUp(c)
  BY <1>1, <1>3, StillStep DEF Flush, GiveUp
<1>4. CASE SendTask(c)
  <2> DEFINE g == call[c].gen
             t == [msg |-> call[c].op, from |-> c]
             w == worker[g]
             put == [w EXCEPT !.inbox = Append(@, t)]
  <2>1. call[c].at # "idle" /\ current' = current /\ (Becomes(g, put) \/ UNCHANGED worker)
    BY <1>4 DEF SendTask
  <2>2. g \in Gens /\ t \in Tasks /\ t.msg \notin Replies /\ t.msg # "update"
    BY <2>1 DEF IInv, CallsOK, CallOK, Tasks, Replies
  <2>3. Good(w, sent, produced) /\ Shaped(w)
    BY <2>2 DEF SyncInv, IInv, WorkerOK
  <2> HIDE DEF t, g
  <2>4. /\ put.inbox = Append(w.inbox, t) /\ put.reply = w.reply
        /\ put.life = w.life /\ put.state = w.state /\ put.asked = w.asked /\ put.book = w.book
        /\ put.staging = w.staging /\ put.missed = w.missed /\ w.inbox \in Seq(Tasks)
    BY <2>3 DEF Shaped
  <2> HIDE DEF w, put
  <2>5. Carried(put) \subseteq Carried(w) \cup {t}
    <3>1. Range(put.inbox) \subseteq Range(w.inbox) \cup {t}
      BY <2>2, <2>4 DEF Range
    <3> QED BY <2>4, <3>1 DEF Carried
  <2>6. /\ sent \in Nat /\ produced \in Nat /\ sent <= produced /\ sent <= sent
        /\ \A u \in sent + 1..sent : FALSE
    BY Streams
  <2>7. Good(put, sent, produced)
    BY <2>2, <2>3, <2>4, <2>5, <2>6, QueueGood
  <2>8. CASE Becomes(g, put)
    <3>1. w.book.version <= put.book.version
      BY <2>3, <2>4 DEF Good, BookKept, InOrder
    <3>2. Moves(g)
      BY <2>4, <2>7, <2>8, <3>1 DEF Moves, Follows, w
    <3> QED BY <1>1, <2>1, <2>2, <3>2, MovesStep
  <2>9. CASE UNCHANGED worker
    BY <1>1, <2>1, <2>9, StillStep
  <2> QED BY <2>1, <2>8, <2>9
<1> QED BY <1>2, <1>3, <1>4 DEF Caller

-----------------------------------------------------------------------------
(* The subscribe manager, the exchange and the book                        *)

\* The stream goes on past a worker.
LEMMA PassedStep ==
  ASSUME IInv, SyncInv, NEW d,
         IF current = None THEN UNCHANGED worker ELSE Becomes(current, Miss(worker[current], d)),
         UNCHANGED <<cfg, produced, current>>, sent' \in 1..produced, sent <= sent',
         \A u \in sent + 1..sent' : u \in d.first..d.last
  PROVE  BookStep
<1>1. CASE current = None
  <2>1. \A h \in Gens : worker[h].life # "run"
    BY <1>1, BoundsAssumption DEF SyncInv, Gens, None
  <2>2. \A h \in Gens : Good(worker'[h], sent', produced')
    BY <1>1, <2>1 DEF SyncInv, Good
  <2>3. SyncInv'
    BY <1>1, <2>2, GoodAgain DEF SyncInv
  <2>4. NoFallBack
    BY <1>1, <2>1 DEF NoFallBack
  <2> QED BY <2>3, <2>4 DEF BookStep
<1>2. CASE current # None
  <2> DEFINE w == worker[current]
             v == Miss(w, d)
  <2>1. current \in Gens /\ w.life = "run" /\ Good(w, sent, produced) /\ Shaped(w)
    BY <1>2 DEF SyncInv, IInv, WorkerOK
  <2>2. /\ sent \in Nat /\ sent' \in Nat /\ produced \in Nat /\ sent' <= produced
    BY Streams
  <2>3. Good(v, sent', produced) /\ v.book = w.book /\ v.life = w.life
    BY <2>1, <2>2, MissGood
  <2>4. w.book.version \in Nat
    BY <2>1 DEF Good, BookKept, InOrder
  <2>5. Follows(v, w, sent', produced')
    BY <2>3, <2>4 DEF Follows
  <2>6. Becomes(current, v) /\ \A h \in Gens \ {current} : worker[h].life # "run"
    BY <1>2 DEF SyncInv
  <2> HIDE DEF v
  <2> QED BY <2>1, <2>3, <2>5, <2>6, MovedStep
<1> QED BY <1>1, <1>2

LEMMA StreamStep ==
  ASSUME IInv, SyncInv, Subscribe \/ RotateOut \/ Unsubscribe \/ Change \/ Push \/ Lose \/ Resend
  PROVE  BookStep
<1>1. /\ sent \in Nat /\ produced \in Nat /\ sent <= produced /\ sent >= 1
      /\ MaxVersion \in Nat
  BY Streams
<1>2. \A d \in NextDeltas :
        /\ d \in Deltas /\ d.last \in 1..produced /\ sent <= d.last
        /\ \A u \in sent + 1..d.last : u \in d.first..d.last
  BY <1>1, DeltaType DEF NextDeltas
<1>3. CASE Subscribe
  <2> DEFINE d == [first |-> sent + 1, last |-> produced]
  <2>1. /\ IF current = None THEN UNCHANGED worker ELSE Becomes(current, Miss(worker[current], d))
        /\ UNCHANGED <<cfg, produced, current>> /\ sent' = produced
    BY <1>3 DEF Subscribe
  <2>2. d.first = sent + 1 /\ d.last = produced
    OBVIOUS
  <2> HIDE DEF d
  <2>3. /\ sent' \in 1..produced /\ sent <= sent'
        /\ \A u \in sent + 1..sent' : u \in d.first..d.last
    BY <1>1, <2>1, <2>2
  <2> QED BY <2>1, <2>3, PassedStep
<1>4. CASE RotateOut
  <2>1. current' = None /\ UNCHANGED <<cfg, produced, sent>>
    BY <1>4 DEF RotateOut, RemoveSymbol
  <2>2. CASE current = None
    BY <1>4, <2>1, <2>2, StillStep DEF RotateOut, RemoveSymbol
  <2>3. CASE current # None
    <3> DEFINE w == worker[current]
               v == [w EXCEPT !.life = "stopping"]
    <3>1. current \in Gens /\ Good(w, sent, produced) /\ Shaped(w) /\ w.life = "run"
      BY <2>3 DEF SyncInv, IInv, WorkerOK
    <3>2. Becomes(current, v)
      BY <1>4, <2>3 DEF RotateOut, RemoveSymbol
    <3>3. /\ v.life = "stopping" /\ v.inbox = w.inbox /\ v.reply = w.reply
          /\ v.book = w.book /\ v.staging = w.staging
      BY <3>1 DEF Shaped
    <3> HIDE DEF v, w
    <3>4. Carried(v) = Carried(w)
      BY <3>3 DEF Carried
    <3>5. Good(v, sent, produced)
      BY <3>1, <3>3, <3>4 DEF Good, BookKept
    <3>6. \A h \in Gens : h # None /\ (h # current => worker[h].life # "run")
      BY BoundsAssumption DEF SyncInv, Gens, None
    <3>7. Follows(v, w, sent', produced')
      BY <2>1, <3>3, <3>5 DEF Follows
    <3>8. sent' \in 1..produced' /\ w = worker[current]
      BY <2>1 DEF SyncInv, w
    <3> QED BY <2>1, <3>1, <3>2, <3>3, <3>6, <3>7, <3>8, MovedStep
  <2> QED BY <2>2, <2>3
<1>5. CASE Unsubscribe
  BY <1>5, StillStep DEF Unsubscribe
<1>6. CASE Change
  BY <1>6, StillStep DEF Change
<1>7. CASE Push
  <2>1. PICK d \in NextDeltas : ProcessUpdate(d) /\ sent' = d.last
    BY <1>7 DEF Push
  <2>2. UNCHANGED <<cfg, produced>>
    BY <1>7 DEF Push
  <2>3. d.last <= sent'
    BY <1>1, <1>2, <2>1
  <2> QED BY <1>2, <2>1, <2>2, <2>3, ProcessGood
<1>8. CASE Lose
  <2>1. PICK d \in NextDeltas :
          /\ sent' = d.last
          /\ IF current = None THEN UNCHANGED worker ELSE Becomes(current, Miss(worker[current], d))
    BY <1>8 DEF Lose
  <2>2. UNCHANGED <<cfg, produced, current>>
    BY <1>8 DEF Lose
  <2> QED BY <1>2, <2>1, <2>2, PassedStep
<1>9. CASE Resend
  <2>1. PICK d \in Deltas : d.last = sent - 1 /\ ProcessUpdate(d)
    BY <1>9 DEF Resend
  <2>2. UNCHANGED <<cfg, produced, sent>>
    BY <1>9 DEF Resend
  <2>3. /\ sent' \in 1..produced /\ sent <= sent' /\ d.last <= sent'
        /\ \A u \in sent + 1..sent' : u \in d.first..d.last
    BY <1>1, <2>1, <2>2
  <2> QED BY <2>1, <2>2, <2>3, ProcessGood
<1> QED BY <1>3, <1>4, <1>5, <1>6, <1>7, <1>8, <1>9

-----------------------------------------------------------------------------
(* The theorems about the book                                             *)

LEMMA SyncInit == Init => SyncInv
<1> SUFFICES ASSUME Init PROVE SyncInv
  OBVIOUS
<1> DEFINE unborn == [NewWorker EXCEPT !.life = "unborn"]
<1>1. worker = [g \in Gens |-> unborn] /\ current = None /\ sent = 1 /\ produced = 1
  BY DEF Init
<1>2. unborn.life = "unborn"
  BY DEF NewWorker
<1>3. Good(unborn, sent, produced)
  <2>1. /\ unborn.inbox = <<>> /\ unborn.reply = <<>> /\ unborn.staging = <<>> /\ unborn.book = EmptyBook
    BY DEF NewWorker
  <2> HIDE DEF unborn
  <2>2. Carried(unborn) = {}
    BY <2>1, EmptyOK DEF Carried
  <2> QED BY <1>2, <2>1, <2>2, EmptyOK DEF Good, BookKept
<1> HIDE DEF unborn
<1>4. \A g \in Gens : g # None
  BY BoundsAssumption DEF Gens, None
<1> QED BY <1>1, <1>2, <1>3, <1>4 DEF SyncInv

LEMMA SyncNext == ASSUME IInv, SyncInv, [Next]_vars PROVE BookStep
<1>1. CASE UNCHANGED vars
  BY <1>1, StillStep DEF vars
<1> QED BY <1>1, WorkerStep, CallerStep, StreamStep DEF Next

\* Every worker keeps its book in order, and while no REST answer lags, every
\* change after the version of an answer on its way is staged, queued or counted
\* as missed (handleUpdate, replayStagedBuffer, handleSnapshotLoaded,
\* handleCommitsLoaded).
THEOREM BookInvariant == Spec => []SyncInv
<1>1. IInv /\ SyncInv /\ [Next]_vars => SyncInv'
  BY SyncNext DEF BookStep
<1> QED BY <1>1, SyncInit, Invariant, PTL DEF Spec

\* A book of a running worker never goes back to an older version, when every
\* REST answer shows the newest one: no stale delta, replay or late answer
\* undoes a newer book (applyDelta, handleSnapshotLoaded).
THEOREM NoFall ==
  ASSUME "lag" \notin Faults
  PROVE  Spec => VersionNeverFallsBack
<1> DEFINE Back == \A g \in Gens : cfg.mode = "INCREMENTAL" /\ worker'[g].life = "run" =>
                     worker'[g].book.version >= worker[g].book.version
<1>1. ASSUME IInv, SyncInv, [Next]_vars PROVE Back
  <2>1. SyncInv' /\ NoFallBack
    BY <1>1, SyncNext DEF BookStep
  <2>2. \A g \in Gens : worker[g].book.version \in Nat
    BY <1>1 DEF SyncInv, Good, BookKept, InOrder
  <2>3. \A g \in Gens : worker'[g].book.version \in Nat
    BY <2>1 DEF SyncInv, Good, BookKept, InOrder
  <2> QED BY <2>1, <2>2, <2>3 DEF NoFallBack, Prompt
<1>2. IInv /\ SyncInv /\ [Next]_vars => [Back]_vars
  BY <1>1
<1> HIDE DEF Back
<1>3. Spec => [][Back]_vars
  BY <1>2, Invariant, BookInvariant, PTL DEF Spec
<1> QED BY <1>3 DEF VersionNeverFallsBack, Back

LEMMA WholeBooks ==
  ASSUME "lag" \notin Faults, SyncInv
  PROVE  OnlyMissedAreMissing
<1> SUFFICES ASSUME cfg.mode = "INCREMENTAL", cfg.strict, NEW g \in Gens, Served(g)
    PROVE  LET book == worker[g].book
           IN /\ \A i, j \in DOMAIN book.applied : i < j => book.applied[i] < book.applied[j]
              /\ 1..book.version \subseteq Range(book.applied) \cup worker[g].missed
              /\ Range(book.applied) \subseteq 1..book.version
  BY DEF OnlyMissedAreMissing
<1>1. BookKept(worker[g]) /\ Whole(worker[g]) /\ worker[g].state = "READY"
  BY DEF SyncInv, Good, Synced, Prompt, Served
<1> QED BY <1>1 DEF BookKept, InOrder, Ascending, Whole, Covered

\* A ready book of a strict stream lacks only the changes that went missing while
\* an answer waited to be handled, when every REST answer shows the newest
\* version (handleUpdate, replayStagedBuffer, applyCommits).
THEOREM OnlyMissed ==
  ASSUME "lag" \notin Faults
  PROVE  Spec => []OnlyMissedAreMissing
  BY BookInvariant, WholeBooks, PTL

-----------------------------------------------------------------------------
(* From a gap to a new snapshot                                            *)

\* The worker g does not go from the commits to a snapshot.
Stays(g) == \E v : Becomes(g, v) /\ (worker[g].state = "RECOVERING" => v.state # "SYNCING")

LEMMA WorkerStays ==
  ASSUME IInv, NEW g \in Gens, Worker(g), ~CommitsLoaded(g)
  PROVE  Stays(g)
<1> DEFINE w == worker[g]
           v == Taken(g)
           d == Head(w.inbox).delta
<1>1. Shaped(w)
  BY DEF IInv, WorkerOK
<1>2. v.state = w.state /\ DOMAIN v = DOMAIN w
  BY <1>1 DEF Taken, Shaped
<1>3. ASSUME StageFirst(g) \/ ApplyUpdate(g) PROVE Stays(g)
  <2>1. w.state # "RECOVERING" /\ \E u : Becomes(g, u)
    BY <1>3 DEF StageFirst, ApplyUpdate
  <2> QED BY <2>1 DEF Stays
<1>4. ASSUME StageUpdate(g) PROVE Stays(g)
  <2>1. Becomes(g, Cut(Stage(v, d))) /\ Shaped(v)
    BY <1>4, TakenOK DEF StageUpdate
  <2>2. Alike(Stage(v, d), v)
    BY <2>1, StageAlike
  <2>3. Alike(Cut(Stage(v, d)), Stage(v, d))
    BY <2>2, StageAlike DEF Alike
  <2>4. Cut(Stage(v, d)).state = w.state
    BY <1>2, <2>2, <2>3 DEF Alike
  <2> HIDE DEF v, d
  <2> QED BY <2>1, <2>4 DEF Stays
<1>5. ASSUME SnapshotLoaded(g) PROVE Stays(g)
  <2> DEFINE ready == Ready(v, LoadSnapshot(Head(w.inbox).version))
             loaded == [ready EXCEPT !.cooling = FALSE, !.waiters = {}]
             failed == [v EXCEPT !.state = "UNINITIALIZED", !.cooling = TRUE, !.staging = <<>>,
                                 !.waiters = {}]
  <2>1. Becomes(g, loaded) \/ Becomes(g, failed)
    BY <1>5 DEF SnapshotLoaded
  <2>2. Shaped(v)
    BY <1>5, TakenOK DEF SnapshotLoaded
  <2>3. failed.state = "UNINITIALIZED" /\ ready.state = "READY" /\ loaded.state = ready.state
    BY <2>2 DEF Shaped, Ready
  <2> HIDE DEF loaded, failed, ready
  <2> QED BY <2>1, <2>3 DEF Stays
<1>6. ASSUME HandleInit(g) \/ HandleFlush(g) PROVE Stays(g)
  <2> DEFINE waiting == [v EXCEPT !.waiters = @ \cup {Head(w.inbox).from}]
  <2>1. \/ Becomes(g, v) \/ Becomes(g, waiting)
        \/ w.state = "UNINITIALIZED" /\ Becomes(g, AskSnapshot(waiting))
    BY <1>6 DEF HandleInit, HandleFlush
  <2>2. waiting.state = w.state
    BY <1>2
  <2> HIDE DEF v, waiting
  <2> QED BY <1>2, <2>1, <2>2 DEF Stays
<1>7. ASSUME WorkerStops(g) \/ Cool(g) PROVE Stays(g)
  <2> DEFINE stopped == [w EXCEPT !.life = "done", !.book = EmptyBook]
             cooled == [w EXCEPT !.cooling = FALSE]
  <2>1. Becomes(g, stopped) \/ Becomes(g, cooled)
    BY <1>7 DEF WorkerStops, Cool
  <2>2. stopped.state = w.state /\ cooled.state = w.state
    BY <1>1 DEF Shaped
  <2> HIDE DEF stopped, cooled
  <2> QED BY <2>1, <2>2 DEF Stays
<1>8. ASSUME AnswerSnapshot(g) \/ AnswerCommits(g) PROVE Stays(g)
  <2>1. \E t : Becomes(g, [w EXCEPT !.asked = "none", !.reply = <<t>>])
    BY <1>8 DEF AnswerSnapshot, AnswerCommits
  <2>2. \A t : [w EXCEPT !.asked = "none", !.reply = <<t>>].state = w.state
    BY <1>1 DEF Shaped
  <2> HIDE DEF w
  <2>3. PICK t : Becomes(g, [w EXCEPT !.asked = "none", !.reply = <<t>>])
    BY <2>1
  <2> QED BY <2>2, <2>3 DEF Stays, w
<1>9. ASSUME SendReply(g) PROVE Stays(g)
  <2> DEFINE put == [w EXCEPT !.inbox = @ \o w.reply, !.reply = <<>>]
             dropped == [w EXCEPT !.reply = <<>>]
  <2>1. Becomes(g, put) \/ Becomes(g, dropped)
    BY <1>9 DEF SendReply
  <2>2. put.state = w.state /\ dropped.state = w.state
    BY <1>1 DEF Shaped
  <2> HIDE DEF put, dropped
  <2> QED BY <2>1, <2>2 DEF Stays
<1> QED BY <1>3, <1>4, <1>5, <1>6, <1>7, <1>8, <1>9 DEF Worker, Handle

\* What a caller or the stream obtains does not come from the commits.
LEMMA ObtainedStays ==
  ASSUME IInv, NEW g \in Obtained, NEW v, Becomes(g, v),
         v.state \in {WorkerAt(g).state, "READY"}
  PROVE  Stays(g)
<1>1. g = current \/ WorkerAt(g).state = "UNINITIALIZED"
  BY DEF WorkerAt, NewWorker
<1>2. g = current => WorkerAt(g) = worker[g]
  BY DEF WorkerAt
<1> QED BY <1>1, <1>2 DEF Stays

LEMMA ProcessStays ==
  ASSUME IInv, NEW d, ProcessUpdate(d)
  PROVE  \E g \in Gens : Stays(g)
<1>1. PICK g \in Obtained :
        \/ Becomes(g, [WorkerAt(g) EXCEPT !.book = LoadSnapshot(d.last), !.state = "READY"])
        \/ Becomes(g, [WorkerAt(g) EXCEPT !.inbox = Append(@, [msg |-> "update", delta |-> d])])
        \/ Becomes(g, Miss(WorkerAt(g), d))
  BY DEF ProcessUpdate
<1> DEFINE w == WorkerAt(g)
           full == [w EXCEPT !.book = LoadSnapshot(d.last), !.state = "READY"]
           put == [w EXCEPT !.inbox = Append(@, [msg |-> "update", delta |-> d])]
<1>2. g \in Gens /\ Shaped(w)
  BY ObtainedOK DEF WorkerOK
<1>3. full.state = "READY" /\ put.state = w.state /\ Miss(w, d).state = w.state
  BY <1>2, MissAlike DEF Shaped, Miss, Alike
<1>4. Becomes(g, full) \/ Becomes(g, put) \/ Becomes(g, Miss(w, d))
  BY <1>1
<1> HIDE DEF full, put
<1> QED BY <1>2, <1>3, <1>4, ObtainedStays

LEMMA CallerStays ==
  ASSUME IInv, NEW c \in Callers, Caller(c)
  PROVE  UNCHANGED worker \/ \E g \in Gens : Stays(g)
<1>1. CASE InitializeSymbol(c)
  <2>1. PICK g \in Obtained : Becomes(g, WorkerAt(g))
    BY <1>1 DEF InitializeSymbol
  <2> QED BY <2>1, ObtainedOK, ObtainedStays
<1>2. CASE Flush(c) \/ GiveUp(c)
  BY <1>2 DEF Flush, GiveUp
<1>3. CASE SendTask(c)
  <2> DEFINE g == call[c].gen
             put == [worker[g] EXCEPT !.inbox = Append(@, [msg |-> call[c].op, from |-> c])]
  <2>1. Becomes(g, put) \/ UNCHANGED worker
    BY <1>3 DEF SendTask
  <2>2. g \in Gens
    BY <1>3 DEF SendTask, IInv, CallsOK, CallOK
  <2>3. put.state = worker[g].state
    BY <2>2 DEF IInv, WorkerOK, Shaped
  <2> HIDE DEF g, put
  <2> QED BY <2>1, <2>2, <2>3 DEF Stays
<1> QED BY <1>1, <1>2, <1>3 DEF Caller

LEMMA StreamStays ==
  ASSUME IInv, Subscribe \/ RotateOut \/ Unsubscribe \/ Change \/ Push \/ Lose \/ Resend
  PROVE  UNCHANGED worker \/ \E g \in Gens : Stays(g)
<1>1. current # None => current \in Gens /\ Shaped(worker[current])
  BY DEF IInv, WorkerOK
<1>2. ASSUME NEW d, current # None, Becomes(current, Miss(worker[current], d))
      PROVE  \E g \in Gens : Stays(g)
  <2>1. Miss(worker[current], d).state = worker[current].state
    BY <1>1, <1>2, MissAlike DEF Miss, Alike
  <2> QED BY <1>1, <1>2, <2>1 DEF Stays
<1>3. CASE Subscribe \/ Lose
  BY <1>2, <1>3 DEF Subscribe, Lose
<1>4. CASE RotateOut
  <2>1. CASE current = None
    BY <1>4, <2>1 DEF RotateOut, RemoveSymbol
  <2>2. CASE current # None
    <3> DEFINE v == [worker[current] EXCEPT !.life = "stopping"]
    <3>1. Becomes(current, v) /\ v.state = worker[current].state
      BY <1>1, <1>4, <2>2 DEF RotateOut, RemoveSymbol, Shaped
    <3> HIDE DEF v
    <3> QED BY <1>1, <2>2, <3>1 DEF Stays
  <2> QED BY <2>1, <2>2
<1>5. CASE Unsubscribe \/ Change
  BY <1>5 DEF Unsubscribe, Change
<1>6. CASE Push \/ Resend
  BY <1>6, ProcessStays DEF Push, Resend
<1> QED BY <1>3, <1>4, <1>5, <1>6

\* Commits that follow the book one by one bridge the gap.
LEMMA BridgeStep ==
  ASSUME IInv, SyncInv, NEW g \in Gens, CommitsLoaded(g), cfg.commits = "each",
         worker'[g].state = "SYNCING"
  PROVE  LET list == Head(worker[g].inbox).list
         IN list = <<>> \/ list[1].first > worker[g].book.version + 1
<1> DEFINE w == worker[g]
           v == Taken(g)
           list == Head(w.inbox).list
           bridge == ApplyCommits(v.book, list)
<1>1. /\ Shaped(v) /\ BookKept(w) /\ v.book = w.book /\ w.book.version \in Nat
      /\ Head(w.inbox) \in Carried(w) /\ Head(w.inbox).msg = "commits"
  BY TakenGood DEF CommitsLoaded
<1>2. list = <<>> \/ \E x \in Versions : list = Commits(x)
  BY <1>1 DEF BookKept
<1>3. list # <<>> /\ bridge.ok => Becomes(g, Ready(v, bridge.book))
  BY DEF CommitsLoaded
<1>4. Ready(v, bridge.book).state = "READY"
  BY <1>1 DEF Ready, Shaped
<1> HIDE DEF v, bridge, list
<1>5. ~(list # <<>> /\ bridge.ok)
  BY <1>3, <1>4 DEF Becomes, IInv
<1>6. ASSUME list # <<>> PROVE list[1].first > w.book.version + 1
  <2>1. PICK x \in Versions : list = Commits(x)
    BY <1>2, <1>6
  <2>2. /\ list \in Seq(Deltas) /\ Len(list) \in Nat \ {0}
        /\ Chained(list) /\ list[1].first = list[1].last
    BY <2>1, CommitsList
  <2>3. AllBridged(bridge, w.book, list, Len(list))
    BY <1>1, <2>2, ApplyCommitsOK DEF bridge, BookKept
  <2>4. ~(list[1].last <= w.book.version + 1)
    BY <1>5, <1>6, <2>2, <2>3 DEF AllBridged
  <2>5. list[1].last \in Nat
    BY <2>2, DeltaType
  <2> QED BY <1>1, <2>2, <2>4, <2>5
<1> QED BY <1>6 DEF list, w

\* A commits answer that reaches back to the gap repairs the book without a new
\* snapshot, for every length of the answer (handleCommitsLoaded, applyCommits).
THEOREM CommitsAlwaysBridge == Spec => CommitsBridge
<1> DEFINE Bridges == \A g \in Gens :
             cfg.commits = "each" /\ worker[g].life = "run"
             /\ worker[g].state = "RECOVERING" /\ worker'[g].state = "SYNCING" =>
                 LET list == Head(worker[g].inbox).list
                 IN list = <<>> \/ list[1].first > worker[g].book.version + 1
<1>1. ASSUME IInv, SyncInv, [Next]_vars PROVE Bridges
  <2> SUFFICES ASSUME NEW g \in Gens, cfg.commits = "each", worker[g].state = "RECOVERING",
                      worker'[g].state = "SYNCING"
               PROVE  LET list == Head(worker[g].inbox).list
                      IN list = <<>> \/ list[1].first > worker[g].book.version + 1
    OBVIOUS
  <2>1. \A h \in Gens : Stays(h) => worker'[g].state # "SYNCING"
    BY <1>1 DEF Stays, Becomes, IInv
  <2>2. ~UNCHANGED worker
    OBVIOUS
  <2>3. PICK h \in Gens : CommitsLoaded(h)
    BY <1>1, <2>1, <2>2, WorkerStays, CallerStays, StreamStays DEF Next, vars
  <2>4. h = g
    BY <1>1, <2>3 DEF CommitsLoaded, Becomes, IInv
  <2> QED BY <1>1, <2>3, <2>4, BridgeStep
<1>2. IInv /\ SyncInv /\ [Next]_vars => [Bridges]_vars
  BY <1>1
<1> HIDE DEF Bridges
<1>3. Spec => [][Bridges]_vars
  BY <1>2, Invariant, BookInvariant, PTL DEF Spec
<1> QED BY <1>3 DEF CommitsBridge, Bridges
=============================================================================
