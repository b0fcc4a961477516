---------------------------- MODULE OrderBookSync ----------------------------
(* The local order book of one symbol                                         *)
(* (internal/infrastructure/store/orderbook): the worker that owns the book,  *)
(* the inbox it reads, the REST fetches it starts, the callers of the         *)
(* synchronizer, the depth stream of the exchange, and the subscribe manager  *)
(* that rotates the symbol in and out.                                        *)
(*                                                                            *)
(* The exchange numbers the changes of its book 1, 2, ...  A delta carries    *)
(* the changes first..last.  The local book is the sequence of the changes it *)
(* has taken in: it equals the exchange's book at version v when that         *)
(* sequence is 1..v.                                                          *)
EXTENDS Integers, SequencesExt, FiniteSets

CONSTANTS
    Configs,    \* the SynchronizerConfigs: mode, strict sequence, kind of commits provider
    Callers,    \* goroutines that call InitializeSymbol or Flush
    MaxWorkers, \* bound on the workers created for the symbol
    MaxVersion, \* bound on the changes of the exchange's book
    Batch,      \* the most changes one delta carries
    InboxCap,   \* MaxBufferCapacity
    StageMax,   \* the staging buffer is cut when it grows longer ...
    StageKeep,  \* ... to its last StageKeep deltas
    CommitSize, \* CommitRecoverySize
    Faults      \* what may go wrong: "loss", "resend", "lag", "rest", "ctx"

ConfigType == [mode: {"SNAPSHOT", "INCREMENTAL"}, strict: BOOLEAN, commits: {"none", "each", "merged"}]
Gens == 1..MaxWorkers
None == 0
Versions == 1..MaxVersion

ASSUME ConfigsAssumption == Configs # {} /\ Configs \subseteq ConfigType
ASSUME BoundsAssumption ==
    /\ {MaxWorkers, MaxVersion, Batch, InboxCap, CommitSize} \subseteq Nat \ {0}
    /\ {StageMax, StageKeep} \subseteq Nat /\ StageKeep <= StageMax
ASSUME FaultsAssumption == Faults \subseteq {"loss", "resend", "lag", "rest", "ctx"}

VARIABLES
    cfg,      \* the configuration of this run, never changed
    produced, \* version of the exchange's book
    sent,     \* last change the depth stream has put out
    manager,  \* the subscribe manager: "out", "in", "leaving"
    current,  \* SynchronizerImpl.workers[symbol], or None
    worker,   \* the workers ever created
    call      \* the calls of InitializeSymbol and Flush
vars == <<cfg, produced, sent, manager, current, worker, call>>

Deltas == {d \in [first: Versions, last: Versions] : d.first <= d.last}
Tasks == [msg: {"update"}, delta: Deltas]
         \cup [msg: {"snapshot"}, ok: BOOLEAN, version: Versions]
         \cup [msg: {"commits"}, list: Seq(Deltas)]
         \cup [msg: {"init", "flush"}, from: Callers]
Replies == {"snapshot", "commits"}
Fetching == {"SYNCING", "RECOVERING"}
States == {"UNINITIALIZED", "READY"} \cup Fetching

Span(first, last) == [i \in 1..(last - first + 1) |-> first + i - 1]
EmptyBook == [version |-> 0, applied |-> <<>>]
NewWorker ==
    [life |-> "run", state |-> "UNINITIALIZED", book |-> EmptyBook, inbox |-> <<>>,
     staging |-> <<>>, waiters |-> {}, asked |-> "none", reply |-> <<>>,
     cooling |-> FALSE, missed |-> {}]

Init ==
    /\ cfg \in Configs
    /\ produced = 1 /\ sent = 1
    /\ manager = "out"
    /\ current = None
    /\ worker = [g \in Gens |-> [NewWorker EXCEPT !.life = "unborn"]]
    /\ call = [c \in Callers |-> [op |-> "none", gen |-> None, at |-> "idle"]]
------------------------------------------------------------------------------
(* The book.                                                                  *)

LoadSnapshot(version) == [version |-> version, applied |-> Span(1, version)]

\* What of the book the range of a delta leaves alone.
Uncovered(applied, d) ==
    LET kept[n \in 0..Len(applied)] ==
            IF n = 0 THEN <<>>
            ELSE IF applied[n] \in d.first..d.last THEN kept[n - 1]
            ELSE Append(kept[n - 1], applied[n])
    IN kept[Len(applied)]

\* A delta carries the volumes after its last change: it covers what the book
\* holds of its range, and overwrites nothing else.
ApplyDelta(book, d) ==
    [version |-> d.last, applied |-> Uncovered(book.applied, d) \o Span(d.first, d.last)]

\* (fault) Old deltas are applied again.
NeverStale(book, d) == FALSE

Stale(book, d) == book.version > 0 /\ d.last <= book.version
Gap(book, d) == cfg.strict /\ book.version > 0 /\ d.first # book.version + 1

\* (fault) The staged deltas are replayed in the order they came.
ReplayUnsorted(book, staging) ==
    FoldLeft(ApplyDelta, book, SelectSeq(staging, LAMBDA d : d.last > book.version))

\* Of two staged deltas with the same last change the wider covers the other.
Widest(deltas) == CHOOSE d \in deltas : \A e \in deltas : d.first <= e.first
ReplayVersion(book, staging, v) ==
    LET numbered == {d \in Range(staging) : d.last = v}
    IN IF numbered = {} THEN book ELSE ApplyDelta(book, Widest(numbered))

\* replayStagedBuffer: what is newer than the book, by version, whatever is missing between.
ReplayStaged(book, staging) ==
    LET replayed[v \in book.version..MaxVersion] ==
            IF v = book.version THEN book ELSE ReplayVersion(replayed[v - 1], staging, v)
    IN replayed[MaxVersion]

\* (fault) A commit the book already holds counts as a gap.
CommitUnskipped(acc, c) ==
    IF ~acc.ok \/ Gap(acc.book, [first |-> c.last, last |-> c.last]) THEN [acc EXCEPT !.ok = FALSE]
    ELSE [acc EXCEPT !.book = ApplyDelta(acc.book, c)]

\* A commit counts as one change, the one it is numbered by.
Commit(acc, c) ==
    LET one == [first |-> c.last, last |-> c.last]
    IN IF ~acc.ok \/ Stale(acc.book, one) THEN acc
       ELSE IF Gap(acc.book, one) THEN [acc EXCEPT !.ok = FALSE]
       ELSE [acc EXCEPT !.book = ApplyDelta(acc.book, c)]

\* applyCommits: one after the other, until one leaves a gap.
ApplyCommits(book, list) ==
    LET bridged[n \in 0..Len(list)] ==
            IF n = 0 THEN [book |-> book, ok |-> TRUE] ELSE Commit(bridged[n - 1], list[n])
    IN bridged[Len(list)]
------------------------------------------------------------------------------
(* The worker.  Each operator maps a worker record to the next one.           *)

ReplyQueued(w) == w.reply # <<>> \/ \E i \in DOMAIN w.inbox : w.inbox[i].msg \in Replies

\* History, since the last snapshot was asked for: changes the stream did not
\* bring after the exchange had answered the fetch under way, so that the answer
\* cannot contain them.  Commits do not fill these holes: they start behind the book.
MissAll(w, deltas) ==
    IF ReplyQueued(w) THEN [w EXCEPT !.missed = @ \cup UNION {d.first..d.last : d \in deltas}] ELSE w
Miss(w, d) == MissAll(w, {d})

AskSnapshot(w) == [w EXCEPT !.state = "SYNCING", !.asked = "snapshot", !.missed = {}]
AskCommits(w) == [w EXCEPT !.asked = "commits"]
AskRecovery(w) ==
    LET recovering == [w EXCEPT !.state = "RECOVERING"]
    IN IF cfg.commits = "none" THEN AskSnapshot(recovering) ELSE AskCommits(recovering)

Stage(w, d) == [w EXCEPT !.staging = Append(@, d)]
Dropped(w) == IF Len(w.staging) > StageMax THEN SubSeq(w.staging, 1, Len(w.staging) - StageKeep) ELSE <<>>
Cut(w) == [MissAll(w, Range(Dropped(w))) EXCEPT !.staging = SubSeq(@, Len(Dropped(w)) + 1, Len(@))]

Ready(w, book) ==
    [w EXCEPT !.book = IF cfg.mode = "INCREMENTAL" THEN ReplayStaged(book, w.staging) ELSE book,
              !.staging = <<>>, !.state = "READY"]

\* A worker reads its inbox until it sees stopCh closed; with both at hand, select takes either.
Takes(g, msg) ==
    /\ worker[g].life \in {"run", "stopping"}
    /\ worker[g].inbox # <<>> /\ Head(worker[g].inbox).msg = msg
Taken(g) == [worker[g] EXCEPT !.inbox = Tail(@)]
Becomes(g, w) == worker' = [worker EXCEPT ![g] = w]
Answered(callers, result) ==
    call' = [c \in Callers |-> IF c \in callers /\ call[c].at = "wait"
                               THEN [call[c] EXCEPT !.at = result] ELSE call[c]]

\* handleUpdate: before the first snapshot, and for two seconds after a failed one.
StageFirst(g) ==
    /\ Takes(g, "update") /\ worker[g].state = "UNINITIALIZED"
    /\ LET staged == Stage(Taken(g), Head(worker[g].inbox).delta)
       IN Becomes(g, IF staged.cooling THEN staged ELSE AskSnapshot(staged))
    /\ UNCHANGED call

StageUpdate(g) ==
    /\ Takes(g, "update") /\ worker[g].state \in Fetching
    /\ Becomes(g, Cut(Stage(Taken(g), Head(worker[g].inbox).delta)))
    /\ UNCHANGED call

ApplyUpdate(g) ==
    /\ Takes(g, "update") /\ worker[g].state = "READY"
    /\ LET d == Head(worker[g].inbox).delta
           book == worker[g].book
       IN \/ Stale(book, d) /\ Becomes(g, Taken(g))
          \/ ~Stale(book, d) /\ ~Gap(book, d) /\ Becomes(g, [Taken(g) EXCEPT !.book = ApplyDelta(book, d)])
          \/ ~Stale(book, d) /\ Gap(book, d) /\ Becomes(g, AskRecovery(Stage(Taken(g), d)))
    /\ UNCHANGED call

\* (fault) Nobody is told that the snapshot failed.
SnapshotLoadedUntold(g) ==
    /\ Takes(g, "snapshot")
    /\ LET reply == Head(worker[g].inbox)
           w == Taken(g)
       IN \/ /\ reply.ok
             /\ Becomes(g, [Ready(w, LoadSnapshot(reply.version)) EXCEPT !.cooling = FALSE, !.waiters = {}])
             /\ Answered(w.waiters, "ok")
          \/ /\ ~reply.ok
             /\ Becomes(g, [w EXCEPT !.state = "UNINITIALIZED", !.cooling = TRUE, !.staging = <<>>])
             /\ UNCHANGED call

SnapshotLoaded(g) ==
    /\ Takes(g, "snapshot")
    /\ LET reply == Head(worker[g].inbox)
           w == Taken(g)
       IN \/ /\ reply.ok
             /\ Becomes(g, [Ready(w, LoadSnapshot(reply.version)) EXCEPT !.cooling = FALSE, !.waiters = {}])
             /\ Answered(w.waiters, "ok")
          \/ /\ ~reply.ok
             /\ Becomes(g, [w EXCEPT !.state = "UNINITIALIZED", !.cooling = TRUE,
                                     !.staging = <<>>, !.waiters = {}])
             /\ Answered(w.waiters, "error")

\* handleCommitsLoaded: the waiters are told only by a later snapshot.
CommitsLoaded(g) ==
    /\ Takes(g, "commits")
    /\ LET w == Taken(g)
           list == Head(worker[g].inbox).list
           bridge == ApplyCommits(w.book, list)
       IN \/ list # <<>> /\ bridge.ok /\ Becomes(g, Ready(w, bridge.book))
          \/ ~(list # <<>> /\ bridge.ok) /\ Becomes(g, AskSnapshot([w EXCEPT !.book = bridge.book]))
    /\ UNCHANGED call

HandleInit(g) ==
    /\ Takes(g, "init")
    /\ LET c == Head(worker[g].inbox).from
           waiting == [Taken(g) EXCEPT !.waiters = @ \cup {c}]
       IN \/ /\ worker[g].state = "READY"
             /\ Becomes(g, Taken(g)) /\ Answered({c}, "ok")
          \/ /\ worker[g].state = "UNINITIALIZED"
             /\ Becomes(g, AskSnapshot(waiting)) /\ UNCHANGED call
          \/ /\ worker[g].state \in Fetching
             /\ Becomes(g, waiting) /\ UNCHANGED call

\* While a fetch is under way a goroutine puts the task back 2 ms later.
HandleFlush(g) ==
    /\ Takes(g, "flush")
    /\ Becomes(g, Taken(g))
    /\ Answered({Head(worker[g].inbox).from},
                IF worker[g].state \in Fetching THEN "send" ELSE "ok")

Handle(g) ==
    /\ \/ StageFirst(g) \/ StageUpdate(g) \/ ApplyUpdate(g)
       \/ SnapshotLoaded(g) \/ CommitsLoaded(g) \/ HandleInit(g) \/ HandleFlush(g)
    /\ UNCHANGED <<cfg, produced, sent, manager, current>>

\* run returns, and stop() clears the book.
WorkerStops(g) ==
    /\ worker[g].life = "stopping"
    /\ Becomes(g, [worker[g] EXCEPT !.life = "done", !.book = EmptyBook])
    /\ UNCHANGED <<cfg, produced, sent, manager, current, call>>

\* Two seconds have passed since the snapshot failed.
Cool(g) ==
    /\ worker[g].life = "run" /\ worker[g].cooling
    /\ Becomes(g, [worker[g] EXCEPT !.cooling = FALSE])
    /\ UNCHANGED <<cfg, produced, sent, manager, current, call>>
------------------------------------------------------------------------------
(* The REST fetches.                                                          *)

\* The version a REST answer shows: the newest, or an older one (a lagging server).
Shown == IF "lag" \in Faults THEN Versions \cap 1..produced ELSE {produced}

AnswerSnapshot(g) ==
    /\ worker[g].asked = "snapshot"
    /\ \E ok \in IF "rest" \in Faults THEN BOOLEAN ELSE {TRUE}, v \in Shown :
           Becomes(g, [worker[g] EXCEPT !.asked = "none",
                                        !.reply = <<[msg |-> "snapshot", ok |-> ok, version |-> v]>>])
    /\ UNCHANGED <<cfg, produced, sent, manager, current, call>>

\* The last CommitSize changes, one commit each, or, as MEXC's client answers,
\* in one commit that carries only its last version; empty when the call fails.
Commits(last) ==
    LET first == IF last > CommitSize THEN last - CommitSize + 1 ELSE 1
    IN IF cfg.commits = "merged" THEN <<[first |-> first, last |-> last]>>
       ELSE [i \in 1..(last - first + 1) |-> [first |-> first + i - 1, last |-> first + i - 1]]

AnswerCommits(g) ==
    /\ worker[g].asked = "commits"
    /\ \E list \in {Commits(v) : v \in Shown} \cup (IF "rest" \in Faults THEN {<<>>} ELSE {}) :
           Becomes(g, [worker[g] EXCEPT !.asked = "none", !.reply = <<[msg |-> "commits", list |-> list]>>])
    /\ UNCHANGED <<cfg, produced, sent, manager, current, call>>

\* (fault) The goroutine gives the answer up when the inbox is full.
SendReplyOrDrop(g) ==
    /\ worker[g].reply # <<>>
    /\ Becomes(g, [worker[g] EXCEPT !.reply = <<>>,
                                    !.inbox = IF Len(@) < InboxCap THEN @ \o worker[g].reply ELSE @])
    /\ UNCHANGED <<cfg, produced, sent, manager, current, call>>

\* The fetching goroutine waits for room in the inbox, or for the worker to be stopped.
SendReply(g) ==
    /\ worker[g].reply # <<>>
    /\ \/ /\ Len(worker[g].inbox) < InboxCap
          /\ Becomes(g, [worker[g] EXCEPT !.inbox = @ \o worker[g].reply, !.reply = <<>>])
       \/ /\ worker[g].life \in {"stopping", "done"}
          /\ Becomes(g, [worker[g] EXCEPT !.reply = <<>>])
    /\ UNCHANGED <<cfg, produced, sent, manager, current, call>>
------------------------------------------------------------------------------
(* The synchronizer.                                                          *)

\* getOrCreateWorker; MaxWorkers bounds how often it creates one.
Unborn == {g \in Gens : worker[g].life = "unborn"}
Obtained == IF current # None THEN {current} ELSE {g \in Unborn : \A h \in Unborn : g <= h}
WorkerAt(g) == IF g = current THEN worker[g] ELSE NewWorker

\* ProcessUpdate: in SNAPSHOT mode the stream carries whole books, which the
\* caller loads itself; a delta that finds the inbox full is lost.  Finding the
\* worker and sending to it are one step: a worker removed in between reads no more.
ProcessUpdate(d) ==
    \E g \in Obtained :
        LET w == WorkerAt(g)
        IN /\ current' = g
           /\ \/ /\ cfg.mode = "SNAPSHOT"
                 /\ Becomes(g, [w EXCEPT !.book = LoadSnapshot(d.last), !.state = "READY"])
              \/ /\ cfg.mode = "INCREMENTAL" /\ Len(w.inbox) < InboxCap
                 /\ Becomes(g, [w EXCEPT !.inbox = Append(@, [msg |-> "update", delta |-> d])])
              \/ /\ cfg.mode = "INCREMENTAL" /\ Len(w.inbox) >= InboxCap
                 /\ Becomes(g, Miss(w, d))

InitializeSymbol(c) ==
    /\ call[c].at = "idle"
    /\ \E g \in Obtained :
           /\ current' = g
           /\ Becomes(g, WorkerAt(g))
           /\ call' = [call EXCEPT ![c] = [op |-> "init", gen |-> g, at |-> "send"]]
    /\ UNCHANGED <<cfg, produced, sent, manager>>

Flush(c) ==
    /\ call[c].at = "idle" /\ current # None
    /\ call' = [call EXCEPT ![c] = [op |-> "flush", gen |-> current, at |-> "send"]]
    /\ UNCHANGED <<cfg, produced, sent, manager, current, worker>>

\* The caller (or the goroutine that puts a flush back) waits for room in the
\* inbox; a flush also ends when the worker is being stopped.
SendTask(c) ==
    /\ call[c].at = "send"
    /\ LET g == call[c].gen
       IN \/ /\ Len(worker[g].inbox) < InboxCap
             /\ Becomes(g, [worker[g] EXCEPT !.inbox = Append(@, [msg |-> call[c].op, from |-> c])])
             /\ call' = [call EXCEPT ![c].at = "wait"]
          \/ /\ call[c].op = "flush" /\ worker[g].life \in {"stopping", "done"}
             /\ call' = [call EXCEPT ![c].at = "ok"]
             /\ UNCHANGED worker
    /\ UNCHANGED <<cfg, produced, sent, manager, current>>

\* The context of InitializeSymbol ends; Flush has none.
GiveUp(c) ==
    /\ "ctx" \in Faults
    /\ call[c].op = "init" /\ call[c].at \in {"send", "wait"}
    /\ call' = [call EXCEPT ![c].at = "error"]
    /\ UNCHANGED <<cfg, produced, sent, manager, current, worker>>

\* RemoveSymbol and Close: out of the map, then stopCh is closed.
RemoveSymbol ==
    /\ current' = None
    /\ IF current = None THEN UNCHANGED worker
       ELSE Becomes(current, [worker[current] EXCEPT !.life = "stopping"])
------------------------------------------------------------------------------
(* The subscribe manager, the exchange and its depth stream.                  *)

\* The stream starts with the change that follows; those before are never pushed.
Subscribe ==
    /\ manager = "out"
    /\ manager' = "in" /\ sent' = produced
    /\ IF current = None THEN UNCHANGED worker
       ELSE Becomes(current, Miss(worker[current], [first |-> sent + 1, last |-> produced]))
    /\ UNCHANGED <<cfg, produced, current, call>>

\* unsubscribePairsForClient removes the symbol before it ends the stream.
RotateOut ==
    /\ manager = "in"
    /\ manager' = "leaving"
    /\ RemoveSymbol
    /\ UNCHANGED <<cfg, produced, sent, call>>

Unsubscribe ==
    /\ manager = "leaving"
    /\ manager' = "out"
    /\ UNCHANGED <<cfg, produced, sent, current, worker, call>>

Change ==
    /\ produced < MaxVersion
    /\ produced' = produced + 1
    /\ UNCHANGED <<cfg, sent, manager, current, worker, call>>

NextDeltas == {d \in Deltas : d.first = sent + 1 /\ d.last <= produced /\ d.last <= sent + Batch}

Push ==
    /\ manager \in {"in", "leaving"}
    /\ \E d \in NextDeltas : ProcessUpdate(d) /\ sent' = d.last
    /\ UNCHANGED <<cfg, produced, manager, call>>

\* A delta is lost on its way.
Lose ==
    /\ "loss" \in Faults /\ manager \in {"in", "leaving"}
    /\ \E d \in NextDeltas :
           /\ sent' = d.last
           /\ IF current = None THEN UNCHANGED worker ELSE Becomes(current, Miss(worker[current], d))
    /\ UNCHANGED <<cfg, produced, manager, current, call>>

\* The change before the last arrives once more, behind it.  Two bounds keep
\* this from repeating for ever: the inbox is empty, and less than StageMax
\* deltas are staged.
Resend ==
    /\ "resend" \in Faults /\ manager = "in"
    /\ current # None => worker[current].inbox = <<>> /\ Len(worker[current].staging) < StageMax
    /\ \E d \in Deltas : d.first = d.last /\ d.last = sent - 1 /\ ProcessUpdate(d)
    /\ UNCHANGED <<cfg, produced, sent, manager, call>>
------------------------------------------------------------------------------
Worker(g) == Handle(g) \/ WorkerStops(g) \/ Cool(g) \/ AnswerSnapshot(g) \/ AnswerCommits(g) \/ SendReply(g)
Caller(c) == InitializeSymbol(c) \/ Flush(c) \/ SendTask(c) \/ GiveUp(c)

Next ==
    \/ \E g \in Gens : Worker(g)
    \/ \E c \in Callers : Caller(c)
    \/ Subscribe \/ RotateOut \/ Unsubscribe
    \/ Change \/ Push \/ Lose \/ Resend

Spec == Init /\ [][Next]_vars

\* The scheduler runs every goroutine and REST calls carry timeouts.  A sender
\* blocked on a channel is served before those that come later.
FairSpec ==
    /\ Spec
    /\ \A g \in Gens :
           /\ WF_vars(Handle(g)) /\ WF_vars(AnswerSnapshot(g)) /\ WF_vars(AnswerCommits(g))
           /\ SF_vars(SendReply(g))
    /\ \A c \in Callers : SF_vars(SendTask(c))
------------------------------------------------------------------------------
(* Properties.                                                                *)

WorkerType ==
    [life: {"unborn", "run", "stopping", "done"}, state: States,
     book: [version: Versions \cup {0}, applied: Seq(Versions)],
     inbox: Seq(Tasks), staging: Seq(Deltas), waiters: SUBSET Callers,
     asked: {"none"} \cup Replies, reply: Seq(Tasks), cooling: BOOLEAN, missed: SUBSET Versions]

\* Every variable keeps its type and the inbox of a worker its capacity
\* (newSymbolWorker, ProcessUpdate, SendReply, SendTask).
TypeOK ==
    /\ cfg \in Configs
    /\ produced \in Versions /\ sent \in 1..produced
    /\ manager \in {"out", "in", "leaving"}
    /\ current \in Gens \cup {None}
    /\ worker \in [Gens -> WorkerType]
    /\ call \in [Callers -> [op: {"none", "init", "flush"}, gen: Gens \cup {None},
                             at: {"idle", "send", "wait", "ok", "error"}]]
    /\ \A g \in Gens : Len(worker[g].inbox) <= InboxCap

\* Answers on their way to the worker: asked for, held by the fetching
\* goroutine, or in the inbox.
Awaited(w) ==
    (IF w.asked = "none" THEN 0 ELSE 1) + Len(w.reply)
    + Cardinality({i \in DOMAIN w.inbox : w.inbox[i].msg \in Replies})

\* A worker that stages deltas waits for exactly one answer, and any other for
\* none: it is never stuck, and no late answer of an earlier fetch overwrites
\* the book (triggerAsyncSnapshot, triggerAsyncRecovery and both handlers).
AwaitsOneAnswer ==
    cfg.mode = "INCREMENTAL" =>
        \A g \in Gens : worker[g].life = "run" =>
            Awaited(worker[g]) = IF worker[g].state \in Fetching THEN 1 ELSE 0

Exact(book) == book.applied = Span(1, book.version)
Served(g) == worker[g].life = "run" /\ worker[g].state = "READY"

\* A ready book of a strict stream took its changes in order, and lacks only
\* those that went missing while an answered fetch waited to be handled: every
\* other loss is found and repaired (handleUpdate, replayStagedBuffer).
OnlyMissedAreMissing ==
    cfg.mode = "INCREMENTAL" /\ cfg.strict =>
        \A g \in Gens : Served(g) =>
            LET book == worker[g].book
            IN /\ \A i, j \in DOMAIN book.applied : i < j => book.applied[i] < book.applied[j]
               /\ 1..book.version \subseteq Range(book.applied) \cup worker[g].missed
               /\ Range(book.applied) \subseteq 1..book.version

\* A ready book of a strict stream is the exchange's book at its version
\* (docs/tech/flows/orderbook_build_event_flow.md, zero-gap flow).
ReadyIsExact ==
    cfg.mode = "INCREMENTAL" /\ cfg.strict => \A g \in Gens : Served(g) => Exact(worker[g].book)

\* The book of a worker never goes back to an older version, whatever the
\* stream repeats and however the answers of the exchange interleave with it.
VersionNeverFallsBack ==
    [][\A g \in Gens : cfg.mode = "INCREMENTAL" /\ worker'[g].life = "run" =>
           worker'[g].book.version >= worker[g].book.version]_vars

\* A commits answer that reaches back to the gap repairs the book without a new
\* snapshot, also when it repeats changes the book has (applyCommits).
CommitsBridge ==
    [][\A g \in Gens :
           cfg.commits = "each" /\ worker[g].life = "run"
           /\ worker[g].state = "RECOVERING" /\ worker'[g].state = "SYNCING" =>
               LET list == Head(worker[g].inbox).list
               IN list = <<>> \/ list[1].first > worker[g].book.version + 1]_vars

\* A symbol rotated out has no worker: RemoveSymbol "stops tracking and clears
\* the orderbook" (subscribe_manager.go, unsubscribePairsForClient).
RotatedOutIsRemoved == manager = "out" => current = None

\* A worker that fetches leaves that state (run, handleTask).
FetchEnds ==
    \A g \in Gens : worker[g].life = "run" /\ worker[g].state \in Fetching
                    ~> worker[g].life # "run" \/ worker[g].state \notin Fetching

\* A call of InitializeSymbol or Flush returns as long as its worker is not
\* stopped (notifyInitWaiters, handleInit, msgFlush).
CallsReturn ==
    \A c \in Callers : call[c].at \in {"send", "wait"}
                       ~> \/ call[c].at \in {"ok", "error"}
                          \/ \E g \in Gens : call[c].gen = g /\ worker[g].life # "run"
=============================================================================
