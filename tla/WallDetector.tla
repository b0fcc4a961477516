---------------------------- MODULE WallDetector ----------------------------
(***************************************************************************)
(* The walls of one symbol, from the depth updates to the rows of          *)
(* penny_jumper_walls.  One goroutine takes the books off the bus and      *)
(* writes what becomes of a wall into its journal and onto the event       *)
(* stream; a second one takes the events, judges walls and saves those     *)
(* that ended.  The bus hands over waiting messages in any order.  A wall  *)
(* is named by the second its book is from.                                *)
(***************************************************************************)
EXTENDS Integers, Sequences, FiniteSets, Functions

CONSTANTS
  Sides,       \* the sides scanned: "bid", and "ask" where the exchange is for futures
  Prices,      \* prices at which a level may pass the filters of a wall
  Shows,       \* what a book may show of a standing wall: sequences over Notes
  MinLifespan, \* age at which a wall is mature
  Cooldown,    \* time between two judgements of a wall
  Second,      \* ticks of the clock in a second
  MaxTime,     \* bound: time of the last book
  MaxRotations,\* bound: how often the symbol is rotated out
  MaxFaults    \* bound: saves that fail

\* "touched": the price approached or takers hit it; "changed": resized or weakened.
Notes == {"touched", "changed"}

\* What the constants have to be.
WallAssumption ==
  /\ Sides # {} /\ Sides \subseteq {"bid", "ask"}
  /\ Shows \subseteq Seq(Notes)
  /\ {MinLifespan, Second} \subseteq Nat \ {0}
  /\ {Cooldown, MaxTime, MaxRotations, MaxFaults} \subseteq Nat

VARIABLES
  now,       \* time of the newest book
  watched,   \* the symbol is subscribed
  rotations, \* how often it was rotated out
  depths,    \* books published and not taken yet
  scan,      \* the goroutine that scans a book
  active,    \* DepthStore: active[s] is the wall of side s
  journal,   \* DepthStore: journal[i] holds the events of walls named i
  stream,    \* events published and not taken yet, of the kinds somebody acts upon
  task,      \* the goroutine that handles an event
  cool,      \* evalCache: walls named i are not judged again before cool[i]
  rows,      \* the database: rows[i] holds the events saved under i
  born,      \* born[n]: side and name of the n-th wall
  lost       \* names under which a save failed

vars == <<now, watched, rotations, depths, scan, active, journal, stream, task,
          cool, rows, born, lost>>

Times == 0 .. MaxTime
\* ExternalUniqueID: symbol, exchange and the second, the side is no part of it.
Name(t) == t \div Second
Names   == {Name(t) : t \in Times}

Kinds == {"born", "matured", "ended"} \cup Notes
Book  == [at : Times, levels : [Sides -> SUBSET Prices]]
Wall  == [n : Nat \ {0}, side : Sides, name : Names, price : Prices, since : Times,
          seq : Nat, matured : BOOLEAN]
Event == [n : Nat \ {0}, side : Sides, name : Names, kind : Kinds, seq : Nat, at : Times]
None  == [n |-> 0]
Idle  == [stage |-> "idle"]

TypeOK ==
  /\ now \in Times /\ watched \in BOOLEAN /\ rotations \in 0 .. MaxRotations
  /\ depths \subseteq Book
  /\ \/ scan = Idle
     \/ scan \in [stage : {"look", "act", "drop"}, book : Book, side : Sides, wall : Wall \cup {None}]
  /\ active \in [Sides -> Wall \cup {None}]
  /\ journal \in [Names -> Seq(Event)] /\ rows \in [Names -> Seq(Event)]
  /\ stream \subseteq Event
  /\ \/ task = Idle
     \/ task \in [stage : {"got", "judging"}, event : Event, events : Seq(Event),
                  wall : Wall \cup {None}]
  /\ cool \in [Names -> Nat]
  /\ born \in Seq([side : Sides, name : Names])
  /\ lost \subseteq Names

Init ==
  /\ now = 0 /\ watched = TRUE /\ rotations = 0
  /\ depths = {} /\ scan = Idle
  /\ active = [s \in Sides |-> None]
  /\ journal = [i \in Names |-> <<>>] /\ rows = [i \in Names |-> <<>>]
  /\ stream = {} /\ task = Idle
  /\ cool = [i \in Names |-> 0]
  /\ born = <<>> /\ lost = {}

-----------------------------------------------------------------------------
(* The depth stream and the rotation of the symbol                         *)

\* A level that passes the filters of evalLevel is in the book or not.  A book is
\* published once here: the code repeats it when the worker is behind.
Publish == \E t \in (now + 1) .. MaxTime, L \in [Sides -> SUBSET Prices] :
  /\ watched
  /\ now' = t
  /\ depths' = depths \cup {[at |-> t, levels |-> L]}
  /\ UNCHANGED <<watched, rotations, scan, active, journal, stream, task, cool, rows, born, lost>>

RotateOut ==
  /\ watched /\ rotations < MaxRotations
  /\ watched' = FALSE /\ rotations' = rotations + 1
  /\ active' = [s \in Sides |-> None]
  /\ UNCHANGED <<now, depths, scan, journal, stream, task, cool, rows, born, lost>>

RotateIn ==
  /\ ~watched
  /\ watched' = TRUE
  /\ UNCHANGED <<now, rotations, depths, scan, active, journal, stream, task, cool, rows, born, lost>>

-----------------------------------------------------------------------------
(* The scan of a book: the bids, then the asks                             *)

First == IF "bid" \in Sides THEN "bid" ELSE "ask"

\* A book with an empty side or too wide a spread is left alone.
Take(b) ==
  /\ scan = Idle /\ b \in depths
  /\ depths' = depths \ {b}
  /\ \/ scan' = [stage |-> "look", book |-> b, side |-> First, wall |-> None]
     \/ UNCHANGED scan
  /\ UNCHANGED <<now, watched, rotations, active, journal, stream, task, cool, rows, born, lost>>

NextSide ==
  IF scan.side = "bid" /\ "ask" \in Sides
  THEN [scan EXCEPT !.stage = "look", !.side = "ask", !.wall = None] ELSE Idle

\* emitWallEvent, for what happens to wall w at one look at a book.  Nobody acts
\* upon a birth or a change of the size.
EventsOf(w, kinds) ==
  [k \in 1 .. Len(kinds) |-> [n |-> w.n, side |-> w.side, name |-> w.name,
                              kind |-> kinds[k], seq |-> w.seq + k, at |-> scan.book.at]]
Emit(w, kinds) ==
  /\ journal' = [journal EXCEPT ![w.name] = @ \o EventsOf(w, kinds)]
  /\ stream' = stream \cup
       {e \in Range(EventsOf(w, kinds)) : e.kind \in {"matured", "touched", "ended"}}

Look ==
  /\ scan.stage = "look"
  /\ scan' = [scan EXCEPT !.stage = "act", !.wall = active[scan.side]]
  /\ UNCHANGED <<now, watched, rotations, depths, active, journal, stream, task, cool, rows, born, lost>>

Stands == scan.wall # None /\ scan.wall.price \in scan.book.levels[scan.side]

\* handleExistingCandidate: the volume and the distance are what Shows says.
Observe ==
  /\ scan.stage = "act" /\ Stands
  /\ LET w == scan.wall
         ripe == ~w.matured /\ scan.book.at - w.since >= MinLifespan
     IN \E show \in Shows :
          LET kinds == (IF ripe THEN <<"matured">> ELSE <<>>) \o show
          IN /\ Emit(w, kinds)
             /\ active' = [active EXCEPT ![w.side] =
                  [w EXCEPT !.matured = @ \/ ripe, !.seq = @ + Len(kinds)]]
  /\ scan' = NextSide
  /\ UNCHANGED <<now, watched, rotations, depths, task, cool, rows, born, lost>>

\* handleDisappearedWall: pulled and consumed are one here.
End ==
  /\ scan.stage = "act" /\ scan.wall # None /\ ~Stands
  /\ Emit(scan.wall, <<"ended">>)
  /\ active' = [active EXCEPT ![scan.side] = [scan.wall EXCEPT !.seq = @ + 1]]
  /\ scan' = [scan EXCEPT !.stage = "drop"]
  /\ UNCHANGED <<now, watched, rotations, depths, task, cool, rows, born, lost>>

Free == scan.stage = "drop" \/ (scan.stage = "act" /\ scan.wall = None)

\* (fault) The deletion of a wall takes its journal along.
VacantClears ==
  /\ Free /\ scan.book.levels[scan.side] = {}
  /\ active' = [active EXCEPT ![scan.side] = None]
  /\ journal' = IF scan.stage = "drop" THEN [journal EXCEPT ![scan.wall.name] = <<>>] ELSE journal
  /\ scan' = NextSide
  /\ UNCHANGED <<now, watched, rotations, depths, stream, task, cool, rows, born, lost>>

\* The deletion of a wall that ended, and no candidate for another.
Vacant ==
  /\ Free /\ scan.book.levels[scan.side] = {}
  /\ active' = [active EXCEPT ![scan.side] = None]
  /\ scan' = NextSide
  /\ UNCHANGED <<now, watched, rotations, depths, journal, stream, task, cool, rows, born, lost>>

\* handleFreshCandidate: the largest of the levels, whichever that is.
Fresh ==
  /\ Free
  /\ \E p \in scan.book.levels[scan.side] :
       LET w == [n |-> Len(born) + 1, side |-> scan.side, name |-> Name(scan.book.at), price |-> p,
                 since |-> scan.book.at, seq |-> 0, matured |-> FALSE]
       IN /\ Emit(w, <<"born">>)
          /\ active' = [active EXCEPT ![w.side] = [w EXCEPT !.seq = 1]]
          /\ born' = Append(born, [side |-> w.side, name |-> w.name])
  /\ scan' = NextSide
  /\ UNCHANGED <<now, watched, rotations, depths, task, cool, rows, lost>>

Scan == Look \/ Observe \/ End \/ Vacant \/ Fresh

-----------------------------------------------------------------------------
(* The event stream                                                        *)

\* HandleWallEventStream
Receive(e) ==
  /\ task = Idle /\ e \in stream
  /\ stream' = stream \ {e}
  /\ task' = [stage |-> "got", event |-> e, events |-> journal[e.name], wall |-> None]
  /\ UNCHANGED <<now, watched, rotations, depths, scan, active, journal, cool, rows, born, lost>>

Got(kinds) == task.stage = "got" /\ task.event.kind \in kinds

\* The wall of the side now, which need not be the one of the event.
Eligible(w) == w # None /\ (w.matured \/ task.event.at - w.since >= MinLifespan)

\* A wall too small for the turnover of its symbol is not judged either.
Evaluate ==
  /\ Got({"matured", "touched"})
  /\ LET w == active[task.event.side] IN
     \/ /\ Eligible(w) /\ cool[w.name] <= now
        /\ cool' = [cool EXCEPT ![w.name] = now + Cooldown]
        /\ task' = [task EXCEPT !.stage = "judging", !.wall = w]
     \/ /\ UNCHANGED cool
        /\ task' = Idle
  /\ UNCHANGED <<now, watched, rotations, depths, scan, active, journal, stream, rows, born, lost>>

\* JudgeWall returns, in time or by its timeout; its verdict only informs.
Judged ==
  /\ task.stage = "judging"
  /\ task' = Idle
  /\ UNCHANGED <<now, watched, rotations, depths, scan, active, journal, stream, cool, rows, born, lost>>

\* handleWallLifecycleEnded: the journal is cleared whether the save fails or not.
Finish ==
  /\ Got({"ended"})
  /\ LET i == task.event.name IN
     /\ cool' = [cool EXCEPT ![i] = 0]
     /\ \/ rows' = [rows EXCEPT ![i] = task.events] /\ UNCHANGED lost
        \/ Cardinality(lost) < MaxFaults /\ lost' = lost \cup {i} /\ UNCHANGED rows
     /\ journal' = [journal EXCEPT ![i] = <<>>]
  /\ task' = Idle
  /\ UNCHANGED <<now, watched, rotations, depths, scan, active, stream, born>>

Handle == (\E e \in stream : Receive(e)) \/ Evaluate \/ Judged \/ Finish

Next == Publish \/ RotateOut \/ RotateIn \/ (\E b \in depths : Take(b)) \/ Scan \/ Handle

Spec == Init /\ [][Next]_vars

\* The goroutine of the stream is never blocked for good: the judges answer or
\* time out, and so does the database.
FairSpec == Spec /\ WF_vars(Handle)

-----------------------------------------------------------------------------

\* Of all walls, of either side, one was named i.
Sole(i) == \E n \in DOMAIN born : \A m \in DOMAIN born : born[m].name = i <=> m = n

\* The life of one wall, from its birth to its end and without a gap.
Whole(es) ==
  /\ es # <<>> /\ es[1].kind = "born" /\ es[Len(es)].kind = "ended"
  /\ \A k \in DOMAIN es : es[k].n = es[1].n /\ es[k].seq = k

\* The row of a wall that shares its name with no other holds its whole life,
\* though the scan appends while the other goroutine reads, saves and clears
\* (AppendWallEvent before Publish, ClearWallEvents after Save).
RecordIsWhole == \A i \in Names : rows[i] # <<>> /\ Sole(i) => Whole(rows[i])

\* A wall that ended gets such a row, unless the save fails.
EndsInItsRow == \A i \in Names :
  Sole(i) /\ (\E e \in stream : e.name = i /\ e.kind = "ended")
    ~> ~Sole(i) \/ i \in lost \/ Whole(rows[i])

\* What wall_detector_test.go:905 says of a wall that moved, and :845 of one that
\* returned: it has a name of its own.  False of walls of one second.
MovedIsRenamed == \A m, n \in DOMAIN born :
  m # n /\ born[m].side = born[n].side => born[m].name # born[n].name

\* What docs/business/penny_jumper/wall_trust_score.md:7 says: a wall is judged by
\* its own events.  False of the event of a wall that has been replaced.
JudgedByItsOwn == task.stage = "judging" => task.event.n = task.wall.n
=============================================================================
