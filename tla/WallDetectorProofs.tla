------------------------- MODULE WallDetectorProofs -------------------------
(***************************************************************************)
(* Proofs about WallDetector, for all sides, prices, notes and durations   *)
(* and any number of books, rotations and failing saves: the row of a wall *)
(* that shares its name with no other holds its whole life.                *)
(***************************************************************************)
EXTENDS WallDetector, SequenceTheorems, TLAPS

\* Of the walls born, b, the n-th shares its name with no other.
One(b, n) == \A m \in DOMAIN b : b[m].name = b[n].name => m = n

\* r, a wall or an event, is of one of the walls born.
Refers(b, r) == r.n \in DOMAIN b /\ b[r.n].side = r.side /\ b[r.n].name = r.name

AllRefer(b, es, i) == \A k \in 1 .. Len(es) : Refers(b, es[k]) /\ es[k].name = i

RefsOK ==
  /\ \A i \in Names : AllRefer(born, journal[i], i) /\ AllRefer(born, rows[i], i)
  /\ \A e \in stream : Refers(born, e)
  /\ task.stage # "idle" =>
       Refers(born, task.event) /\ AllRefer(born, task.events, task.event.name)
  /\ \A s \in Sides : active[s] # None => Refers(born, active[s]) /\ active[s].side = s
  /\ scan.stage # "idle" /\ scan.wall # None =>
       Refers(born, scan.wall) /\ scan.wall.side = scan.side

\* The events of wall n from its birth on.
Life(es, n) ==
  /\ Len(es) >= 1 /\ es[1].kind = "born"
  /\ \A k \in 1 .. Len(es) : es[k].n = n /\ es[k].seq = k

\* The journal of wall w among the journals j is up to date: it has not ended.
Open(j, w) ==
  /\ Life(j[w.name], w.n)
  /\ Len(j[w.name]) = w.seq
  /\ j[w.name][w.seq].kind # "ended"

\* The walls in c are those in b and perhaps more.
Extends(b, c) == \A m \in DOMAIN b : m \in DOMAIN c /\ c[m] = b[m]

\* A wall that is looked at is the active one, unless the symbol was rotated out.
OpenOK ==
  /\ \A s \in Sides :
       active[s] # None /\ One(born, active[s].n) /\ ~ (scan.stage = "drop" /\ scan.side = s)
         => Open(journal, active[s])
  /\ scan.stage = "act" /\ scan.wall # None =>
       /\ active[scan.side] \in {None, scan.wall}
       /\ One(born, scan.wall.n) => Open(journal, scan.wall)

\* e is the end of a wall and the last of its journal.
IsEnd(j, e) ==
  /\ Life(j[e.name], e.n)
  /\ e.kind = "ended" /\ e = j[e.name][Len(j[e.name])]

Ending == task.stage = "got" /\ task.event.kind = "ended"

EndOK ==
  /\ \A e \in stream : e.kind = "ended" /\ One(born, e.n) => IsEnd(journal, e)
  /\ Ending /\ One(born, task.event.n) =>
       IsEnd(journal, task.event) /\ task.event \notin stream /\ Whole(task.events)

RowsOK == \A n \in DOMAIN born :
  One(born, n) /\ rows[born[n].name] # <<>> => Whole(rows[born[n].name])

IInv == TypeOK /\ RefsOK /\ OpenOK /\ EndOK /\ RowsOK

-----------------------------------------------------------------------------
(* What the types give                                                     *)

LEMMA WallIsWall == None \notin Wall /\ Idle.stage = "idle"
  BY DEF None, Wall, Idle

LEMMA Named == ASSUME NEW t \in Times PROVE Name(t) \in Names
  BY DEF Names

\* A goroutine that scans knows its book, its side and its wall.
LEMMA Scanning ==
  ASSUME TypeOK, scan.stage # "idle"
  PROVE  /\ scan \in [stage : {"look", "act", "drop"}, book : Book, side : Sides,
                      wall : Wall \cup {None}]
         /\ scan.book \in Book /\ scan.side \in Sides /\ scan.wall \in Wall \cup {None}
         /\ scan.book.at \in Times
  BY WallIsWall DEF TypeOK, Book

\* A goroutine that handles an event knows it and what the journal held.
LEMMA Handling ==
  ASSUME TypeOK, task.stage # "idle"
  PROVE  /\ task \in [stage : {"got", "judging"}, event : Event, events : Seq(Event),
                      wall : Wall \cup {None}]
         /\ task.event \in Event /\ task.events \in Seq(Event)
  BY WallIsWall DEF TypeOK

\* After a side comes the other one or the next book.
LEMMA NextSideTyped ==
  ASSUME TypeOK, scan.stage # "idle"
  PROVE  \/ NextSide = Idle
         \/ /\ NextSide \in [stage : {"look", "act", "drop"}, book : Book, side : Sides,
                             wall : Wall \cup {None}]
            /\ NextSide.stage = "look" /\ NextSide.wall = None
  BY Scanning DEF NextSide

\* What happens at a look is a sequence of events of its wall, counted on.
LEMMA EventsTyped ==
  ASSUME NEW w \in Wall, NEW kinds \in Seq(Kinds), scan.book.at \in Times
  PROVE  /\ EventsOf(w, kinds) \in Seq(Event) /\ Len(EventsOf(w, kinds)) = Len(kinds)
         /\ \A k \in 1 .. Len(kinds) :
              EventsOf(w, kinds)[k] = [n |-> w.n, side |-> w.side, name |-> w.name,
                kind |-> kinds[k], seq |-> w.seq + k, at |-> scan.book.at]
<1>1. \A k \in 1 .. Len(kinds) :
        [n |-> w.n, side |-> w.side, name |-> w.name, kind |-> kinds[k], seq |-> w.seq + k,
         at |-> scan.book.at] \in Event
  BY DEF Wall, Event
<1>2. EventsOf(w, kinds) \in [1 .. Len(kinds) -> Event]
  BY <1>1 DEF EventsOf
<1> QED BY <1>2 DEF EventsOf

LEMMA EventFields ==
  ASSUME NEW w \in Wall, NEW kinds \in Seq(Kinds), scan.book.at \in Times,
         NEW k \in 1 .. Len(kinds)
  PROVE  LET e == EventsOf(w, kinds)[k]
         IN /\ e.n = w.n /\ e.side = w.side /\ e.name = w.name
            /\ e.kind = kinds[k] /\ e.seq = w.seq + k
<1>1. EventsOf(w, kinds)[k] =
        [n |-> w.n, side |-> w.side, name |-> w.name, kind |-> kinds[k], seq |-> w.seq + k,
         at |-> scan.book.at]
  BY EventsTyped
<1> QED BY <1>1

\* What Emit writes.
LEMMA Emitted ==
  ASSUME TypeOK, NEW w \in Wall, NEW kinds \in Seq(Kinds), scan.book.at \in Times,
         Emit(w, kinds)
  PROVE  /\ journal' \in [Names -> Seq(Event)] /\ w.name \in Names
         /\ \A i \in Names : i # w.name => journal'[i] = journal[i]
         /\ Len(journal'[w.name]) = Len(journal[w.name]) + Len(kinds)
         /\ Len(journal[w.name]) \in Nat
         /\ \A k \in 1 .. Len(journal[w.name]) : journal'[w.name][k] = journal[w.name][k]
         /\ \A k \in 1 .. Len(kinds) :
              journal'[w.name][Len(journal[w.name]) + k] = EventsOf(w, kinds)[k]
         /\ \A e \in stream' : e \in stream \/ \E k \in 1 .. Len(kinds) :
              e = EventsOf(w, kinds)[k]
         /\ stream' \subseteq Event
<1> DEFINE new == EventsOf(w, kinds)
           old == journal[w.name]
<1>1. /\ new \in Seq(Event) /\ Len(new) = Len(kinds) /\ DOMAIN new = 1 .. Len(kinds)
      /\ Len(kinds) \in Nat
  BY EventsTyped
<1>2. w.name \in Names /\ old \in Seq(Event) /\ journal \in [Names -> Seq(Event)]
  BY DEF TypeOK, Wall
<1>3. journal' = [journal EXCEPT ![w.name] = old \o new]
  BY DEF Emit
<1>4. /\ old \o new \in Seq(Event) /\ Len(old \o new) = Len(old) + Len(kinds)
      /\ \A k \in 1 .. Len(old) + Len(kinds) :
           (old \o new)[k] = IF k <= Len(old) THEN old[k] ELSE new[k - Len(old)]
      /\ Len(old) \in Nat
  <2> HIDE DEF old, new
  <2>1. /\ old \o new \in Seq(Event) /\ Len(old \o new) = Len(old) + Len(new)
        /\ \A k \in 1 .. Len(old) + Len(new) :
             (old \o new)[k] = IF k <= Len(old) THEN old[k] ELSE new[k - Len(old)]
    BY <1>1, <1>2, ConcatProperties
  <2> QED BY <1>1, <1>2, <2>1, LenProperties
<1>5. /\ \A k \in 1 .. Len(old) : (old \o new)[k] = old[k]
      /\ \A k \in 1 .. Len(kinds) : (old \o new)[Len(old) + k] = new[k]
  <2> HIDE DEF old, new
  <2> QED BY <1>1, <1>4
<1>6. \A e \in stream' : e \in stream \/ \E k \in 1 .. Len(kinds) : e = new[k]
  BY <1>1 DEF Emit, Range
<1>7. stream' \subseteq Event
  BY <1>1, <1>6, ElementOfSeq DEF TypeOK
<1>8. journal'[w.name] = old \o new
  BY <1>2, <1>3
<1> QED BY <1>2, <1>3, <1>4, <1>5, <1>6, <1>7, <1>8

-----------------------------------------------------------------------------
(* What a further wall and what further events leave true                  *)

LEMMA OneShrinks ==
  ASSUME NEW b, NEW c, Extends(b, c), NEW n \in DOMAIN b, One(c, n)
  PROVE  One(b, n)
  BY DEF Extends, One

LEMMA RefersKept ==
  ASSUME NEW b, NEW c, Extends(b, c)
  PROVE  /\ \A r : Refers(b, r) => Refers(c, r)
         /\ \A es, i : AllRefer(b, es, i) => AllRefer(c, es, i)
  BY DEF Extends, Refers, AllRefer

LEMMA EmittedRefers ==
  ASSUME TypeOK, RefsOK, NEW w \in Wall, NEW kinds \in Seq(Kinds), scan.book.at \in Times,
         Emit(w, kinds), NEW b, Extends(born, b), Refers(b, w)
  PROVE  /\ \A i \in Names : AllRefer(b, journal'[i], i)
         /\ \A e \in stream' : Refers(b, e)
<1>1. \A k \in 1 .. Len(kinds) :
        Refers(b, EventsOf(w, kinds)[k]) /\ EventsOf(w, kinds)[k].name = w.name
  BY EventFields DEF Refers
<1>2. \A e \in stream' : Refers(b, e)
  BY <1>1, Emitted, RefersKept DEF RefsOK
<1>3. ASSUME NEW i \in Names PROVE AllRefer(b, journal'[i], i)
  <2>1. CASE i # w.name
    BY <2>1, Emitted, RefersKept DEF RefsOK
  <2>2. CASE i = w.name
    <3>1. AllRefer(b, journal[w.name], w.name)
      BY <2>2, RefersKept DEF RefsOK
    <3> DEFINE old == Len(journal[w.name])
    <3>2. SUFFICES ASSUME NEW k \in 1 .. Len(journal'[w.name])
                   PROVE  Refers(b, journal'[w.name][k]) /\ journal'[w.name][k].name = w.name
      BY <2>2 DEF AllRefer
    <3>3. old \in Nat /\ Len(kinds) \in Nat /\ k \in 1 .. old + Len(kinds)
      BY Emitted
    <3>4. CASE k <= old
      <4>1. k \in 1 .. old
        BY <3>3, <3>4
      <4>2. journal'[w.name][k] = journal[w.name][k]
        BY <4>1, Emitted
      <4> QED BY <3>1, <4>1, <4>2 DEF AllRefer
    <3>5. CASE ~ (k <= old)
      <4> DEFINE j == k - old
      <4>1. j \in 1 .. Len(kinds) /\ k = old + j
        BY <3>3, <3>5
      <4>2. journal'[w.name][k] = EventsOf(w, kinds)[j]
        <5> HIDE DEF j
        <5> QED BY <4>1, Emitted
      <4> QED BY <1>1, <4>1, <4>2
    <3> QED BY <3>4, <3>5
  <2> QED BY <2>1, <2>2
<1> QED BY <1>2, <1>3

\* A journal that is up to date stays so and ends with the last of the new events.
LEMMA LifeGoesOn ==
  ASSUME TypeOK, NEW w \in Wall, NEW kinds \in Seq(Kinds), scan.book.at \in Times,
         Emit(w, kinds), Len(journal[w.name]) = w.seq,
         \/ Life(journal[w.name], w.n)
         \/ w.seq = 0 /\ Len(kinds) >= 1 /\ kinds[1] = "born"
  PROVE  /\ Life(journal'[w.name], w.n)
         /\ Len(journal'[w.name]) = w.seq + Len(kinds)
         /\ Len(kinds) = 0 =>
              journal'[w.name][w.seq + Len(kinds)] = journal[w.name][w.seq]
         /\ Len(kinds) >= 1 =>
              journal'[w.name][w.seq + Len(kinds)] = EventsOf(w, kinds)[Len(kinds)]
<1> DEFINE old == journal[w.name]
           es  == journal'[w.name]
<1>1. /\ w.seq \in Nat /\ Len(kinds) \in Nat
      /\ Len(es) = w.seq + Len(kinds)
      /\ \A k \in 1 .. w.seq : es[k] = old[k]
      /\ \A k \in 1 .. Len(kinds) : es[w.seq + k] = EventsOf(w, kinds)[k]
  <2>1. w.seq \in Nat /\ Len(old) = w.seq
    BY DEF Wall
  <2>2. /\ Len(es) = Len(old) + Len(kinds)
        /\ \A k \in 1 .. Len(old) : es[k] = old[k]
        /\ \A k \in 1 .. Len(kinds) : es[Len(old) + k] = EventsOf(w, kinds)[k]
    BY Emitted
  <2>3. Len(kinds) \in Nat
    BY EventsTyped, LenProperties
  <2> HIDE DEF old, es
  <2> QED BY <2>1, <2>2, <2>3
<1> HIDE DEF old, es
<1>2. \A k \in 1 .. Len(kinds) :
        /\ EventsOf(w, kinds)[k].n = w.n /\ EventsOf(w, kinds)[k].seq = w.seq + k
        /\ EventsOf(w, kinds)[k].kind = kinds[k]
  BY EventFields
<1>3. ASSUME NEW k \in 1 .. Len(es) PROVE es[k].n = w.n /\ es[k].seq = k
  <2>1. CASE k <= w.seq
    BY <1>1, <2>1 DEF Life, old
  <2>2. CASE ~ (k <= w.seq)
    <3> DEFINE j == k - w.seq
    <3>1. j \in 1 .. Len(kinds) /\ k = w.seq + j
      BY <1>1, <2>2
    <3> HIDE DEF j
    <3> QED BY <1>1, <1>2, <3>1
  <2> QED BY <2>1, <2>2
<1>4. Len(es) >= 1 /\ es[1].kind = "born"
  <2>1. CASE Life(old, w.n)
    BY <1>1, <2>1 DEF Life, old
  <2>2. CASE w.seq = 0 /\ Len(kinds) >= 1 /\ kinds[1] = "born"
    <3>1. 1 \in 1 .. Len(kinds) /\ es[1] = EventsOf(w, kinds)[1]
      BY <1>1, <2>2
    <3> QED BY <1>1, <1>2, <2>2, <3>1
  <2> QED BY <2>1, <2>2 DEF old
<1>5. Life(es, w.n)
  BY <1>3, <1>4 DEF Life
<1>6. Len(kinds) = 0 => es[w.seq + Len(kinds)] = old[w.seq]
  <2> SUFFICES ASSUME Len(kinds) = 0 PROVE es[w.seq] = old[w.seq]
    BY <1>1
  <2>1. w.seq >= 1
    BY DEF Life
  <2> QED BY <1>1, <2>1
<1>7. Len(kinds) >= 1 => es[w.seq + Len(kinds)] = EventsOf(w, kinds)[Len(kinds)]
  BY <1>1
<1> QED BY <1>1, <1>5, <1>6, <1>7 DEF old, es

-----------------------------------------------------------------------------
(* The types                                                               *)

\* One side of a scan after the other.
LEMMA NextSideType ==
  ASSUME TypeOK, scan.stage # "idle", scan' = NextSide
  PROVE  \/ scan' = Idle
         \/ scan' \in [stage : {"look", "act", "drop"}, book : Book, side : Sides,
                       wall : Wall \cup {None}]
  BY NextSideTyped

LEMMA EmitTypes ==
  ASSUME TypeOK, NEW w \in Wall, NEW kinds \in Seq(Kinds), scan.book.at \in Times,
         Emit(w, kinds)
  PROVE  journal' \in [Names -> Seq(Event)] /\ stream' \subseteq Event
  BY Emitted

LEMMA PublishTypes == ASSUME WallAssumption, TypeOK, Publish PROVE TypeOK'
<1>1. PICK t \in (now + 1) .. MaxTime, L \in [Sides -> SUBSET Prices] :
        now' = t /\ depths' = depths \cup {[at |-> t, levels |-> L]}
  BY DEF Publish
<1>2. t \in Times
  BY DEF TypeOK, Times, WallAssumption
<1>3. depths' \subseteq Book
  BY <1>1, <1>2 DEF TypeOK, Book
<1> QED BY <1>1, <1>2, <1>3 DEF Publish, TypeOK

LEMMA RotateTypes ==
  ASSUME WallAssumption, TypeOK, RotateOut \/ RotateIn PROVE TypeOK'
<1>1. CASE RotateOut
  <2>1. rotations' \in 0 .. MaxRotations
    BY <1>1 DEF RotateOut, TypeOK, WallAssumption
  <2> QED BY <1>1, <2>1 DEF RotateOut, TypeOK
<1>2. CASE RotateIn
  BY <1>2 DEF RotateIn, TypeOK
<1> QED BY <1>1, <1>2

LEMMA FirstSide == ASSUME WallAssumption PROVE First \in Sides
  BY DEF WallAssumption, First

LEMMA TakeTypes == ASSUME WallAssumption, TypeOK, NEW b \in depths, Take(b) PROVE TypeOK'
<1>1. CASE scan' = [stage |-> "look", book |-> b, side |-> First, wall |-> None]
  <2>1. scan' \in [stage : {"look", "act", "drop"}, book : Book, side : Sides,
                   wall : Wall \cup {None}]
    BY <1>1, FirstSide DEF TypeOK
  <2> QED BY <2>1 DEF Take, TypeOK
<1>2. CASE scan' = scan
  BY <1>2 DEF Take, TypeOK
<1> QED BY <1>1, <1>2 DEF Take

LEMMA LookTypes == ASSUME TypeOK, Look PROVE TypeOK'
<1>1. scan.stage # "idle" /\ scan' = [scan EXCEPT !.stage = "act", !.wall = active[scan.side]]
  BY DEF Look
<1>2. active[scan.side] \in Wall \cup {None}
  BY <1>1, Scanning DEF TypeOK
<1>3. scan' \in [stage : {"look", "act", "drop"}, book : Book, side : Sides,
                 wall : Wall \cup {None}]
  BY <1>1, <1>2, Scanning
<1> QED BY <1>3 DEF Look, TypeOK

LEMMA LargerSet == ASSUME NEW S, NEW T, S \subseteq T, NEW s \in Seq(S) PROVE s \in Seq(T)
<1>1. Len(s) \in Nat /\ s \in [1 .. Len(s) -> S]
  BY LenProperties
<1>2. s \in [1 .. Len(s) -> T]
  BY <1>1
<1> QED BY <1>1, <1>2

\* What a look may show of a wall that stands.
LEMMA KindsTyped ==
  ASSUME WallAssumption, NEW show \in Shows, NEW ripe \in BOOLEAN,
         NEW kinds, kinds = (IF ripe THEN <<"matured">> ELSE <<>>) \o show
  PROVE  /\ kinds \in Seq(Kinds)
         /\ \A k \in 1 .. Len(kinds) : kinds[k] \in {"matured"} \cup Notes
<1>1. kinds \in Seq({"matured"} \cup Notes)
  <2> DEFINE pre == IF ripe THEN <<"matured">> ELSE <<>>
             A   == {"matured"} \cup Notes
  <2>1. pre \in Seq(A)
    <3>1. "matured" \in A
      OBVIOUS
    <3> HIDE DEF A
    <3>2. <<"matured">> \in Seq(A) /\ <<>> \in Seq(A)
      BY <3>1
    <3> QED BY <3>2
  <2>2. show \in Seq(A)
    <3>1. show \in Seq(Notes) /\ Notes \subseteq A
      BY DEF WallAssumption
    <3> QED BY <3>1, LargerSet
  <2> HIDE DEF pre, A
  <2>3. pre \o show \in Seq(A)
    BY <2>1, <2>2, ConcatProperties
  <2> QED BY <2>3 DEF pre, A
<1>2. Len(kinds) \in Nat /\ kinds \in [1 .. Len(kinds) -> {"matured"} \cup Notes]
  BY <1>1, LenProperties
<1>3. {"matured"} \cup Notes \subseteq Kinds
  BY DEF Kinds
<1>4. kinds \in Seq(Kinds)
  BY <1>1, <1>3, LargerSet
<1> QED BY <1>2, <1>4

\* The wall a scan has met, while its journal is written.
LEMMA Meeting ==
  ASSUME TypeOK, scan.stage = "act", scan.wall # None
  PROVE  /\ scan.wall \in Wall /\ scan.book.at \in Times /\ scan.side \in Sides
         /\ scan.stage # "idle"
  BY Scanning

\* What Observe does: w is the wall it met, v what becomes of it.
LEMMA Observed ==
  ASSUME WallAssumption, TypeOK, Observe
  PROVE  \E w \in Wall, v \in Wall, kinds \in Seq(Kinds) :
           /\ w = scan.wall /\ Emit(w, kinds)
           /\ \A k \in 1 .. Len(kinds) : kinds[k] \in {"matured"} \cup Notes
           /\ v.n = w.n /\ v.side = w.side /\ v.name = w.name /\ v.seq = w.seq + Len(kinds)
           /\ active' = [active EXCEPT ![w.side] = v]
<1> DEFINE w == scan.wall
           ripe == ~w.matured /\ scan.book.at - w.since >= MinLifespan
<1>1. w \in Wall
  BY Meeting DEF Observe, Stands
<1>2. PICK show \in Shows :
        LET kinds == (IF ripe THEN <<"matured">> ELSE <<>>) \o show
        IN /\ Emit(w, kinds)
           /\ active' = [active EXCEPT ![w.side] =
                [w EXCEPT !.matured = @ \/ ripe, !.seq = @ + Len(kinds)]]
  BY DEF Observe
<1> DEFINE kinds == (IF ripe THEN <<"matured">> ELSE <<>>) \o show
           v == [w EXCEPT !.matured = @ \/ ripe, !.seq = @ + Len(kinds)]
<1>3. Emit(w, kinds) /\ active' = [active EXCEPT ![w.side] = v]
  BY <1>2
<1>4. /\ kinds \in Seq(Kinds)
      /\ \A k \in 1 .. Len(kinds) : kinds[k] \in {"matured"} \cup Notes
  <2> DEFINE b == IF ripe THEN TRUE ELSE FALSE
  <2>1. kinds = (IF b THEN <<"matured">> ELSE <<>>) \o show /\ b \in BOOLEAN
    OBVIOUS
  <2> HIDE DEF kinds, b
  <2> QED BY <2>1, KindsTyped
<1>5. Len(kinds) \in Nat
  <2> HIDE DEF kinds
  <2> QED BY <1>4, LenProperties
<1>6. /\ v \in Wall /\ v.n = w.n /\ v.side = w.side /\ v.name = w.name
      /\ v.seq = w.seq + Len(kinds)
  <2>1. w.matured \in BOOLEAN /\ (w.matured \/ ripe) \in BOOLEAN /\ w.seq + Len(kinds) \in Nat
    <3> HIDE DEF kinds, ripe
    <3>1. w.matured \in BOOLEAN /\ w.seq \in Nat
      BY <1>1 DEF Wall
    <3> QED BY <1>5, <3>1 DEF ripe
  <2> HIDE DEF w, kinds, ripe
  <2> QED BY <1>1, <2>1 DEF Wall
<1> HIDE DEF kinds, v
<1> QED BY <1>1, <1>3, <1>4, <1>6

LEMMA ObserveTypes == ASSUME WallAssumption, TypeOK, Observe PROVE TypeOK'
<1>1. PICK w \in Wall, v \in Wall, kinds \in Seq(Kinds) :
        w = scan.wall /\ Emit(w, kinds) /\ active' = [active EXCEPT ![w.side] = v]
  BY Observed
<1>2. scan.stage # "idle" /\ scan' = NextSide /\ scan.book.at \in Times
  BY Scanning DEF Observe
<1>3. journal' \in [Names -> Seq(Event)] /\ stream' \subseteq Event
  BY <1>1, <1>2, EmitTypes
<1>4. active' \in [Sides -> Wall \cup {None}]
  BY <1>1 DEF TypeOK
<1>5. \/ scan' = Idle
      \/ scan' \in [stage : {"look", "act", "drop"}, book : Book, side : Sides,
                    wall : Wall \cup {None}]
  BY <1>2, NextSideType
<1> QED BY <1>3, <1>4, <1>5 DEF Observe, TypeOK

LEMMA OneKind ==
  ASSUME NEW kind \in Kinds
  PROVE  <<kind>> \in Seq(Kinds) /\ Len(<<kind>>) = 1 /\ <<kind>>[1] = kind
  OBVIOUS

LEMMA EndTypes == ASSUME TypeOK, End PROVE TypeOK'
<1>1. /\ scan.stage = "act" /\ scan.wall # None /\ Emit(scan.wall, <<"ended">>)
      /\ active' = [active EXCEPT ![scan.side] = [scan.wall EXCEPT !.seq = @ + 1]]
      /\ scan' = [scan EXCEPT !.stage = "drop"]
  BY DEF End
<1>2. /\ scan.wall \in Wall /\ scan.book.at \in Times /\ scan.side \in Sides
      /\ scan \in [stage : {"look", "act", "drop"}, book : Book, side : Sides,
                   wall : Wall \cup {None}]
  BY <1>1, Meeting, Scanning
<1>3. journal' \in [Names -> Seq(Event)] /\ stream' \subseteq Event
  <2>1. <<"ended">> \in Seq(Kinds)
    BY OneKind DEF Kinds
  <2> QED BY <1>1, <1>2, <2>1, EmitTypes
<1>4. [scan.wall EXCEPT !.seq = @ + 1] \in Wall
  <2> DEFINE w == scan.wall
  <2>1. w \in Wall /\ w.seq + 1 \in Nat
    BY <1>2 DEF Wall
  <2> HIDE DEF w
  <2>2. [w EXCEPT !.seq = @ + 1] \in Wall
    BY <2>1 DEF Wall
  <2> QED BY <2>2 DEF w
<1>5. active' \in [Sides -> Wall \cup {None}]
  BY <1>1, <1>4 DEF TypeOK
<1>6. scan' \in [stage : {"look", "act", "drop"}, book : Book, side : Sides,
                 wall : Wall \cup {None}]
  BY <1>1, <1>2
<1> QED BY <1>3, <1>5, <1>6 DEF End, TypeOK

LEMMA VacantTypes == ASSUME TypeOK, Vacant PROVE TypeOK'
<1>1. scan.stage # "idle" /\ scan' = NextSide
  BY DEF Vacant, Free
<1>2. active' \in [Sides -> Wall \cup {None}]
  BY DEF Vacant, TypeOK
<1> QED BY <1>1, <1>2, NextSideType DEF Vacant, TypeOK

\* What Fresh does: w is the wall as it is emitted, v as it is saved.
LEMMA Found ==
  ASSUME TypeOK, Fresh
  PROVE  \E w \in Wall, v \in Wall :
           /\ w.n = Len(born) + 1 /\ w.side = scan.side /\ w.seq = 0
           /\ Emit(w, <<"born">>)
           /\ v.n = w.n /\ v.side = w.side /\ v.name = w.name /\ v.seq = 1
           /\ active' = [active EXCEPT ![w.side] = v]
           /\ born' = Append(born, [side |-> w.side, name |-> w.name])
<1>1. scan.stage # "idle" /\ scan.book.at \in Times /\ scan.side \in Sides
      /\ scan.book \in Book
  BY Scanning DEF Fresh, Free
<1>2. PICK p \in scan.book.levels[scan.side] :
        LET w == [n |-> Len(born) + 1, side |-> scan.side, name |-> Name(scan.book.at),
                  price |-> p, since |-> scan.book.at, seq |-> 0, matured |-> FALSE]
        IN /\ Emit(w, <<"born">>)
           /\ active' = [active EXCEPT ![w.side] = [w EXCEPT !.seq = 1]]
           /\ born' = Append(born, [side |-> w.side, name |-> w.name])
  BY DEF Fresh
<1>3. p \in Prices /\ Name(scan.book.at) \in Names /\ Len(born) + 1 \in Nat \ {0}
  BY <1>1, Named, LenProperties DEF Book, TypeOK
<1> DEFINE w == [n |-> Len(born) + 1, side |-> scan.side, name |-> Name(scan.book.at),
                 price |-> p, since |-> scan.book.at, seq |-> 0, matured |-> FALSE]
           v == [w EXCEPT !.seq = 1]
<1>4. w \in Wall /\ v \in Wall
  BY <1>1, <1>3 DEF Wall
<1>5. v.n = w.n /\ v.side = w.side /\ v.name = w.name /\ v.seq = 1
  OBVIOUS
<1>6. w.n = Len(born) + 1 /\ w.side = scan.side /\ w.seq = 0
  OBVIOUS
<1>7. /\ Emit(w, <<"born">>) /\ active' = [active EXCEPT ![w.side] = v]
      /\ born' = Append(born, [side |-> w.side, name |-> w.name])
  BY <1>2
<1> HIDE DEF w, v
<1> QED BY <1>4, <1>5, <1>6, <1>7

LEMMA FreshTypes == ASSUME TypeOK, Fresh PROVE TypeOK'
<1>1. PICK w \in Wall, v \in Wall :
        /\ Emit(w, <<"born">>)
        /\ active' = [active EXCEPT ![w.side] = v]
        /\ born' = Append(born, [side |-> w.side, name |-> w.name])
  BY Found
<1>2. scan.stage # "idle" /\ scan' = NextSide /\ scan.book.at \in Times
  BY Scanning DEF Fresh, Free
<1>3. journal' \in [Names -> Seq(Event)] /\ stream' \subseteq Event
  <2>1. <<"born">> \in Seq(Kinds)
    BY OneKind DEF Kinds
  <2> QED BY <1>1, <1>2, <2>1, EmitTypes
<1>4. active' \in [Sides -> Wall \cup {None}]
  BY <1>1 DEF TypeOK
<1>5. born' \in Seq([side : Sides, name : Names])
  <2>1. [side |-> w.side, name |-> w.name] \in [side : Sides, name : Names]
    BY DEF Wall
  <2> QED BY <1>1, <2>1, AppendProperties DEF TypeOK
<1>6. \/ scan' = Idle
      \/ scan' \in [stage : {"look", "act", "drop"}, book : Book, side : Sides,
                    wall : Wall \cup {None}]
  BY <1>2, NextSideType
<1> QED BY <1>3, <1>4, <1>5, <1>6 DEF Fresh, TypeOK

LEMMA HandleTypes == ASSUME WallAssumption, TypeOK, Handle PROVE TypeOK'
<1>1. ASSUME NEW e \in stream, Receive(e) PROVE TypeOK'
  <2>1. task' = [stage |-> "got", event |-> e, events |-> journal[e.name], wall |-> None]
    BY <1>1 DEF Receive
  <2>2. e \in Event /\ journal[e.name] \in Seq(Event)
    BY DEF TypeOK, Event
  <2>3. task' \in [stage : {"got", "judging"}, event : Event, events : Seq(Event),
                   wall : Wall \cup {None}]
    BY <2>1, <2>2
  <2> QED BY <1>1, <2>3 DEF Receive, TypeOK
<1>2. CASE Evaluate
  <2>1. /\ task.stage # "idle" /\ task.event \in Event
        /\ task \in [stage : {"got", "judging"}, event : Event, events : Seq(Event),
                     wall : Wall \cup {None}]
    BY <1>2, Handling DEF Evaluate, Got
  <2> DEFINE w == active[task.event.side]
  <2>2. w \in Wall \cup {None}
    BY <2>1 DEF TypeOK, Event
  <2>3. CASE cool' = cool /\ task' = Idle
    BY <1>2, <2>3 DEF Evaluate, TypeOK
  <2>4. CASE /\ Eligible(w) /\ cool' = [cool EXCEPT ![w.name] = now + Cooldown]
             /\ task' = [task EXCEPT !.stage = "judging", !.wall = w]
    <3>1. now + Cooldown \in Nat
      BY DEF WallAssumption, TypeOK, Times
    <3>2. cool' \in [Names -> Nat]
      BY <2>4, <3>1 DEF TypeOK
    <3>3. task' \in [stage : {"got", "judging"}, event : Event, events : Seq(Event),
                     wall : Wall \cup {None}]
      <4> HIDE DEF w
      <4> QED BY <2>1, <2>2, <2>4
    <3> QED BY <1>2, <3>2, <3>3 DEF Evaluate, TypeOK
  <2> QED BY <1>2, <2>3, <2>4 DEF Evaluate
<1>3. CASE Judged
  BY <1>3 DEF Judged, TypeOK
<1>4. CASE Finish
  <2>1. task.event \in Event /\ task.events \in Seq(Event)
    BY <1>4, Handling, WallIsWall DEF Finish, Got
  <2>2. cool' \in [Names -> Nat] /\ journal' \in [Names -> Seq(Event)]
    <3>1. <<>> \in Seq(Event) /\ journal' = [journal EXCEPT ![task.event.name] = <<>>]
      BY <1>4, EmptySeq DEF Finish
    <3>2. cool' \in [Names -> Nat]
      BY <1>4 DEF Finish, TypeOK
    <3> QED BY <3>1, <3>2 DEF TypeOK
  <2>3. rows' \in [Names -> Seq(Event)]
    BY <1>4, <2>1 DEF Finish, TypeOK
  <2>4. lost' \subseteq Names
    BY <1>4, <2>1 DEF Finish, TypeOK, Event
  <2> QED BY <1>4, <2>2, <2>3, <2>4 DEF Finish, TypeOK
<1> QED BY <1>1, <1>2, <1>3, <1>4 DEF Handle

LEMMA TypeStep == ASSUME WallAssumption, TypeOK, [Next]_vars PROVE TypeOK'
<1>1. CASE UNCHANGED vars
  BY <1>1 DEF vars, TypeOK
<1> QED BY <1>1, PublishTypes, RotateTypes, TakeTypes, LookTypes, ObserveTypes, EndTypes,
           VacantTypes, FreshTypes, HandleTypes DEF Next, Scan

-----------------------------------------------------------------------------
(* The steps that append nothing to a journal                              *)

Rest == RefsOK /\ OpenOK /\ EndOK /\ RowsOK

\* The variables the invariant is about.
Subject == <<scan, active, journal, stream, task, rows, born>>

LEMMA SameRest == ASSUME Rest, UNCHANGED Subject PROVE Rest'
  BY DEF Rest, RefsOK, OpenOK, EndOK, Ending, RowsOK, Subject

LEMMA RotateOutRest == ASSUME IInv, RotateOut PROVE Rest'
<1>1. /\ active' = [s \in Sides |-> None]
      /\ UNCHANGED <<scan, journal, stream, task, rows, born>>
  BY DEF RotateOut
<1>2. RefsOK'
  BY <1>1 DEF IInv, RefsOK
<1>3. OpenOK'
  <2>1. scan.stage = "act" => scan.side \in Sides
    BY Scanning DEF IInv
  <2> QED BY <1>1, <2>1 DEF IInv, OpenOK
<1>4. EndOK' /\ RowsOK'
  BY <1>1 DEF IInv, EndOK, Ending, RowsOK
<1> QED BY <1>2, <1>3, <1>4 DEF Rest

LEMMA TakeRest == ASSUME IInv, NEW b \in depths, Take(b) PROVE Rest'
<1>1. scan.stage = "idle" /\ UNCHANGED <<active, journal, stream, task, rows, born>>
  BY WallIsWall DEF Take
<1>2. CASE scan' = [stage |-> "look", book |-> b, side |-> First, wall |-> None]
  <2>1. scan'.stage = "look" /\ scan'.wall = None
    BY <1>2
  <2>2. RefsOK'
    BY <1>1, <2>1 DEF IInv, RefsOK
  <2>3. OpenOK'
    BY <1>1, <2>1 DEF IInv, OpenOK
  <2>4. EndOK' /\ RowsOK'
    BY <1>1 DEF IInv, EndOK, Ending, RowsOK
  <2> QED BY <2>2, <2>3, <2>4 DEF Rest
<1>3. CASE scan' = scan
  BY <1>1, <1>3, SameRest DEF Subject, IInv, Rest
<1> QED BY <1>2, <1>3 DEF Take

LEMMA LookRest == ASSUME IInv, Look PROVE Rest'
<1>1. /\ scan.stage = "look" /\ UNCHANGED <<active, journal, stream, task, rows, born>>
      /\ scan' = [scan EXCEPT !.stage = "act", !.wall = active[scan.side]]
  BY DEF Look
<1>2. scan'.stage = "act" /\ scan'.wall = active[scan.side] /\ scan'.side = scan.side
      /\ scan.side \in Sides
  BY <1>1, Scanning DEF IInv
<1>3. RefsOK'
  BY <1>1, <1>2 DEF IInv, RefsOK
<1>4. OpenOK'
  BY <1>1, <1>2 DEF IInv, OpenOK
<1>5. EndOK' /\ RowsOK'
  BY <1>1 DEF IInv, EndOK, Ending, RowsOK
<1> QED BY <1>3, <1>4, <1>5 DEF Rest

\* What the next side knows of a wall: nothing.
LEMMA NextSideIsBlank ==
  ASSUME TypeOK, scan.stage # "idle", scan' = NextSide
  PROVE  scan'.stage \in {"look", "idle"} /\ (scan'.stage # "idle" => scan'.wall = None)
  BY NextSideTyped, WallIsWall

LEMMA VacantRest == ASSUME IInv, Vacant PROVE Rest'
<1>1. /\ scan.stage \in {"act", "drop"} /\ UNCHANGED <<journal, stream, task, rows, born>>
      /\ scan' = NextSide /\ active' = [active EXCEPT ![scan.side] = None]
  BY DEF Vacant, Free
<1>2. /\ scan'.stage \in {"look", "idle"} /\ (scan'.stage # "idle" => scan'.wall = None)
      /\ scan.side \in Sides
  BY <1>1, NextSideIsBlank, Scanning DEF IInv
<1>3. \A s \in Sides : active'[s] = IF s = scan.side THEN None ELSE active[s]
  BY <1>1 DEF IInv, TypeOK
<1>4. RefsOK'
  BY <1>1, <1>2, <1>3 DEF IInv, RefsOK
<1>5. OpenOK'
  BY <1>1, <1>2, <1>3 DEF IInv, OpenOK
<1>6. EndOK' /\ RowsOK'
  BY <1>1 DEF IInv, EndOK, Ending, RowsOK
<1> QED BY <1>4, <1>5, <1>6 DEF Rest

-----------------------------------------------------------------------------
(* The goroutine of the events                                             *)

\* A wall that has ended is not up to date.
LEMMA NotOpen ==
  ASSUME NEW j, NEW e, NEW w, IsEnd(j, e), Open(j, w), e.name = w.name
  PROVE  FALSE
  BY DEF IsEnd, Open

LEMMA WholeFromEnd ==
  ASSUME NEW j, NEW e, IsEnd(j, e), j[e.name] \in Seq(Event)
  PROVE  Whole(j[e.name])
<1> DEFINE es == j[e.name]
<1>1. Len(es) \in Nat /\ DOMAIN es = 1 .. Len(es)
  BY LenProperties
<1>2. /\ Len(es) >= 1 /\ es[1].kind = "born" /\ es[Len(es)].kind = "ended"
      /\ \A k \in 1 .. Len(es) : es[k].n = e.n /\ es[k].seq = k
  BY DEF IsEnd, Life
<1>3. es # <<>> /\ 1 \in 1 .. Len(es)
  <2> HIDE DEF es
  <2> QED BY <1>1, <1>2
<1> HIDE DEF es
<1>4. Whole(es)
  BY <1>1, <1>2, <1>3 DEF Whole
<1> QED BY <1>4 DEF es

\* What shares the name of a wall that shares it with no other is of that wall.
LEMMA SameName ==
  ASSUME NEW b, NEW r, NEW q, Refers(b, r), Refers(b, q), One(b, r.n), r.name = q.name
  PROVE  q.n = r.n
  BY DEF One, Refers

LEMMA ReceiveRest == ASSUME IInv, NEW e \in stream, Receive(e) PROVE Rest'
<1>1. /\ task' = [stage |-> "got", event |-> e, events |-> journal[e.name], wall |-> None]
      /\ stream' = stream \ {e} /\ UNCHANGED <<scan, active, journal, rows, born>>
  BY DEF Receive
<1>2. e \in Event /\ e.name \in Names /\ journal[e.name] \in Seq(Event)
  BY DEF IInv, TypeOK, Event
<1>3. task'.event = e /\ task'.events = journal[e.name] /\ task'.stage = "got"
  BY <1>1
<1>4. RefsOK'
  BY <1>1, <1>2, <1>3 DEF IInv, RefsOK
<1>5. OpenOK' /\ RowsOK'
  BY <1>1 DEF IInv, OpenOK, RowsOK
<1>6. EndOK'
  <2>1. \A d \in stream' : d.kind = "ended" /\ One(born', d.n) => IsEnd(journal', d)
    BY <1>1 DEF IInv, EndOK
  <2>2. ASSUME e.kind = "ended", One(born, e.n)
        PROVE  IsEnd(journal, e) /\ Whole(journal[e.name])
    BY <1>2, <2>2, WholeFromEnd DEF IInv, EndOK
  <2> QED BY <1>1, <1>3, <2>1, <2>2 DEF EndOK, Ending
<1> QED BY <1>4, <1>5, <1>6 DEF Rest

LEMMA EvaluateRest == ASSUME IInv, Evaluate PROVE Rest'
<1>1. /\ task.stage = "got" /\ task.event.kind \in {"matured", "touched"}
      /\ UNCHANGED <<scan, active, journal, stream, rows, born>>
  BY DEF Evaluate, Got
<1>2. /\ task'.stage # "idle" => task'.event = task.event /\ task'.events = task.events
      /\ task'.stage # "got"
  <2>1. CASE task' = Idle
    BY <2>1 DEF Idle
  <2>2. CASE task' = [task EXCEPT !.stage = "judging", !.wall = active[task.event.side]]
    BY <1>1, <2>2, Handling DEF IInv
  <2> QED BY <2>1, <2>2 DEF Evaluate
<1>3. RefsOK'
  BY <1>1, <1>2 DEF IInv, RefsOK
<1>4. OpenOK' /\ RowsOK'
  BY <1>1 DEF IInv, OpenOK, RowsOK
<1>5. EndOK'
  BY <1>1, <1>2 DEF IInv, EndOK, Ending
<1> QED BY <1>3, <1>4, <1>5 DEF Rest

LEMMA JudgedRest == ASSUME IInv, Judged PROVE Rest'
<1>1. task'.stage = "idle" /\ UNCHANGED <<scan, active, journal, stream, rows, born>>
  BY DEF Judged, Idle
<1>2. RefsOK' /\ OpenOK' /\ RowsOK' /\ EndOK'
  BY <1>1 DEF IInv, RefsOK, OpenOK, RowsOK, EndOK, Ending
<1> QED BY <1>2 DEF Rest

LEMMA BornNamed == ASSUME TypeOK, NEW n \in DOMAIN born PROVE born[n].name \in Names
<1>1. born \in Seq([side : Sides, name : Names])
  BY DEF TypeOK
<1>2. n \in 1 .. Len(born)
  BY <1>1, LenProperties
<1>3. born[n] \in [side : Sides, name : Names]
  BY <1>1, <1>2, ElementOfSeq
<1> QED BY <1>3

LEMMA FinishRest == ASSUME IInv, Finish PROVE Rest'
<1> DEFINE e == task.event
<1>1. /\ task.stage = "got" /\ e.kind = "ended" /\ task'.stage = "idle"
      /\ UNCHANGED <<scan, active, stream, born>>
      /\ journal' = [journal EXCEPT ![e.name] = <<>>]
      /\ rows' = [rows EXCEPT ![e.name] = task.events] \/ rows' = rows
  BY DEF Finish, Got, Idle
<1>2. e \in Event /\ e.name \in Names
  BY <1>1, Handling, WallIsWall DEF IInv, Event
<1>3. Refers(born, e) /\ AllRefer(born, task.events, e.name)
  BY <1>1 DEF IInv, RefsOK
<1>4. \A i \in Names : journal'[i] = IF i = e.name THEN <<>> ELSE journal[i]
  BY <1>1 DEF IInv, TypeOK
<1>5. \A i \in Names : rows'[i] = rows[i] \/ (i = e.name /\ rows'[i] = task.events)
  BY <1>1 DEF IInv, TypeOK
<1>6. One(born, e.n) => IsEnd(journal, e) /\ e \notin stream /\ Whole(task.events)
  BY <1>1 DEF IInv, EndOK, Ending
<1> HIDE DEF e
<1>7. RefsOK'
  <2>1. \A i : AllRefer(born, <<>>, i)
    BY DEF AllRefer
  <2>2. \A i \in Names : AllRefer(born', journal'[i], i) /\ AllRefer(born', rows'[i], i)
    BY <1>1, <1>3, <1>4, <1>5, <2>1 DEF IInv, RefsOK
  <2> QED BY <1>1, <2>2 DEF IInv, RefsOK
<1>8. ASSUME NEW w, w.name \in Names, Refers(born, w), One(born, w.n), Open(journal, w)
      PROVE  Open(journal', w)
  <2>1. w.name # e.name
    <3> SUFFICES ASSUME w.name = e.name PROVE FALSE
      OBVIOUS
    <3>1. e.n = w.n
      BY <1>3, <1>8, SameName
    <3> QED BY <1>6, <1>8, <3>1, NotOpen
  <2> QED BY <1>4, <1>8, <2>1 DEF Open
<1>9. OpenOK'
  <2>1. ASSUME NEW s \in Sides, active[s] # None, One(born, active[s].n),
               ~ (scan.stage = "drop" /\ scan.side = s)
        PROVE  Open(journal', active[s])
    <3>1. Open(journal, active[s]) /\ Refers(born, active[s])
      BY <2>1 DEF IInv, OpenOK, RefsOK
    <3>2. active[s].name \in Names
      BY <2>1 DEF IInv, TypeOK, Wall
    <3> QED BY <1>8, <2>1, <3>1, <3>2
  <2>2. ASSUME scan.stage = "act", scan.wall # None, One(born, scan.wall.n)
        PROVE  Open(journal', scan.wall)
    <3>1. Open(journal, scan.wall) /\ Refers(born, scan.wall)
      BY <2>2 DEF IInv, OpenOK, RefsOK
    <3>2. scan.wall.name \in Names
      BY <2>2, Meeting DEF IInv, Wall
    <3> QED BY <1>8, <2>2, <3>1, <3>2
  <2> QED BY <1>1, <2>1, <2>2 DEF IInv, OpenOK
<1>10. EndOK'
  <2>1. ASSUME NEW d \in stream, d.kind = "ended", One(born, d.n)
        PROVE  IsEnd(journal', d)
    <3>1. IsEnd(journal, d) /\ Refers(born, d) /\ d.name \in Names
      BY <2>1 DEF IInv, EndOK, RefsOK, TypeOK, Event
    <3>2. d.name # e.name
      <4> SUFFICES ASSUME d.name = e.name PROVE FALSE
        OBVIOUS
      <4>1. e.n = d.n
        BY <1>3, <2>1, <3>1, SameName
      <4>2. IsEnd(journal, e) /\ e \notin stream
        BY <1>6, <2>1, <4>1
      <4>3. d = e
        BY <3>1, <4>2 DEF IsEnd
      <4> QED BY <2>1, <4>2, <4>3
    <3> QED BY <1>4, <3>1, <3>2 DEF IsEnd
  <2> QED BY <1>1, <2>1 DEF EndOK, Ending
<1>11. RowsOK'
  <2> SUFFICES ASSUME NEW n \in DOMAIN born, One(born, n), rows'[born[n].name] # <<>>
               PROVE  Whole(rows'[born[n].name])
    BY <1>1 DEF RowsOK
  <2>1. born[n].name \in Names
    BY BornNamed DEF IInv
  <2>2. CASE rows'[born[n].name] = rows[born[n].name]
    BY <2>2 DEF IInv, RowsOK
  <2>3. CASE born[n].name = e.name /\ rows'[born[n].name] = task.events
    <3>1. e.n = n
      BY <1>3, <2>3 DEF One, Refers
    <3> QED BY <1>6, <2>3, <3>1
  <2> QED BY <1>5, <2>1, <2>2, <2>3
<1> QED BY <1>7, <1>9, <1>10, <1>11 DEF Rest

-----------------------------------------------------------------------------
(* The steps that append to a journal                                      *)

\* The walls that ended stay so while another one's journal is appended to.
LEMMA EndsStay ==
  ASSUME IInv, NEW w \in Wall, NEW kinds \in Seq(Kinds), scan.book.at \in Times,
         Emit(w, kinds), Extends(born, born'), task' = task,
         \A e : Refers(born, e) /\ One(born', e.n) /\ IsEnd(journal, e) => e.name # w.name
  PROVE  /\ \A e \in stream : e.kind = "ended" /\ One(born', e.n) => IsEnd(journal', e)
         /\ Ending /\ One(born', task.event.n) =>
              IsEnd(journal', task.event) /\ task.event \notin stream' /\ Whole(task.events)
<1>1. ASSUME NEW e, Refers(born, e), One(born', e.n), IsEnd(journal, e), e.name \in Names
      PROVE  IsEnd(journal', e) /\ e.name # w.name
  BY <1>1, Emitted DEF IInv, IsEnd
<1>2. ASSUME NEW e \in stream, e.kind = "ended", One(born', e.n)
      PROVE  IsEnd(journal', e)
  <2>1. Refers(born, e) /\ e.name \in Names
    BY DEF IInv, RefsOK, TypeOK, Event
  <2>2. One(born, e.n)
    BY <1>2, <2>1, OneShrinks DEF Refers
  <2>3. IsEnd(journal, e)
    BY <1>2, <2>2 DEF IInv, EndOK
  <2> QED BY <1>1, <1>2, <2>1, <2>3
<1>3. ASSUME Ending, One(born', task.event.n)
      PROVE  IsEnd(journal', task.event) /\ task.event \notin stream' /\ Whole(task.events)
  <2> DEFINE e == task.event
  <2>1. e \in Event /\ Refers(born, e)
    BY <1>3, Handling DEF IInv, RefsOK, Ending
  <2>2. One(born, e.n)
    BY <1>3, <2>1, OneShrinks DEF Refers
  <2>3. IsEnd(journal, e) /\ e \notin stream /\ Whole(task.events)
    BY <1>3, <2>2 DEF IInv, EndOK
  <2>4. IsEnd(journal', e) /\ e.name # w.name
    <3>1. e.name \in Names
      BY <2>1 DEF Event
    <3> HIDE DEF e
    <3> QED BY <1>1, <1>3, <2>1, <2>3, <3>1 DEF e
  <2>5. e \notin stream'
    <3>1. \A k \in 1 .. Len(kinds) : EventsOf(w, kinds)[k].name = w.name
      BY EventFields
    <3>2. \A d \in stream' : d \in stream \/ \E k \in 1 .. Len(kinds) : d = EventsOf(w, kinds)[k]
      BY Emitted DEF IInv
    <3> HIDE DEF e
    <3> QED BY <2>3, <2>4, <3>1, <3>2
  <2> QED BY <2>3, <2>4, <2>5
<1> QED BY <1>2, <1>3

\* The wall met is up to date, so nothing that ended has its name.
LEMMA MetIsApart ==
  ASSUME IInv, scan.stage = "act", scan.wall # None
  PROVE  /\ Refers(born, scan.wall) /\ scan.wall.side = scan.side
         /\ One(born, scan.wall.n) => Open(journal, scan.wall)
         /\ \A e : Refers(born, e) /\ One(born, e.n) /\ IsEnd(journal, e) => e.name # scan.wall.name
<1>1. /\ Refers(born, scan.wall) /\ scan.wall.side = scan.side
      /\ One(born, scan.wall.n) => Open(journal, scan.wall)
  BY DEF IInv, RefsOK, OpenOK
<1>2. ASSUME NEW e, Refers(born, e), One(born, e.n), IsEnd(journal, e), e.name = scan.wall.name
      PROVE  FALSE
  <2>1. scan.wall.n = e.n
    BY <1>1, <1>2, SameName
  <2> QED BY <1>1, <1>2, <2>1, NotOpen
<1> QED BY <1>1, <1>2

\* The wall of another side is as up to date as it was.
LEMMA OtherSide ==
  ASSUME IInv, NEW w \in Wall, NEW kinds \in Seq(Kinds), scan.book.at \in Times,
         Emit(w, kinds), Refers(born', w), Extends(born, born'),
         NEW s \in Sides, s # w.side, active[s] # None, One(born', active[s].n),
         ~ (scan.stage = "drop" /\ scan.side = s)
  PROVE  Open(journal', active[s])
<1> DEFINE v == active[s]
<1>1. v \in Wall /\ v.name \in Names /\ Refers(born, v) /\ v.side = s
  BY DEF IInv, TypeOK, RefsOK, Wall
<1>2. One(born, v.n) /\ Refers(born', v)
  BY <1>1, OneShrinks, RefersKept DEF Refers
<1>3. Open(journal, v)
  BY <1>2 DEF IInv, OpenOK
<1> HIDE DEF v
<1>4. v.name # w.name
  <2> SUFFICES ASSUME v.name = w.name PROVE FALSE
    OBVIOUS
  <2>1. w.n = v.n
    BY <1>2, SameName DEF v
  <2> QED BY <1>1, <1>2, <2>1 DEF Refers
<1>5. journal'[v.name] = journal[v.name]
  BY <1>1, <1>4, Emitted DEF IInv
<1> QED BY <1>3, <1>5 DEF Open, v

LEMMA ObserveRest == ASSUME WallAssumption, IInv, Observe PROVE Rest'
<1>1. PICK w \in Wall, v \in Wall, kinds \in Seq(Kinds) :
        /\ w = scan.wall /\ Emit(w, kinds)
        /\ \A k \in 1 .. Len(kinds) : kinds[k] \in {"matured"} \cup Notes
        /\ v.n = w.n /\ v.side = w.side /\ v.name = w.name /\ v.seq = w.seq + Len(kinds)
        /\ active' = [active EXCEPT ![w.side] = v]
  BY Observed DEF IInv
<1>2. /\ scan.stage = "act" /\ scan.wall # None /\ scan' = NextSide
      /\ UNCHANGED <<task, rows, born>>
  BY DEF Observe, Stands
<1>3. /\ scan.book.at \in Times
      /\ scan'.stage \in {"look", "idle"} /\ (scan'.stage # "idle" => scan'.wall = None)
  BY <1>2, Meeting, NextSideIsBlank DEF IInv
<1>4. /\ Refers(born, w) /\ w.side = scan.side
      /\ One(born, w.n) => Open(journal, w)
      /\ \A e : Refers(born, e) /\ One(born, e.n) /\ IsEnd(journal, e) => e.name # w.name
  BY <1>1, <1>2, MetIsApart
<1>5. \A s \in Sides : active'[s] = IF s = w.side THEN v ELSE active[s]
  BY <1>1 DEF IInv, TypeOK
<1>6. RefsOK'
  <2>1. Extends(born, born')
    BY <1>2 DEF Extends
  <2>2. /\ \A i \in Names : AllRefer(born, journal'[i], i)
        /\ \A e \in stream' : Refers(born, e)
    BY <1>1, <1>2, <1>3, <1>4, <2>1, EmittedRefers DEF IInv
  <2>3. Refers(born, v)
    BY <1>1, <1>4 DEF Refers
  <2> QED BY <1>1, <1>2, <1>3, <1>5, <2>2, <2>3 DEF IInv, RefsOK
<1>7. One(born, w.n) => Open(journal', v)
  <2> SUFFICES ASSUME One(born, w.n) PROVE Open(journal', v)
    OBVIOUS
  <2>1. Life(journal[w.name], w.n) /\ Len(journal[w.name]) = w.seq
        /\ journal[w.name][w.seq].kind # "ended"
    BY <1>4 DEF Open
  <2>2. /\ Life(journal'[w.name], w.n)
        /\ Len(journal'[w.name]) = w.seq + Len(kinds)
        /\ Len(kinds) = 0 => journal'[w.name][w.seq + Len(kinds)] = journal[w.name][w.seq]
        /\ Len(kinds) >= 1 =>
             journal'[w.name][w.seq + Len(kinds)] = EventsOf(w, kinds)[Len(kinds)]
    BY <1>1, <1>3, <2>1, LifeGoesOn DEF IInv
  <2>3. Len(kinds) \in Nat
    BY LenProperties
  <2>4. CASE Len(kinds) = 0
    BY <1>1, <2>1, <2>2, <2>4 DEF Open
  <2>5. CASE Len(kinds) >= 1
    <3>1. Len(kinds) \in 1 .. Len(kinds)
      BY <2>3, <2>5
    <3>2. EventsOf(w, kinds)[Len(kinds)].kind # "ended"
      BY <1>1, <1>3, <3>1, EventFields DEF Notes
    <3> QED BY <1>1, <2>2, <2>5, <3>2 DEF Open
  <2> QED BY <2>3, <2>4, <2>5
<1>8. OpenOK'
  <2>1. ASSUME NEW s \in Sides, s # w.side, active[s] # None, One(born, active[s].n)
        PROVE  Open(journal', active[s])
    <3>1. Extends(born, born') /\ Refers(born', w) /\ One(born', active[s].n)
      BY <1>2, <1>4, <2>1 DEF Extends
    <3> QED BY <1>1, <1>2, <1>3, <2>1, <3>1, OtherSide
  <2> QED BY <1>1, <1>2, <1>3, <1>5, <1>7, <2>1 DEF OpenOK
<1>9. EndOK'
  <2>1. Extends(born, born') /\ task' = task
    BY <1>2 DEF Extends
  <2>2. /\ \A e \in stream : e.kind = "ended" /\ One(born', e.n) => IsEnd(journal', e)
        /\ Ending /\ One(born', task.event.n) =>
             IsEnd(journal', task.event) /\ task.event \notin stream' /\ Whole(task.events)
    BY <1>1, <1>2, <1>3, <1>4, <2>1, EndsStay
  <2>3. \A k \in 1 .. Len(kinds) : EventsOf(w, kinds)[k].kind # "ended"
    BY <1>1, <1>3, EventFields DEF Notes
  <2>4. \A d \in stream' : d \in stream \/ \E k \in 1 .. Len(kinds) : d = EventsOf(w, kinds)[k]
    BY <1>1, <1>3, Emitted DEF IInv
  <2> QED BY <2>1, <2>2, <2>3, <2>4 DEF EndOK, Ending
<1>10. RowsOK'
  BY <1>2 DEF IInv, RowsOK
<1> QED BY <1>6, <1>8, <1>9, <1>10 DEF Rest

LEMMA EndRest == ASSUME IInv, End PROVE Rest'
<1> DEFINE w == scan.wall
           kinds == <<"ended">>
           v == [w EXCEPT !.seq = @ + 1]
<1>1. /\ scan.stage = "act" /\ w # None /\ Emit(w, kinds)
      /\ active' = [active EXCEPT ![scan.side] = v]
      /\ scan' = [scan EXCEPT !.stage = "drop"]
      /\ UNCHANGED <<task, rows, born>>
  BY DEF End
<1>2. /\ w \in Wall /\ scan.book.at \in Times /\ scan.side \in Sides
      /\ kinds \in Seq(Kinds) /\ Len(kinds) = 1 /\ kinds[1] = "ended"
  BY <1>1, Meeting, OneKind DEF IInv, Kinds
<1>3. /\ Refers(born, w) /\ w.side = scan.side
      /\ One(born, w.n) => Open(journal, w)
      /\ \A e : Refers(born, e) /\ One(born, e.n) /\ IsEnd(journal, e) => e.name # w.name
  BY <1>1, MetIsApart
<1>4. v.n = w.n /\ v.side = w.side /\ v.name = w.name
  <2>1. w \in Wall
    BY <1>2
  <2> HIDE DEF w
  <2> QED BY <2>1 DEF Wall
<1>5. scan'.stage = "drop" /\ scan'.side = scan.side /\ scan'.wall = w
  <2>1. scan \in [stage : {"look", "act", "drop"}, book : Book, side : Sides,
                  wall : Wall \cup {None}]
    BY <1>1, Scanning DEF IInv
  <2> QED BY <1>1, <2>1
<1> HIDE DEF w, kinds, v
<1>6. \A s \in Sides : active'[s] = IF s = scan.side THEN v ELSE active[s]
  BY <1>1 DEF IInv, TypeOK
<1>7. Extends(born, born') /\ Refers(born', w)
  BY <1>1, <1>3 DEF Extends
<1>8. RefsOK'
  <2>1. /\ \A i \in Names : AllRefer(born', journal'[i], i)
        /\ \A e \in stream' : Refers(born', e)
    BY <1>1, <1>2, <1>7, EmittedRefers DEF IInv
  <2>2. Refers(born, v)
    BY <1>3, <1>4 DEF Refers
  <2> QED BY <1>1, <1>3, <1>4, <1>5, <1>6, <2>1, <2>2 DEF IInv, RefsOK
<1>9. OpenOK'
  <2>1. ASSUME NEW s \in Sides, s # w.side, active[s] # None, One(born, active[s].n)
        PROVE  Open(journal', active[s])
    <3>1. One(born', active[s].n)
      BY <1>1, <2>1
    <3> QED BY <1>1, <1>2, <1>7, <2>1, <3>1, OtherSide
  <2> QED BY <1>1, <1>3, <1>5, <1>6, <2>1 DEF OpenOK
<1>10. ASSUME One(born, w.n) PROVE IsEnd(journal', EventsOf(w, kinds)[1])
  <2>1. Life(journal[w.name], w.n) /\ Len(journal[w.name]) = w.seq
    BY <1>3, <1>10 DEF Open
  <2>2. /\ Life(journal'[w.name], w.n)
        /\ Len(journal'[w.name]) = w.seq + Len(kinds)
        /\ journal'[w.name][w.seq + Len(kinds)] = EventsOf(w, kinds)[Len(kinds)]
    <3>1. Len(kinds) >= 1
      BY <1>2
    <3> QED BY <1>1, <1>2, <2>1, <3>1, LifeGoesOn DEF IInv
  <2>3. LET e == EventsOf(w, kinds)[1] IN e.n = w.n /\ e.name = w.name /\ e.kind = "ended"
    <3>1. 1 \in 1 .. Len(kinds)
      BY <1>2
    <3> QED BY <1>2, <3>1, EventFields
  <2> QED BY <1>2, <2>2, <2>3 DEF IsEnd
<1>11. EndOK'
  <2>1. /\ \A e \in stream : e.kind = "ended" /\ One(born', e.n) => IsEnd(journal', e)
        /\ Ending /\ One(born', task.event.n) =>
             IsEnd(journal', task.event) /\ task.event \notin stream' /\ Whole(task.events)
    <3>1. \A e : Refers(born, e) /\ One(born', e.n) /\ IsEnd(journal, e) => e.name # w.name
      BY <1>1, <1>3
    <3> QED BY <1>1, <1>2, <1>7, <3>1, EndsStay
  <2>2. \A d \in stream' : d \in stream \/ d = EventsOf(w, kinds)[1]
    <3>1. \A d \in stream' : d \in stream \/ \E k \in 1 .. Len(kinds) : d = EventsOf(w, kinds)[k]
      BY <1>1, <1>2, Emitted DEF IInv
    <3>2. 1 .. Len(kinds) = {1}
      BY <1>2
    <3> QED BY <3>1, <3>2
  <2>3. EventsOf(w, kinds)[1].n = w.n
    <3>1. 1 \in 1 .. Len(kinds)
      BY <1>2
    <3> QED BY <1>2, <3>1, EventFields
  <2>4. \A d \in stream' : d.kind = "ended" /\ One(born', d.n) => IsEnd(journal', d)
    BY <1>1, <1>10, <2>1, <2>2, <2>3
  <2> QED BY <1>1, <2>1, <2>4 DEF EndOK, Ending
<1>12. RowsOK'
  BY <1>1 DEF IInv, RowsOK
<1> QED BY <1>8, <1>9, <1>11, <1>12 DEF Rest

LEMMA FreshRest == ASSUME IInv, Fresh PROVE Rest'
<1> DEFINE kinds == <<"born">>
<1>1. PICK w \in Wall, v \in Wall :
        /\ w.n = Len(born) + 1 /\ w.side = scan.side /\ w.seq = 0
        /\ Emit(w, kinds)
        /\ v.n = w.n /\ v.side = w.side /\ v.name = w.name /\ v.seq = 1
        /\ active' = [active EXCEPT ![w.side] = v]
        /\ born' = Append(born, [side |-> w.side, name |-> w.name])
  BY Found DEF IInv
<1>2. /\ scan.stage # "idle" /\ scan' = NextSide /\ UNCHANGED <<task, rows>>
  BY DEF Fresh, Free
<1>3. /\ scan.book.at \in Times
      /\ scan'.stage \in {"look", "idle"} /\ (scan'.stage # "idle" => scan'.wall = None)
      /\ kinds \in Seq(Kinds) /\ Len(kinds) = 1 /\ kinds[1] = "born"
  BY <1>2, Scanning, NextSideIsBlank, OneKind DEF IInv, Kinds
<1> HIDE DEF kinds
<1>4. /\ Len(born) \in Nat /\ DOMAIN born = 1 .. Len(born) /\ DOMAIN born' = 1 .. Len(born) + 1
      /\ \A m \in 1 .. Len(born) : born'[m] = born[m]
      /\ born'[w.n] = [side |-> w.side, name |-> w.name]
  <2> DEFINE R == [side : Sides, name : Names]
             r == [side |-> w.side, name |-> w.name]
  <2>1. born \in Seq(R) /\ r \in R
    BY DEF IInv, TypeOK, Wall
  <2>2. born' = Append(born, r) /\ w.n = Len(born) + 1
    BY <1>1
  <2> HIDE DEF R, r
  <2>3. /\ Len(born) \in Nat /\ DOMAIN born = 1 .. Len(born)
        /\ Len(born') = Len(born) + 1 /\ born' \in Seq(R)
        /\ \A m \in 1 .. Len(born) : born'[m] = born[m]
        /\ born'[Len(born) + 1] = r
    BY <2>1, <2>2, AppendProperties, LenProperties
  <2>4. DOMAIN born' = 1 .. Len(born')
    BY <2>3, LenProperties
  <2> QED BY <2>2, <2>3, <2>4 DEF r
<1>5. Extends(born, born') /\ Refers(born', w)
  BY <1>1, <1>4 DEF Extends, Refers
<1>6. \A s \in Sides : active'[s] = IF s = w.side THEN v ELSE active[s]
  BY <1>1 DEF IInv, TypeOK
\* A name that a further wall has is nobody's own.
<1>7. \A m \in DOMAIN born : One(born', m) => born[m].name # w.name
  <2>1. ASSUME NEW m \in DOMAIN born, One(born', m), born[m].name = w.name PROVE FALSE
    <3>1. w.n \in DOMAIN born' /\ born'[w.n].name = w.name /\ born'[m].name = w.name
      BY <1>1, <1>4, <2>1
    <3>2. w.n = m
      BY <2>1, <3>1 DEF One
    <3> QED BY <1>1, <1>4, <3>2
  <2> QED BY <2>1
\* If the new wall is the only one of its name, nothing is kept under it yet.
<1>8. ASSUME One(born', w.n)
      PROVE  Len(journal[w.name]) = 0 /\ rows[w.name] = <<>>
  <2>1. \A m \in DOMAIN born : born[m].name # w.name
    <3>1. ASSUME NEW m \in DOMAIN born, born[m].name = w.name PROVE FALSE
      <4>1. m \in DOMAIN born' /\ born'[w.n].name = w.name /\ born'[m].name = w.name
        BY <1>4, <3>1
      <4>2. w.n = m
        BY <1>8, <4>1 DEF One
      <4> QED BY <1>1, <1>4, <4>2
    <3> QED BY <3>1
  <2>2. ASSUME NEW es \in Seq(Event), AllRefer(born, es, w.name) PROVE Len(es) = 0
    <3> SUFFICES ASSUME Len(es) # 0 PROVE FALSE
      OBVIOUS
    <3>1. 1 \in 1 .. Len(es)
      BY LenProperties
    <3> QED BY <2>1, <2>2, <3>1 DEF AllRefer, Refers
  <2>3. /\ w.name \in Names /\ journal[w.name] \in Seq(Event) /\ rows[w.name] \in Seq(Event)
        /\ AllRefer(born, journal[w.name], w.name) /\ AllRefer(born, rows[w.name], w.name)
    BY DEF IInv, TypeOK, RefsOK, Wall
  <2>4. Len(journal[w.name]) = 0 /\ Len(rows[w.name]) = 0
    BY <2>2, <2>3
  <2> QED BY <2>3, <2>4, EmptySeq
<1>9. RefsOK'
  <2>1. /\ \A i \in Names : AllRefer(born', journal'[i], i)
        /\ \A e \in stream' : Refers(born', e)
    BY <1>1, <1>3, <1>5, EmittedRefers DEF IInv
  <2>2. /\ \A r : Refers(born, r) => Refers(born', r)
        /\ \A es, i : AllRefer(born, es, i) => AllRefer(born', es, i)
    BY <1>5, RefersKept
  <2>3. Refers(born', v)
    BY <1>1, <1>5 DEF Refers
  <2> QED BY <1>1, <1>2, <1>3, <1>6, <2>1, <2>2, <2>3 DEF IInv, RefsOK
<1>10. ASSUME One(born', w.n) PROVE Open(journal', v)
  <2>1. Len(journal[w.name]) = w.seq /\ w.seq = 0 /\ Len(kinds) >= 1
    BY <1>1, <1>3, <1>8, <1>10
  <2>2. /\ Life(journal'[w.name], w.n)
        /\ Len(journal'[w.name]) = w.seq + Len(kinds)
        /\ journal'[w.name][w.seq + Len(kinds)] = EventsOf(w, kinds)[Len(kinds)]
    BY <1>1, <1>3, <2>1, LifeGoesOn DEF IInv
  <2>3. EventsOf(w, kinds)[1].kind # "ended"
    <3>1. 1 \in 1 .. Len(kinds)
      BY <1>3
    <3> QED BY <1>3, <3>1, EventFields
  <2>4. w.seq + Len(kinds) = 1
    BY <1>3, <2>1
  <2> QED BY <1>1, <1>3, <2>2, <2>3, <2>4 DEF Open
<1>11. OpenOK'
  <2>1. ASSUME NEW s \in Sides, s # w.side, active[s] # None, One(born', active[s].n)
        PROVE  Open(journal', active[s])
    BY <1>1, <1>3, <1>5, <2>1, OtherSide
  <2> QED BY <1>1, <1>3, <1>6, <1>10, <2>1 DEF OpenOK
<1>12. EndOK'
  <2>1. /\ \A e \in stream : e.kind = "ended" /\ One(born', e.n) => IsEnd(journal', e)
        /\ Ending /\ One(born', task.event.n) =>
             IsEnd(journal', task.event) /\ task.event \notin stream' /\ Whole(task.events)
    <3>1. \A e : Refers(born, e) /\ One(born', e.n) /\ IsEnd(journal, e) => e.name # w.name
      BY <1>7 DEF Refers
    <3> QED BY <1>1, <1>2, <1>3, <1>5, <3>1, EndsStay
  <2>2. \A d \in stream' : d \in stream \/ d = EventsOf(w, kinds)[1]
    <3>1. \A d \in stream' : d \in stream \/ \E k \in 1 .. Len(kinds) : d = EventsOf(w, kinds)[k]
      BY <1>1, <1>3, Emitted DEF IInv
    <3>2. 1 .. Len(kinds) = {1}
      BY <1>3
    <3> QED BY <3>1, <3>2
  <2>3. EventsOf(w, kinds)[1].kind # "ended"
    <3>1. 1 \in 1 .. Len(kinds)
      BY <1>3
    <3> QED BY <1>3, <3>1, EventFields
  <2> QED BY <1>2, <2>1, <2>2, <2>3 DEF EndOK, Ending
<1>13. RowsOK'
  <2> SUFFICES ASSUME NEW n \in DOMAIN born', One(born', n), rows[born'[n].name] # <<>>
               PROVE  Whole(rows[born'[n].name])
    BY <1>2 DEF RowsOK
  <2>1. CASE n \in DOMAIN born
    <3>1. One(born, n) /\ born'[n] = born[n]
      BY <1>5, <2>1, OneShrinks DEF Extends
    <3> QED BY <2>1, <3>1 DEF IInv, RowsOK
  <2>2. CASE n = w.n
    BY <1>4, <1>8, <2>2
  <2> QED BY <1>1, <1>4, <2>1, <2>2
<1> QED BY <1>9, <1>11, <1>12, <1>13 DEF Rest

-----------------------------------------------------------------------------
(* The invariant                                                           *)

LEMMA InitInv == ASSUME WallAssumption, Init PROVE IInv
<1>1. 0 \in Times /\ <<>> \in Seq(Event) /\ <<>> \in Seq([side : Sides, name : Names])
  BY EmptySeq DEF WallAssumption, Times
<1>2. TypeOK
  BY <1>1 DEF Init, TypeOK, WallAssumption
<1>3. scan.stage = "idle" /\ task.stage = "idle"
  BY DEF Init, Idle
<1>4. RefsOK
  <2>1. \A i : AllRefer(born, <<>>, i)
    BY DEF AllRefer
  <2> QED BY <1>3, <2>1 DEF Init, RefsOK
<1>5. OpenOK /\ EndOK
  BY <1>3 DEF Init, OpenOK, EndOK, Ending
<1>6. RowsOK
  <2>1. DOMAIN born = {}
    BY DEF Init
  <2> QED BY <2>1 DEF RowsOK
<1> QED BY <1>2, <1>4, <1>5, <1>6 DEF IInv

LEMMA StepRest == ASSUME WallAssumption, IInv, [Next]_vars PROVE Rest'
<1>1. Rest
  BY DEF IInv, Rest
<1>2. CASE UNCHANGED Subject
  BY <1>1, <1>2, SameRest
<1>3. UNCHANGED vars \/ Publish \/ RotateIn => UNCHANGED Subject
  BY DEF vars, Publish, RotateIn, Subject
<1>4. CASE Scan
  BY <1>4, LookRest, ObserveRest, EndRest, VacantRest, FreshRest DEF Scan
<1>5. CASE Handle
  BY <1>5, ReceiveRest, EvaluateRest, JudgedRest, FinishRest DEF Handle
<1>6. CASE RotateOut \/ \E b \in depths : Take(b)
  BY <1>6, RotateOutRest, TakeRest
<1> QED BY <1>2, <1>3, <1>4, <1>5, <1>6 DEF Next

LEMMA StepInv == ASSUME WallAssumption, IInv, [Next]_vars PROVE IInv'
<1>1. TypeOK'
  BY TypeStep DEF IInv
<1>2. Rest'
  BY StepRest
<1> QED BY <1>1, <1>2 DEF IInv, Rest

\* Journals, events and rows fit the walls they are of.
THEOREM Invariant == ASSUME WallAssumption PROVE Spec => []IInv
<1>1. Init => IInv
  BY InitInv
<1>2. IInv /\ [Next]_vars => IInv'
  BY StepInv
<1> QED BY <1>1, <1>2, PTL DEF Spec

\* The row of penny_jumper_walls of a wall that shares its name with no other
\* holds all of its events, from birth to end and in order, though one goroutine
\* appends (emitWallEvent) while the other reads, saves and clears
\* (handleWallLifecycleEnded) and the bus hands events over in any order.
THEOREM RowHoldsLife == ASSUME WallAssumption PROVE Spec => []RecordIsWhole
<1>1. IInv => RecordIsWhole
  <2> SUFFICES ASSUME IInv, NEW i \in Names, rows[i] # <<>>, Sole(i)
               PROVE  Whole(rows[i])
    BY DEF RecordIsWhole
  <2>1. PICK n \in DOMAIN born : \A m \in DOMAIN born : born[m].name = i <=> m = n
    BY DEF Sole
  <2>2. born[n].name = i /\ One(born, n)
    BY <2>1 DEF One
  <2> QED BY <2>2 DEF IInv, RowsOK
<1> QED BY <1>1, Invariant, PTL
=============================================================================
