------------------------------ MODULE MqttProofs ------------------------------
(***************************************************************************)
(* Proofs about what the MQTT client carries: the backfill, which leaves   *)
(* no gap for any sizes of buffers, files and batches; and the session of  *)
(* the uplink, which no interleaving of the client's task, the HTTP task   *)
(* and the main loop leaves under a tenant of the past.                    *)
(***************************************************************************)
EXTENDS Backfill, Uplink, TLAPS

-----------------------------------------------------------------------------
(* The backfill                                                            *)

-----------------------------------------------------------------------------
(* Sequences of records                                                    *)

Records == Seq(Nat)

\* The first n records of q, as far as there are that many.
First(q, n) == {q[i] : i \in 1..n \cap DOMAIN q}

LEMMA Joined ==
  ASSUME NEW q \in Records, NEW x \in Records
  PROVE /\ q \o x \in Records /\ Len(q \o x) = Len(q) + Len(x)
        /\ Range(q \o x) = Range(q) \cup Range(x)
        /\ \A n \in Nat : n <= Len(q) => First(q \o x, n) = First(q, n)
<1>1. q \o x \in Records /\ Len(q \o x) = Len(q) + Len(x)  BY DEF Records
<1>2. \A i \in 1..Len(q) : (q \o x)[i] = q[i]  BY DEF Records
<1>3. \A i \in 1..Len(x) : (q \o x)[Len(q) + i] = x[i]  BY DEF Records
<1>l. Len(q) \in Nat /\ Len(x) \in Nat  BY DEF Records
<1>d. /\ DOMAIN q = 1..Len(q) /\ DOMAIN x = 1..Len(x)
      /\ DOMAIN (q \o x) = 1..(Len(q) + Len(x))
  BY <1>1 DEF Records
<1>4. Range(q \o x) \subseteq Range(q) \cup Range(x)
  <2> SUFFICES ASSUME NEW i \in DOMAIN (q \o x)  PROVE (q \o x)[i] \in Range(q) \cup Range(x)
    BY DEF Range
  <2>1. CASE i <= Len(q)  BY <1>2, <1>d, <1>l, <2>1 DEF Range
  <2>2. CASE i > Len(q)
    <3>1. i - Len(q) \in 1..Len(x) /\ i = Len(q) + (i - Len(q))  BY <1>d, <1>l, <2>2
    <3> QED BY <1>3, <1>d, <3>1 DEF Range
  <2> QED BY <2>1, <2>2, <1>d, <1>l
<1>5. Range(q) \cup Range(x) \subseteq Range(q \o x)
  <2>1. ASSUME NEW i \in 1..Len(q)  PROVE q[i] \in Range(q \o x)
    BY <1>2, <1>d, <1>l DEF Range
  <2>2. ASSUME NEW i \in 1..Len(x)  PROVE x[i] \in Range(q \o x)
    <3>1. Len(q) + i \in DOMAIN (q \o x)  BY <1>d, <1>l
    <3> QED BY <1>3, <3>1 DEF Range
  <2> QED BY <2>1, <2>2, <1>d DEF Range
<1>6. ASSUME NEW n \in Nat, n <= Len(q)  PROVE First(q \o x, n) = First(q, n)
  <2>1. 1..n \cap DOMAIN (q \o x) = 1..n /\ 1..n \cap DOMAIN q = 1..n  BY <1>6, <1>d, <1>l
  <2>2. \A i \in 1..n : (q \o x)[i] = q[i]  BY <1>2, <1>6, <1>l
  <2> QED BY <2>1, <2>2 DEF First
<1> QED BY <1>1, <1>4, <1>5, <1>6

LEMMA Nonempty ==
  ASSUME NEW q \in Records, Len(q) > 0
  PROVE Range(q) # {}
<1>1. 1 \in DOMAIN q  BY DEF Records
<1> QED BY <1>1 DEF Range

LEMMA Part ==
  ASSUME NEW q \in Records, NEW a \in Nat, NEW b \in Nat, a >= 1, b <= Len(q)
  PROVE /\ SubSeq(q, a, b) \in Records
        /\ Len(SubSeq(q, a, b)) = IF a <= b THEN b - a + 1 ELSE 0
        /\ Range(SubSeq(q, a, b)) = {q[i] : i \in a..b}
        /\ Range(SubSeq(q, a, b)) \subseteq Range(q)
<1> DEFINE s == SubSeq(q, a, b)
<1>l. Len(q) \in Nat /\ DOMAIN q = 1..Len(q)  BY DEF Records
<1>1. s \in Records /\ Len(s) = IF a <= b THEN b - a + 1 ELSE 0
  BY <1>l DEF Records
<1>2. DOMAIN s = 1..Len(s)  BY <1>1 DEF Records
<1>3. \A i \in 1..Len(s) : s[i] = q[a + i - 1]
  BY <1>l, <1>1 DEF Records
<1> HIDE DEF s
<1>4. Range(s) \subseteq {q[i] : i \in a..b}
  <2> SUFFICES ASSUME NEW i \in 1..Len(s)  PROVE s[i] \in {q[j] : j \in a..b}
    BY <1>2 DEF Range
  <2>1. a + i - 1 \in a..b  BY <1>1
  <2> QED BY <1>3, <2>1
<1>5. {q[i] : i \in a..b} \subseteq Range(s)
  <2> SUFFICES ASSUME NEW i \in a..b  PROVE q[i] \in Range(s)
    OBVIOUS
  <2>1. i - a + 1 \in 1..Len(s) /\ a + (i - a + 1) - 1 = i  BY <1>1
  <2>2. s[i - a + 1] = q[i]  BY <1>3, <2>1
  <2> QED BY <1>2, <2>1, <2>2 DEF Range
<1>6. {q[i] : i \in a..b} \subseteq Range(q)  BY <1>l DEF Range
<1> QED BY <1>1, <1>4, <1>5, <1>6 DEF s

LEMMA Pushes ==
  ASSUME NEW q \in Records, NEW r \in Nat
  PROVE /\ Pushed(q, r) \in Records /\ Range(Pushed(q, r)) \subseteq Range(q) \cup {r}
        /\ Len(q) <= BufferCap => Len(Pushed(q, r)) <= BufferCap
<1>1. BufferCap \in Nat  BY BackfillConstants
<1>2. Append(q, r) \in Records /\ Len(Append(q, r)) = Len(q) + 1 /\ Len(q) \in Nat
  BY DEF Records
<1>3. Range(Append(q, r)) \subseteq Range(q) \cup {r}
  <2>1. DOMAIN Append(q, r) = 1..(Len(q) + 1) /\ DOMAIN q = 1..Len(q)  BY DEF Records
  <2>2. \A i \in 1..Len(q) : Append(q, r)[i] = q[i]  BY DEF Records
  <2>3. Append(q, r)[Len(q) + 1] = r  BY DEF Records
  <2> QED BY <1>2, <2>1, <2>2, <2>3 DEF Range
<1> QED BY <1>1, <1>2, <1>3 DEF Pushed

-----------------------------------------------------------------------------
(* One stream: its files o and c, what of it was sent, a position p in it, *)
(* and whether the files were rotated under the position                   *)

Lies(o, c, p) == IF p.file = 0 THEN First(o, p.off) ELSE Range(o) \cup First(c, p.off)

\* Nothing that lies before the position is unsent, nor can become so by what
\* is appended.
Fits(o, c, S, p, m) ==
  m \/ (Lies(o, c, p) \subseteq S /\ (p.file = 1 => p.off <= Len(c)))

LEMMA StartFits ==
  ASSUME NEW o \in Records, NEW c \in Records, NEW S
  PROVE /\ Fits(o, c, S, Start(0), FALSE)
        /\ o = <<>> => Fits(o, c, S, Start(1), FALSE)
<1>1. Start(0).file = 0 /\ Start(0).off = 0 /\ Start(1).file = 1 /\ Start(1).off = 0
  BY DEF Start
<1>2. First(o, 0) = {} /\ First(c, 0) = {}  BY DEF First
<1>3. o = <<>> => Range(o) = {}  BY DEF Range
<1>4. Len(c) \in Nat  BY DEF Records
<1> QED BY <1>1, <1>2, <1>3, <1>4 DEF Fits, Lies

LEMMA GrownFits ==
  ASSUME NEW o, NEW c \in Records, NEW S, NEW p \in Position, NEW m, Fits(o, c, S, p, m),
         NEW x \in Records
  PROVE Fits(o, c \o x, S, p, m)
<1>1. p.off \in Nat /\ p.file \in {0, 1}  BY DEF Position
<1>2. Len(c \o x) >= Len(c)  BY Joined DEF Records
<1>3. Len(c) \in Nat /\ Len(c \o x) \in Nat  BY Joined DEF Records
<1>4. p.off <= Len(c) => First(c \o x, p.off) = First(c, p.off)  BY <1>1, Joined
<1> QED BY <1>1, <1>2, <1>3, <1>4 DEF Fits, Lies

\* A rotation under a position is remembered, unless it is at the beginning.
LEMMA TurnedFits ==
  ASSUME NEW o \in Records, NEW S, NEW p \in Position, NEW m
  PROVE Fits(o, <<>>, S, p, m \/ RotatesUnder(p))
<1>1. CASE p = Start(0)
  <2>1. <<>> \in Records  BY DEF Records
  <2> QED BY <1>1, <2>1, StartFits DEF Fits
<1>2. CASE p # Start(0)  BY <1>2 DEF Fits, RotatesUnder
<1> QED BY <1>1, <1>2

LEMMA MoreFits ==
  ASSUME NEW o, NEW c, NEW S, NEW T, NEW p, NEW m, Fits(o, c, S, p, m), S \subseteq T
  PROVE Fits(o, c, T, p, m)
  BY DEF Fits

-----------------------------------------------------------------------------
(* The invariant                                                           *)

Types ==
  /\ logged \in [Streams -> Nat]
  /\ buf \in [Streams -> Records] /\ cur \in [Streams -> Records] /\ old \in [Streams -> Records]
  /\ pos \in [Streams -> Position] /\ saved \in [Streams -> Position]
  /\ sent \in [Streams -> SUBSET Nat]
  /\ moved \in [Streams -> BOOLEAN] /\ savedMoved \in [Streams -> BOOLEAN]

\* No record is in the older file and also newer, so that a rotation is one.
Distinct ==
  \A s \in Streams :
    /\ Range(buf[s]) \cup Range(cur[s]) \cup Range(old[s]) \cup sent[s] \subseteq 1..logged[s]
    /\ Range(old[s]) \cap (Range(cur[s]) \cup Range(buf[s])) = {}

Full == \A s \in Streams : Len(buf[s]) <= BufferCap

Fit == \A s \in Streams : /\ Fits(old[s], cur[s], sent[s], pos[s], moved[s])
                          /\ Fits(old[s], cur[s], sent[s], saved[s], savedMoved[s])

Loop == batches \in 0..SaveEvery - 1 /\ at \in {"idle", "check", "publish"} /\ restarts \in 0..MaxRestarts

BackfillInv == Types /\ Distinct /\ Full /\ Fit /\ Loop

LEMMA Facts ==
  /\ BufferCap \in Nat /\ BufferCap > 0 /\ MaxFile \in Nat /\ MaxFile > 0
  /\ Batch \in Nat /\ Batch > 0 /\ SaveEvery \in Nat /\ SaveEvery > 0 /\ MaxRestarts \in Nat
  BY BackfillConstants

-----------------------------------------------------------------------------
(* Flushing                                                                *)

\* What a flush does to one stream: x is appended, or the file is turned.
Grown(s) == \E x \in Records : /\ Range(x) \subseteq Range(buf[s])
                               /\ cur'[s] = cur[s] \o x /\ old'[s] = old[s]
Turned(s) == \E x \in Records : /\ Range(x) \subseteq Range(buf[s])
                                /\ old'[s] = cur[s] \o x /\ cur'[s] = <<>> /\ Len(old'[s]) > 0

LEMMA FlushTypes ==
  ASSUME BackfillInv, NEW opened \in SUBSET Waiting, Flush(opened)
  PROVE /\ cur' \in [Streams -> Records] /\ old' \in [Streams -> Records]
        /\ \A s \in Streams : Grown(s) \/ (s \in opened /\ Turned(s))
<1> USE Facts
<1> DEFINE file(w, s) == cur[s] \o SubSeq(buf[s], 1, w[s])
           turned(w) == {s \in opened : Len(file(w, s)) > MaxFile}
<1>1. PICK w \in [Streams -> 0..BufferCap] :
        /\ \A s \in Streams : IF s \in opened THEN w[s] \in Appended(s) ELSE w[s] = 0
        /\ old' = [s \in Streams |-> IF s \in turned(w) THEN file(w, s) ELSE old[s]]
        /\ cur' = [s \in Streams |-> CASE s \in turned(w) -> <<>>
                                       [] s \in opened \ turned(w) -> file(w, s)
                                       [] OTHER -> cur[s]]
  BY DEF Flush
<1>2. \A s \in Streams : cur[s] \in Records /\ old[s] \in Records /\ buf[s] \in Records
  BY DEF BackfillInv, Types
<1>3. ASSUME NEW s \in Streams, s \in opened
      PROVE /\ SubSeq(buf[s], 1, w[s]) \in Records
            /\ Range(SubSeq(buf[s], 1, w[s])) \subseteq Range(buf[s])
            /\ file(w, s) \in Records
  <2>1. w[s] \in Nat /\ w[s] <= Len(buf[s])
    BY <1>1, <1>3, <1>2 DEF Appended, Records
  <2>2. SubSeq(buf[s], 1, w[s]) \in Records /\ Range(SubSeq(buf[s], 1, w[s])) \subseteq Range(buf[s])
    BY <1>2, <2>1, Part
  <2> QED BY <1>2, <2>2, Joined
<1>4. <<>> \in Records /\ Range(<<>>) = {}  BY DEF Records, Range
<1> HIDE DEF file, turned
<1>5. ASSUME NEW s \in Streams
      PROVE /\ cur'[s] \in Records /\ old'[s] \in Records
            /\ Grown(s) \/ (s \in opened /\ Turned(s))
  <2>1. CASE s \in turned(w)
    <3>1. old'[s] = file(w, s) /\ cur'[s] = <<>> /\ s \in opened /\ Len(file(w, s)) > MaxFile
      BY <1>1, <2>1 DEF turned
    <3>2. Len(old'[s]) > 0  BY <1>3, <3>1 DEF Records
    <3>3. Turned(s)  BY <1>3, <3>1, <3>2 DEF Turned, file
    <3> QED BY <1>3, <1>4, <3>1, <3>3
  <2>2. CASE s \in opened \ turned(w)
    <3>1. old'[s] = old[s] /\ cur'[s] = file(w, s)
      BY <1>1, <2>2
    <3>2. Grown(s)  BY <1>3, <2>2, <3>1 DEF Grown, file
    <3> QED BY <1>2, <1>3, <2>2, <3>1, <3>2
  <2>3. CASE s \notin opened
    <3>1. old'[s] = old[s] /\ cur'[s] = cur[s]
      BY <1>1, <2>3 DEF turned
    <3>2. cur[s] \o <<>> = cur[s]  BY <1>2 DEF Records
    <3>3. Grown(s)  BY <1>4, <3>1, <3>2 DEF Grown
    <3> QED BY <1>2, <3>1, <3>3
  <2> QED BY <2>1, <2>2, <2>3
<1>6. cur' \in [Streams -> Records] /\ old' \in [Streams -> Records]
  BY <1>1, <1>5
<1> QED BY <1>5, <1>6

\* The history of a position over a flush.
LEMMA FlushMoves ==
  ASSUME NEW q \in [Streams -> Position], NEW m \in [Streams -> BOOLEAN]
  PROVE /\ MovedUnder(q, m) \in [Streams -> BOOLEAN]
        /\ \A s \in Streams : MovedUnder(q, m)[s] = (m[s] \/ (old'[s] # old[s] /\ RotatesUnder(q[s])))
  BY DEF MovedUnder, RotatesUnder

\* A flush keeps records apart and positions fit.
LEMMA FlushFits ==
  ASSUME BackfillInv, NEW opened \in SUBSET Waiting, Flush(opened),
         NEW q \in [Streams -> Position], NEW m \in [Streams -> BOOLEAN],
         \A s \in Streams : Fits(old[s], cur[s], sent[s], q[s], m[s])
  PROVE \A s \in Streams : Fits(old'[s], cur'[s], sent[s], q[s], MovedUnder(q, m)[s])
<1> SUFFICES ASSUME NEW s \in Streams
             PROVE Fits(old'[s], cur'[s], sent[s], q[s], MovedUnder(q, m)[s])
  OBVIOUS
<1> DEFINE n == MovedUnder(q, m)[s]
<1>1. n = (m[s] \/ (old'[s] # old[s] /\ RotatesUnder(q[s])))  BY FlushMoves
<1>2. /\ cur[s] \in Records /\ old[s] \in Records /\ buf[s] \in Records /\ q[s] \in Position
      /\ old'[s] \in Records
  BY FlushTypes DEF BackfillInv, Types
<1> HIDE DEF n
<1>3. CASE Grown(s)
  <2>1. PICK x \in Records : cur'[s] = cur[s] \o x /\ old'[s] = old[s]  BY <1>3 DEF Grown
  <2>2. Fits(old[s], cur[s] \o x, sent[s], q[s], m[s])  BY <1>2, GrownFits
  <2> QED BY <1>1, <2>1, <2>2 DEF n, Fits
<1>4. CASE Turned(s)
  <2>1. PICK x \in Records : /\ Range(x) \subseteq Range(buf[s])
                             /\ old'[s] = cur[s] \o x /\ cur'[s] = <<>> /\ Len(old'[s]) > 0
    BY <1>4 DEF Turned
  <2>2. Range(old'[s]) \subseteq Range(cur[s]) \cup Range(buf[s])  BY <1>2, <2>1, Joined
  <2>3. Range(old'[s]) # {}  BY <1>2, <2>1, Nonempty
  <2>4. old'[s] # old[s]  BY <2>2, <2>3 DEF BackfillInv, Distinct
  <2>5. Fits(old'[s], <<>>, sent[s], q[s], m[s] \/ RotatesUnder(q[s]))  BY <1>2, TurnedFits
  <2> QED BY <1>1, <2>1, <2>4, <2>5 DEF n, Fits
<1>5. Grown(s) \/ Turned(s)  BY FlushTypes
<1> QED BY <1>3, <1>4, <1>5 DEF n

LEMMA FlushDistinct ==
  ASSUME BackfillInv, NEW opened \in SUBSET Waiting, Flush(opened)
  PROVE \A s \in Streams :
          /\ Range(Left(opened)[s]) \cup Range(cur'[s]) \cup Range(old'[s]) \cup sent[s] \subseteq 1..logged[s]
          /\ Range(old'[s]) \cap (Range(cur'[s]) \cup Range(Left(opened)[s])) = {}
          /\ Left(opened)[s] \in Records /\ Len(Left(opened)[s]) <= BufferCap
<1> USE Facts
<1> SUFFICES ASSUME NEW s \in Streams
             PROVE /\ Range(Left(opened)[s]) \cup Range(cur'[s]) \cup Range(old'[s]) \cup sent[s] \subseteq 1..logged[s]
                   /\ Range(old'[s]) \cap (Range(cur'[s]) \cup Range(Left(opened)[s])) = {}
                   /\ Left(opened)[s] \in Records /\ Len(Left(opened)[s]) <= BufferCap
  OBVIOUS
<1> DEFINE l == Left(opened)[s]
<1>0. Range(<<>>) = {} /\ <<>> \in Records /\ Len(<<>>) = 0  BY DEF Range, Records
<1>1. l = IF s \in opened THEN <<>> ELSE buf[s]  BY DEF Left
<1>2. /\ cur[s] \in Records /\ old[s] \in Records /\ buf[s] \in Records /\ Len(buf[s]) <= BufferCap
      /\ Range(buf[s]) \cup Range(cur[s]) \cup Range(old[s]) \cup sent[s] \subseteq 1..logged[s]
      /\ Range(old[s]) \cap (Range(cur[s]) \cup Range(buf[s])) = {}
  BY DEF BackfillInv, Types, Distinct, Full
<1>3. l \in Records /\ Len(l) <= BufferCap /\ Range(l) \subseteq Range(buf[s])  BY <1>0, <1>1, <1>2
<1> HIDE DEF l
<1>4. CASE Grown(s)
  <2>1. PICK x \in Records : /\ Range(x) \subseteq Range(buf[s])
                             /\ cur'[s] = cur[s] \o x /\ old'[s] = old[s]
    BY <1>4 DEF Grown
  <2>2. Range(cur'[s]) = Range(cur[s]) \cup Range(x)  BY <1>2, <2>1, Joined
  <2> QED BY <1>2, <1>3, <2>1, <2>2 DEF l
<1>5. CASE s \in opened /\ Turned(s)
  <2>1. PICK x \in Records : /\ Range(x) \subseteq Range(buf[s])
                             /\ old'[s] = cur[s] \o x /\ cur'[s] = <<>>
    BY <1>5 DEF Turned
  <2>2. Range(old'[s]) = Range(cur[s]) \cup Range(x)  BY <1>2, <2>1, Joined
  <2>3. l = <<>>  BY <1>1, <1>5
  <2> QED BY <1>0, <1>2, <1>3, <2>1, <2>2, <2>3 DEF l
<1> QED BY <1>4, <1>5, FlushTypes

LEMMA FlushInPlaceInv ==
  ASSUME BackfillInv, FlushInPlace, UNCHANGED <<logged, sent, batches, restarts>>,
         at' \in {"idle", "check", "publish"}
  PROVE BackfillInv'
<1>1. PICK opened \in SUBSET Waiting :
        /\ Flush(opened) /\ buf' = Left(opened) /\ UNCHANGED <<pos, saved>>
        /\ moved' = MovedUnder(pos, moved) /\ savedMoved' = MovedUnder(saved, savedMoved)
  BY DEF FlushInPlace
<1>2. pos \in [Streams -> Position] /\ saved \in [Streams -> Position]
      /\ moved \in [Streams -> BOOLEAN] /\ savedMoved \in [Streams -> BOOLEAN]
  BY DEF BackfillInv, Types
<1>3. buf' \in [Streams -> Records] /\ Full'
  <2>1. \A s \in Streams : Left(opened)[s] \in Records /\ Len(Left(opened)[s]) <= BufferCap
    BY <1>1, FlushDistinct
  <2> QED BY <1>1, <2>1 DEF Left, Full
<1>4. Types'  BY <1>1, <1>2, <1>3, FlushTypes, FlushMoves DEF BackfillInv, Types
<1>5. Distinct'  BY <1>1, FlushDistinct DEF Distinct
<1>6. Fit'
  <2>1. \A s \in Streams : Fits(old'[s], cur'[s], sent[s], pos[s], moved'[s])
    BY <1>1, <1>2, FlushFits DEF BackfillInv, Fit
  <2>2. \A s \in Streams : Fits(old'[s], cur'[s], sent[s], saved[s], savedMoved'[s])
    BY <1>1, <1>2, FlushFits DEF BackfillInv, Fit
  <2> QED BY <1>1, <2>1, <2>2 DEF Fit
<1>7. Loop'  BY DEF BackfillInv, Loop
<1> QED BY <1>3, <1>4, <1>5, <1>6, <1>7 DEF BackfillInv

-----------------------------------------------------------------------------
(* Starting                                                                *)

\* A position as it is loaded: what is past the end of its file starts over.
LEMMA LoadedFits ==
  ASSUME NEW s \in Streams, NEW p \in Position, NEW m \in BOOLEAN, NEW S,
         old'[s] \in Records, cur'[s] \in Records, Fits(old'[s], cur'[s], S, p, m)
  PROVE /\ Reloaded(s, p) \in Position
        /\ Fits(old'[s], cur'[s], S, Reloaded(s, p), m /\ ~PastEnd(s, p))
<1>1. Start(0) \in Position /\ Start(1) \in Position  BY DEF Start, Position
<1>2. CASE ~PastEnd(s, p)  BY <1>2 DEF Reloaded, Fits
<1>3. CASE PastEnd(s, p)
  <2>1. CASE old'[s] # <<>>
    <3>1. Reloaded(s, p) = Start(0)  BY <1>3, <2>1 DEF Reloaded
    <3>2. Fits(old'[s], cur'[s], S, Start(0), FALSE)  BY StartFits
    <3> QED BY <1>1, <3>1, <3>2 DEF Fits
  <2>2. CASE old'[s] = <<>>
    <3>1. Reloaded(s, p) = Start(1)  BY <1>3, <2>2 DEF Reloaded
    <3>2. Fits(old'[s], cur'[s], S, Start(1), FALSE)  BY <2>2, StartFits
    <3> QED BY <1>1, <3>1, <3>2 DEF Fits
  <2> QED BY <2>1, <2>2
<1> QED BY <1>2, <1>3

\* on_init, over files that are as they should be.
LEMMA OnInitInv ==
  ASSUME NEW ram \in [Streams -> Records], NEW q \in [Streams -> Position], NEW m \in [Streams -> BOOLEAN],
         OnInit(ram, q, m), logged \in [Streams -> Nat],
         cur' \in [Streams -> Records], old' \in [Streams -> Records],
         saved' \in [Streams -> Position], savedMoved' \in [Streams -> BOOLEAN],
         sent \in [Streams -> SUBSET Nat], UNCHANGED sent, Loop',
         \A s \in Streams :
           /\ Range(ram[s]) \cup Range(cur'[s]) \cup Range(old'[s]) \cup sent[s] \subseteq 1..logged[s]
           /\ Range(old'[s]) \cap (Range(cur'[s]) \cup Range(ram[s])) = {}
           /\ Len(ram[s]) <= BufferCap
           /\ Fits(old'[s], cur'[s], sent[s], q[s], m[s])
           /\ Fits(old'[s], cur'[s], sent[s], saved'[s], savedMoved'[s])
  PROVE BackfillInv'
<1> USE Facts
<1>1. /\ pos' = [s \in Streams |-> Reloaded(s, q[s])]
      /\ moved' = [s \in Streams |-> m[s] /\ ~PastEnd(s, q[s])]
  BY DEF OnInit
<1>2. ASSUME NEW s \in Streams
      PROVE /\ pos'[s] \in Position
            /\ Fits(old'[s], cur'[s], sent'[s], pos'[s], moved'[s])
  BY <1>1, LoadedFits
<1>3. /\ logged' \in [Streams -> Nat] /\ buf' \in [Streams -> Records]
      /\ \A s \in Streams :
           /\ logged[s] <= logged'[s]
           /\ \/ buf'[s] = ram[s]
              \/ /\ Range(buf'[s]) \subseteq Range(ram[s]) \cup {logged[s] + 1}
                 /\ logged'[s] = logged[s] + 1
           /\ Len(buf'[s]) <= BufferCap
  <2>1. CASE /\ logged' = [logged EXCEPT !["event"] = @ + 1]
             /\ buf' = [ram EXCEPT !["event"] = Pushed(@, logged'["event"])]
    <3>1. "event" \in Streams /\ logged'["event"] = logged["event"] + 1 /\ logged'["event"] \in Nat
      BY <2>1 DEF Streams
    <3>2. /\ Pushed(ram["event"], logged'["event"]) \in Records
          /\ Range(Pushed(ram["event"], logged'["event"])) \subseteq Range(ram["event"]) \cup {logged'["event"]}
          /\ Len(Pushed(ram["event"], logged'["event"])) <= BufferCap
      BY <3>1, Pushes
    <3>3. logged' \in [Streams -> Nat] /\ buf' \in [Streams -> Records]
      BY <2>1, <3>1, <3>2
    <3>4. ASSUME NEW s \in Streams
          PROVE /\ logged[s] <= logged'[s]
                /\ \/ buf'[s] = ram[s]
                   \/ /\ Range(buf'[s]) \subseteq Range(ram[s]) \cup {logged[s] + 1}
                      /\ logged'[s] = logged[s] + 1
                /\ Len(buf'[s]) <= BufferCap
      <4>1. CASE s = "event"  BY <2>1, <3>1, <3>2, <4>1
      <4>2. CASE s # "event"  BY <2>1, <4>2
      <4> QED BY <4>1, <4>2
    <3> QED BY <3>3, <3>4
  <2>2. CASE logged' = logged /\ buf' = ram
    BY <2>2
  <2> QED BY <2>1, <2>2 DEF OnInit
<1>4. Types'
  <2>1. pos' \in [Streams -> Position]  BY <1>1, <1>2
  <2>2. moved' \in [Streams -> BOOLEAN]  BY <1>1
  <2> QED BY <1>3, <2>1, <2>2 DEF Types
<1>5. Distinct'
  <2> SUFFICES ASSUME NEW s \in Streams
               PROVE /\ Range(buf'[s]) \cup Range(cur'[s]) \cup Range(old'[s]) \cup sent'[s] \subseteq 1..logged'[s]
                     /\ Range(old'[s]) \cap (Range(cur'[s]) \cup Range(buf'[s])) = {}
    BY DEF Distinct
  <2>1. logged[s] \in Nat /\ logged'[s] \in Nat /\ logged[s] <= logged'[s]  BY <1>3
  <2>2. 1..logged[s] \subseteq 1..logged'[s] /\ logged[s] + 1 \notin 1..logged[s]  BY <2>1
  <2>3. CASE buf'[s] = ram[s]  BY <2>2, <2>3
  <2>4. CASE Range(buf'[s]) \subseteq Range(ram[s]) \cup {logged[s] + 1} /\ logged'[s] = logged[s] + 1
    <3>1. logged[s] + 1 \in 1..logged'[s]  BY <2>1, <2>4
    <3> QED BY <2>2, <2>4, <3>1
  <2> QED BY <1>3, <2>3, <2>4
<1>6. Full'  BY <1>3 DEF Full
<1>7. Fit'  BY <1>2 DEF Fit
<1> QED BY <1>4, <1>5, <1>6, <1>7 DEF BackfillInv

\* The history after on_stop, or after power is lost: what RAM holds is lost or kept.
LEMMA StoppedInv ==
  ASSUME BackfillInv, NEW opened \in SUBSET Waiting, OnStop(opened), NEW ram \in [Streams -> Records],
         \A s \in Streams : ram[s] = Left(opened)[s] \/ ram[s] = <<>>,
         OnInit(ram, pos, savedMoved'), Loop'
  PROVE BackfillInv'
<1>0. Range(<<>>) = {} /\ Len(<<>>) = 0  BY DEF Range
<1>1. Flush(opened) /\ saved' = pos /\ savedMoved' = MovedUnder(pos, moved) /\ UNCHANGED sent
  BY DEF OnStop
<1>2. /\ pos \in [Streams -> Position] /\ moved \in [Streams -> BOOLEAN]
      /\ logged \in [Streams -> Nat] /\ sent \in [Streams -> SUBSET Nat]
      /\ \A s \in Streams : Fits(old[s], cur[s], sent[s], pos[s], moved[s])
  BY DEF BackfillInv, Types, Fit
<1>3. savedMoved' \in [Streams -> BOOLEAN]  BY <1>1, <1>2, FlushMoves
<1>4. cur' \in [Streams -> Records] /\ old' \in [Streams -> Records]  BY <1>1, FlushTypes
<1>5. \A s \in Streams : Fits(old'[s], cur'[s], sent[s], pos[s], savedMoved'[s])
  BY <1>1, <1>2, FlushFits
<1>6. \A s \in Streams :
        /\ Range(Left(opened)[s]) \cup Range(cur'[s]) \cup Range(old'[s]) \cup sent[s] \subseteq 1..logged[s]
        /\ Range(old'[s]) \cap (Range(cur'[s]) \cup Range(Left(opened)[s])) = {}
        /\ Len(Left(opened)[s]) <= BufferCap
  BY <1>1, FlushDistinct
<1>7. \A s \in Streams :
        /\ Range(ram[s]) \cup Range(cur'[s]) \cup Range(old'[s]) \cup sent[s] \subseteq 1..logged[s]
        /\ Range(old'[s]) \cap (Range(cur'[s]) \cup Range(ram[s])) = {}
        /\ Len(ram[s]) <= BufferCap
  BY <1>0, <1>6, Facts
<1>8. saved' \in [Streams -> Position] /\ \A s \in Streams : saved'[s] = pos[s]  BY <1>1, <1>2
<1> QED BY <1>1, <1>2, <1>3, <1>4, <1>5, <1>7, <1>8, OnInitInv

LEMMA RestartModuleInv ==
  ASSUME BackfillInv, RestartModule
  PROVE BackfillInv'
<1>1. PICK opened \in SUBSET Waiting : OnStop(opened) /\ OnInit(Left(opened), pos, savedMoved')
  BY DEF RestartModule
<1>2. Loop'  BY Facts DEF RestartModule, BackfillInv, Loop, link
<1>3. Left(opened) \in [Streams -> Records]
  <2>1. \A s \in Streams : Left(opened)[s] \in Records  BY <1>1, FlushDistinct DEF OnStop
  <2> QED BY <2>1 DEF Left
<1> QED BY <1>1, <1>2, <1>3, StoppedInv

LEMMA RebootInv ==
  ASSUME BackfillInv, Reboot
  PROVE BackfillInv'
<1>1. PICK opened \in SUBSET Waiting : OnStop(opened) /\ OnInit(Empty, pos, savedMoved')
  BY DEF Reboot
<1>2. Loop'  BY Facts DEF Reboot, LinkBoots, Loop
<1>3. Empty \in [Streams -> Records] /\ \A s \in Streams : Empty[s] = <<>>
  BY DEF Empty, Records
<1> QED BY <1>1, <1>2, <1>3, StoppedInv

LEMMA CrashInv ==
  ASSUME BackfillInv, Crash
  PROVE BackfillInv'
<1>1. /\ UNCHANGED <<cur, old, saved, savedMoved, sent>>
      /\ OnInit(Empty, saved, savedMoved)
  BY DEF Crash
<1>2. Loop'  BY Facts DEF Crash, LinkBoots, Loop
<1>3. Empty \in [Streams -> Records] /\ \A s \in Streams : Empty[s] = <<>>
  BY DEF Empty, Records
<1>0. Range(<<>>) = {} /\ Len(<<>>) = 0  BY DEF Range
<1>4. \A s \in Streams :
        /\ Range(Empty[s]) \cup Range(cur'[s]) \cup Range(old'[s]) \cup sent[s] \subseteq 1..logged[s]
        /\ Range(old'[s]) \cap (Range(cur'[s]) \cup Range(Empty[s])) = {}
        /\ Len(Empty[s]) <= BufferCap
        /\ Fits(old'[s], cur'[s], sent[s], saved[s], savedMoved[s])
        /\ Fits(old'[s], cur'[s], sent[s], saved'[s], savedMoved'[s])
  BY <1>0, <1>1, <1>3, Facts DEF BackfillInv, Distinct, Fit
<1> QED BY <1>1, <1>2, <1>3, <1>4, OnInitInv DEF BackfillInv, Types

-----------------------------------------------------------------------------
(* Sending                                                                 *)

\* The position moves past the batch that was sent, and no further.
LEMMA SentFits ==
  ASSUME BackfillInv, NEW s \in Streams, NextBatch(s) # <<>>
  PROVE /\ Range(NextBatch(s)) \subseteq OnFlash(s)
        /\ Advanced(s, Len(NextBatch(s))) \in Position
        /\ Fits(old[s], cur[s], sent[s] \cup Range(NextBatch(s)), Advanced(s, Len(NextBatch(s))), moved[s])
<1> USE Facts
<1> DEFINE q == Unsynced(s)
           p == pos[s]
           last == IF p.off + Batch < Len(q) THEN p.off + Batch ELSE Len(q)
           b == NextBatch(s)
           a == Advanced(s, Len(b))
<1>1. /\ old[s] \in Records /\ cur[s] \in Records /\ q \in Records
      /\ p \in Position /\ p.off \in Nat /\ p.file \in {0, 1} /\ Len(q) \in Nat
  BY DEF BackfillInv, Types, Unsynced, Position, Records
<1>2. b = SubSeq(q, p.off + 1, last)  BY DEF NextBatch
<1>3. last \in Nat /\ last <= Len(q)  BY <1>1
<1>q. IF p.file = 0 THEN q = old[s] ELSE q = cur[s]  BY DEF Unsynced
<1> HIDE DEF q, p, last
<1>4. /\ b \in Records /\ Len(b) = IF p.off + 1 <= last THEN last - p.off ELSE 0
      /\ Range(b) = {q[i] : i \in p.off + 1 .. last} /\ Range(b) \subseteq Range(q)
  BY <1>1, <1>2, <1>3, Part
<1>5. p.off + 1 <= last /\ Len(b) = last - p.off
  <2>1. b # <<>> => Len(b) > 0  BY <1>4 DEF Records
  <2> QED BY <1>1, <1>3, <1>4, <2>1
<1>6. Range(b) \subseteq OnFlash(s)
  BY <1>4, <1>q DEF OnFlash
<1>7. p.off + Len(b) = last /\ p.off + Len(b) \in Nat  BY <1>1, <1>3, <1>5
<1>8. First(q, last) \subseteq First(q, p.off) \cup Range(b)
  BY <1>1, <1>3, <1>4 DEF First
<1>9. CASE p.file = 0 /\ last >= Len(old[s])
  <2>1. a = Start(1)  BY <1>7, <1>9 DEF Advanced, p
  <2>2. last = Len(old[s]) /\ q = old[s]  BY <1>1, <1>3, <1>9, <1>q
  <2>3. Range(old[s]) = First(old[s], last)  BY <1>1, <2>2 DEF First, Range, Records
  <2>4. Start(1).file = 1 /\ Start(1).off = 0 /\ Start(1) \in Position  BY DEF Start, Position
  <2>5. First(cur[s], 0) = {} /\ 0 <= Len(cur[s])  BY <1>1 DEF First, Records
  <2>6. moved[s] \/ First(old[s], p.off) \subseteq sent[s]
    BY <1>9 DEF BackfillInv, Fit, Fits, Lies, p
  <2>7. Fits(old[s], cur[s], sent[s] \cup Range(b), Start(1), moved[s])
    BY <1>8, <2>2, <2>3, <2>4, <2>5, <2>6 DEF Fits, Lies
  <2> QED BY <1>6, <2>1, <2>4, <2>7 DEF a, b
<1>10. CASE ~(p.file = 0 /\ last >= Len(old[s]))
  <2>1. a = [p EXCEPT !.off = last]  BY <1>7, <1>10 DEF Advanced, p
  <2>2. a.file = p.file /\ a.off = last /\ a \in Position  BY <1>1, <1>3, <2>1 DEF Position
  <2>3. moved[s] \/ Lies(old[s], cur[s], p) \subseteq sent[s]
    BY DEF BackfillInv, Fit, Fits, p
  <2>4. Lies(old[s], cur[s], a) \subseteq Lies(old[s], cur[s], p) \cup Range(b)
    BY <1>8, <1>q, <2>2 DEF Lies
  <2>5. a.file = 1 => a.off <= Len(cur[s])  BY <1>1, <1>3, <1>q, <2>2
  <2> HIDE DEF a, b
  <2>6. Fits(old[s], cur[s], sent[s] \cup Range(b), a, moved[s])
    BY <2>3, <2>4, <2>5 DEF Fits
  <2> QED BY <1>6, <2>2, <2>6 DEF a, b
<1> QED BY <1>9, <1>10

\* A position that is saved is as sound as the one in use.
LEMMA SendBatchInv ==
  ASSUME BackfillInv, NEW s \in Streams, NextBatch(s) # <<>>, SendBatch(s),
         UNCHANGED <<logged, files, moved, restarts>>, at' = "idle"
  PROVE BackfillInv'
<1> USE Facts
<1> DEFINE b == NextBatch(s)
           a == Advanced(s, Len(NextBatch(s)))
<1>1. /\ Range(b) \subseteq OnFlash(s) /\ a \in Position
      /\ Fits(old[s], cur[s], sent[s] \cup Range(b), a, moved[s])
  BY SentFits
<1>2. /\ sent' = [sent EXCEPT ![s] = @ \cup Range(b)] /\ pos' = [pos EXCEPT ![s] = a]
      /\ batches' = (batches + 1) % SaveEvery
      /\ \/ saved' = pos' /\ savedMoved' = moved
         \/ UNCHANGED <<saved, savedMoved>>
  BY DEF SendBatch
<1> HIDE DEF a, b
<1>3. /\ sent \in [Streams -> SUBSET Nat] /\ pos \in [Streams -> Position]
      /\ logged \in [Streams -> Nat]
  BY DEF BackfillInv, Types
<1>4. Range(b) \subseteq 1..logged[s]  BY <1>1 DEF BackfillInv, Distinct, OnFlash
<1>5. /\ sent' \in [Streams -> SUBSET Nat] /\ pos' \in [Streams -> Position]
  BY <1>1, <1>2, <1>3, <1>4
<1>6. Types'  BY <1>2, <1>5 DEF BackfillInv, Types, files
<1>7. Distinct'
  <2>1. \A x \in Streams : sent'[x] \subseteq 1..logged[x]
    BY <1>2, <1>3, <1>4 DEF BackfillInv, Distinct
  <2> QED BY <2>1 DEF BackfillInv, Distinct, files
<1>8. Full'  BY DEF BackfillInv, Full, files
<1>9. Fit'
  <2>1. \A x \in Streams : sent[x] \subseteq sent'[x]  BY <1>2, <1>3
  <2>2. ASSUME NEW x \in Streams  PROVE Fits(old[x], cur[x], sent'[x], pos'[x], moved[x])
    <3>1. CASE x = s  BY <1>1, <1>2, <1>3, <3>1
    <3>2. CASE x # s  BY <1>2, <1>3, <3>2 DEF BackfillInv, Fit
    <3> QED BY <3>1, <3>2
  <2>3. ASSUME NEW x \in Streams  PROVE Fits(old[x], cur[x], sent'[x], saved[x], savedMoved[x])
    BY <2>1, MoreFits DEF BackfillInv, Fit
  <2>4. old' = old /\ cur' = cur /\ moved' = moved  BY DEF files
  <2> QED BY <1>2, <2>2, <2>3, <2>4 DEF Fit
<1>10. Loop'
  <2>1. batches' \in 0..SaveEvery - 1  BY <1>2 DEF BackfillInv, Loop
  <2> QED BY <2>1 DEF BackfillInv, Loop
<1> QED BY <1>6, <1>7, <1>8, <1>9, <1>10 DEF BackfillInv

\* What neither logs, flushes, starts nor sends.
LEMMA Quiet ==
  ASSUME BackfillInv, UNCHANGED <<logged, files, pos, sent, moved, restarts, batches>>,
         at' \in {"idle", "check", "publish"},
         \/ saved' = pos /\ savedMoved' = moved
         \/ UNCHANGED <<saved, savedMoved>>
  PROVE BackfillInv'
<1>1. Types' /\ Distinct' /\ Full'  BY DEF BackfillInv, Types, Distinct, Full, files
<1>2. Fit'  BY DEF BackfillInv, Fit, files
<1>3. Loop'  BY DEF BackfillInv, Loop
<1> QED BY <1>1, <1>2, <1>3 DEF BackfillInv

LEMMA LogInv ==
  ASSUME BackfillInv, NEW s \in Streams, Log(s)
  PROVE BackfillInv'
<1> DEFINE r == logged[s] + 1
<1>1. /\ logged \in [Streams -> Nat] /\ buf \in [Streams -> Records]
      /\ \A x \in Streams : Len(buf[x]) <= BufferCap
  BY DEF BackfillInv, Types, Full
<1>2. /\ logged' = [logged EXCEPT ![s] = r] /\ r \in Nat
      /\ buf' = [buf EXCEPT ![s] = Pushed(buf[s], r)]
      /\ UNCHANGED <<cur, old, pos, saved, sent, moved, savedMoved, batches, at, restarts>>
  BY <1>1 DEF Log, position, link
<1>3. /\ Pushed(buf[s], r) \in Records /\ Range(Pushed(buf[s], r)) \subseteq Range(buf[s]) \cup {r}
      /\ Len(Pushed(buf[s], r)) <= BufferCap
  BY <1>1, <1>2, Pushes
<1>4. Types'  BY <1>1, <1>2, <1>3 DEF BackfillInv, Types
<1>5. Full'  BY <1>1, <1>2, <1>3 DEF Full
<1>6. Distinct'
  <2>1. /\ Range(buf[s]) \cup Range(cur[s]) \cup Range(old[s]) \cup sent[s] \subseteq 1..logged[s]
        /\ Range(old[s]) \cap (Range(cur[s]) \cup Range(buf[s])) = {}
    BY DEF BackfillInv, Distinct
  <2>2. 1..logged[s] \subseteq 1..r /\ r \in 1..r /\ r \notin 1..logged[s]  BY <1>1
  <2>3. ASSUME NEW x \in Streams, x # s
        PROVE logged'[x] = logged[x] /\ buf'[x] = buf[x]
    BY <1>1, <1>2, <2>3
  <2>4. logged'[s] = r /\ buf'[s] = Pushed(buf[s], r)  BY <1>1, <1>2
  <2> HIDE DEF r
  <2> SUFFICES ASSUME NEW x \in Streams
               PROVE /\ Range(buf'[x]) \cup Range(cur[x]) \cup Range(old[x]) \cup sent[x] \subseteq 1..logged'[x]
                     /\ Range(old[x]) \cap (Range(cur[x]) \cup Range(buf'[x])) = {}
    BY <1>2 DEF Distinct
  <2>5. CASE x = s
    <3>1. Range(buf'[s]) \subseteq 1..r  BY <1>3, <2>1, <2>2, <2>4
    <3>2. Range(cur[s]) \cup Range(old[s]) \cup sent[s] \subseteq 1..r  BY <2>1, <2>2
    <3>3. Range(old[s]) \cap (Range(cur[s]) \cup Range(buf'[s])) = {}  BY <1>3, <2>1, <2>2, <2>4
    <3> QED BY <2>4, <2>5, <3>1, <3>2, <3>3
  <2>6. CASE x # s  BY <2>3, <2>6 DEF BackfillInv, Distinct
  <2> QED BY <2>5, <2>6
<1>7. Fit'  BY <1>2 DEF BackfillInv, Fit
<1>8. Loop'  BY <1>2 DEF BackfillInv, Loop
<1> QED BY <1>4, <1>5, <1>6, <1>7, <1>8 DEF BackfillInv

-----------------------------------------------------------------------------
LEMMA BackfillInitInv == BackfillInit => BackfillInv
<1> SUFFICES ASSUME BackfillInit  PROVE BackfillInv
  OBVIOUS
<1> USE Facts
<1>0. <<>> \in Records /\ Range(<<>>) = {} /\ Len(<<>>) = 0  BY DEF Records, Range
<1>1. Start(1) \in Position  BY DEF Start, Position
<1>2. Types  BY <1>0, <1>1 DEF BackfillInit, Types
<1>3. Distinct  BY <1>0 DEF BackfillInit, Distinct
<1>4. Full  BY <1>0 DEF BackfillInit, Full
<1>5. Fit
  <2>1. \A s \in Streams : old[s] = <<>> /\ cur[s] = <<>> /\ pos[s] = Start(1) /\ saved[s] = Start(1)
                           /\ moved[s] = FALSE /\ savedMoved[s] = FALSE
    BY DEF BackfillInit
  <2> QED BY <1>0, <2>1, StartFits DEF Fit
<1>6. Loop  BY DEF BackfillInit, Loop
<1> QED BY <1>2, <1>3, <1>4, <1>5, <1>6 DEF BackfillInv

LEMMA BackfillNextInv == BackfillInv /\ [BackfillNext]_backfillVars => BackfillInv'
<1> SUFFICES ASSUME BackfillInv, [BackfillNext]_backfillVars  PROVE BackfillInv'
  OBVIOUS
<1>0. at \in {"idle", "check", "publish"}  BY DEF BackfillInv, Loop
<1>1. ASSUME NEW s \in Streams, Log(s)  PROVE BackfillInv'
  BY <1>1, LogInv
<1>2. CASE FlushTimer
  BY <1>0, <1>2, FlushInPlaceInv DEF FlushTimer, link
<1>3. CASE Crash  BY <1>3, CrashInv
<1>4. CASE Reboot  BY <1>4, RebootInv
<1>5. CASE RestartModule  BY <1>5, RestartModuleInv
<1>6. CASE OnConnected \/ OnDisconnected \/ StopClient
  BY <1>0, <1>6, Quiet DEF OnConnected, OnDisconnected, StopClient, position
<1>7. CASE UpdateFlush
  <2>1. CASE FlushInPlace
    BY <1>7, <2>1, FlushInPlaceInv DEF UpdateFlush
  <2>2. CASE UNCHANGED <<files, pos, saved, moved, savedMoved>>
    BY <1>7, <2>2, Quiet DEF UpdateFlush
  <2> QED BY <1>7, <2>1, <2>2 DEF UpdateFlush
<1>8. CASE UpdateCheck
  BY <1>8, Quiet DEF UpdateCheck, position
<1>9. CASE NoBackfill
  BY <1>9, Quiet DEF NoBackfill, position
<1>10. ASSUME NEW s \in Streams, PublishBackfill(s)  PROVE BackfillInv'
  <2>1. UNCHANGED <<logged, files, moved, restarts>> /\ at' = "idle"
    BY <1>10 DEF PublishBackfill
  <2>2. CASE NextBatch(s) # <<>>
    <3>1. SendBatch(s)  BY <1>10, <2>2 DEF PublishBackfill
    <3> QED BY <2>1, <2>2, <3>1, SendBatchInv
  <2>3. CASE NextBatch(s) = <<>>
    <3>1. StreamDone(s)  BY <1>10, <2>3 DEF PublishBackfill
    <3> QED BY <2>1, <3>1, Quiet DEF StreamDone
  <2> QED BY <2>2, <2>3
<1>11. CASE UNCHANGED backfillVars
  BY <1>0, <1>11, Quiet DEF backfillVars, position, link
<1> QED
  BY <1>1, <1>2, <1>3, <1>4, <1>5, <1>6, <1>7, <1>8, <1>9, <1>10, <1>11
     DEF BackfillNext, MqttUpdate, UpdateBackfill

-----------------------------------------------------------------------------
(* Theorems                                                                *)

LEMMA Reachable == BackfillSpec => []BackfillInv
  BY BackfillInitInv, BackfillNextInv, PTL DEF BackfillSpec

\* Every variable has its type, nothing is sent that was not logged, and no
\* buffer outgrows its capacity.
THEOREM BackfillTypes == BackfillSpec => []BackfillTypeOK
<1>1. BackfillInv => BackfillTypeOK
  BY DEF BackfillInv, Types, Distinct, Full, Loop, BackfillTypeOK, OnFlash
<1> QED BY <1>1, Reachable, PTL

\* For any sizes, failed or partial flushes, restarts and lost connections: what
\* lies before the position, the one in use and the saved one, has been sent,
\* unless the files were rotated under it.
THEOREM NoGapTheorem == BackfillSpec => []NoGap
<1>1. BackfillInv => NoGap
  <2> SUFFICES ASSUME BackfillInv, NEW s \in Streams
               PROVE /\ moved[s] \/ Before(s, pos[s]) \subseteq sent[s]
                     /\ savedMoved[s] \/ Before(s, saved[s]) \subseteq sent[s]
    BY DEF NoGap
  <2>1. \A p : Before(s, p) = Lies(old[s], cur[s], p)
    BY DEF Before, Lies, First
  <2> QED BY <2>1 DEF BackfillInv, Fit, Fits
<1> QED BY <1>1, Reachable, PTL

-----------------------------------------------------------------------------
(* The uplink                                                              *)

\* The session and what it is made from are what they should be.
SessionTypes ==
  /\ sess \in [cred : {"boot", "own"}, tenant : {"pending", "own"}]
  /\ cred \in {"boot", "own"} /\ tenant \in {"pending", "own"}

UplinkInv == SessionTypes /\ TenantFollowed

\* What a step keeps when it leaves alone what TenantFollowed is about.
LEMMA Untouched ==
  ASSUME UplinkInv, UNCHANGED <<conn, sess, cred, tenant>>, again => again', stage = "restart" => stage' = "restart"
  PROVE UplinkInv'
  BY DEF UplinkInv, SessionTypes, TenantFollowed

\* A client that is started or connected is under the tenant of now.
LEMMA Renewed ==
  ASSUME UplinkInv, UNCHANGED <<cred, tenant>>,
         sess' \in [cred : {"boot", "own"}, tenant : {"pending", "own"}], sess'.tenant = tenant
  PROVE UplinkInv'
  BY DEF UplinkInv, SessionTypes, TenantFollowed

\* A tenant that is set asks for a reconnect.
LEMMA Asked ==
  ASSUME UplinkInv, UNCHANGED sess, again', cred' \in {"boot", "own"}, tenant' \in {"pending", "own"}
  PROVE UplinkInv'
  BY DEF UplinkInv, SessionTypes, TenantFollowed

LEMMA Started ==
  ASSUME UplinkInv, StartClient, UNCHANGED <<cred, tenant>>
  PROVE UplinkInv'
<1>1. /\ sess' \in [cred : {"boot", "own"}, tenant : {"pending", "own"}]
      /\ sess'.tenant = tenant
  BY DEF UplinkInv, SessionTypes, StartClient
<1> QED BY <1>1, Renewed

\* Publishing in the loop passes through a stage of its own.
LEMMA PublishInv ==
  ASSUME UplinkInv, NEW published, PublishState(published)
  PROVE UplinkInv'
  BY Untouched DEF PublishState, identity, retrying

-----------------------------------------------------------------------------
LEMMA SharedInv ==
  ASSUME UplinkInv, Shared
  PROVE UplinkInv'
<1> USE DEF identity, session, retrying
<1>1. CASE Resend  BY <1>1, Untouched DEF Resend
<1>2. CASE Change  BY <1>2, Untouched DEF Change
<1>3. CASE Command  BY <1>3, Untouched DEF Command
<1>4. CASE Reading  BY <1>4, Untouched DEF Reading
<1>5. CASE StampVersion  BY <1>5, Untouched DEF StampVersion
<1> QED BY <1>1, <1>2, <1>3, <1>4, <1>5 DEF Shared

LEMMA MqttTaskInv ==
  ASSUME UplinkInv, MqttTask
  PROVE UplinkInv'
<1> USE DEF identity, session, retrying
<1>1. CASE MqttConnected
  <2>1. /\ sess' \in [cred : {"boot", "own"}, tenant : {"pending", "own"}]
        /\ sess'.tenant = tenant
    BY <1>1 DEF MqttConnected, UplinkInv, SessionTypes
  <2>2. UNCHANGED <<cred, tenant>>  BY <1>1 DEF MqttConnected
  <2> QED BY <2>1, <2>2, Renewed
<1>2. CASE MqttDisconnected
  BY <1>2 DEF MqttDisconnected, EndSession, UplinkInv, SessionTypes, TenantFollowed
<1>3. CASE SetCreds
  BY <1>3 DEF SetCreds, UplinkInv, SessionTypes, TenantFollowed
<1>4. CASE SetTenant
  BY <1>4, Asked DEF SetTenant, UplinkInv, SessionTypes
<1> QED BY <1>1, <1>2, <1>3, <1>4 DEF MqttTask

\* BeginReconnect clears the request and is in the middle of the reconnect;
\* FinishReconnect starts the client under the tenant of then.
LEMMA MqttLoopInv ==
  ASSUME UplinkInv, MqttLoop
  PROVE UplinkInv'
<1> USE DEF identity, session, retrying
<1>1. CASE BeginReconnect
  BY <1>1 DEF BeginReconnect, UplinkInv, SessionTypes, TenantFollowed
<1>2. CASE FinishReconnect
  <2>1. UNCHANGED <<cred, tenant>>  BY <1>2 DEF FinishReconnect
  <2>2. CASE enabled  BY <1>2, <2>1, <2>2, Started DEF FinishReconnect
  <2>3. CASE ~enabled
    BY <1>2, <2>1, <2>3 DEF FinishReconnect, UplinkInv, SessionTypes, TenantFollowed
  <2> QED BY <2>2, <2>3
<1>3. CASE FirstStart
  BY <1>3, Started DEF FirstStart
<1>4. CASE Registered
  BY <1>4, Asked DEF Registered
<1>5. CASE Unregistered
  BY <1>5, Untouched DEF Unregistered
<1>6. CASE Reconnect
  BY <1>6 DEF Reconnect, UplinkInv, SessionTypes, TenantFollowed
<1>7. CASE PublishMqtt
  BY <1>7, PublishInv DEF PublishMqtt
<1>8. CASE PublishParams
  BY <1>8, Untouched DEF PublishParams
<1>9. CASE RepublishAlarms
  BY <1>9, Untouched DEF RepublishAlarms
<1> QED BY <1>1, <1>2, <1>3, <1>4, <1>5, <1>6, <1>7, <1>8, <1>9 DEF MqttLoop

LEMMA MqttInv ==
  ASSUME UplinkInv, MqttNext
  PROVE UplinkInv'
<1> USE DEF identity, session, retrying
<1>1. CASE Provision  BY <1>1, Untouched DEF Provision
<1>2. CASE Drop  BY <1>2, Untouched DEF Drop
<1>3. ASSUME NEW t \in {"pending", "own"}, NEW e \in BOOLEAN, PostMqtt(t, e)
      PROVE UplinkInv'
  BY <1>3, Asked DEF PostMqtt, UplinkInv, SessionTypes
<1>4. CASE RequestFullState  BY <1>4, Untouched DEF RequestFullState
<1> QED BY <1>1, <1>2, <1>3, <1>4, MqttTaskInv, MqttLoopInv DEF MqttNext

LEMMA AwsInv ==
  ASSUME UplinkInv, AwsNext
  PROVE UplinkInv'
<1> USE DEF identity, session, retrying
<1>1. CASE AwsConnected
  BY <1>1 DEF AwsConnected, Aws, UplinkInv, SessionTypes, TenantFollowed
<1>2. CASE AwsDisconnected
  BY <1>2 DEF AwsDisconnected, EndSession, UplinkInv, SessionTypes, TenantFollowed
<1>3. CASE AwsReconnect
  BY <1>3 DEF AwsReconnect, UplinkInv, SessionTypes, TenantFollowed
<1>4. CASE AwsStart  BY <1>4, Started DEF AwsStart
<1>5. CASE PublishAws  BY <1>5, PublishInv DEF PublishAws
<1>6. CASE PublishShadow  BY <1>6, Untouched DEF PublishShadow
<1>7. CASE StampShadow  BY <1>7, Untouched DEF StampShadow
<1>8. CASE PostCloud  BY <1>8, Untouched DEF PostCloud
<1> QED BY <1>1, <1>2, <1>3, <1>4, <1>5, <1>6, <1>7, <1>8 DEF AwsNext, AwsTask, AwsLoop

LEMMA UplinkInitInv == Init => UplinkInv
<1> SUFFICES ASSUME Init  PROVE UplinkInv
  OBVIOUS
<1>1. cred \in {"boot", "own"} /\ tenant \in {"pending", "own"} /\ conn = "none"
  BY DEF Init, CloudInit
<1>2. sess \in [cred : {"boot", "own"}, tenant : {"pending", "own"}]
  BY <1>1 DEF Init, CloudInit
<1> QED BY <1>1, <1>2 DEF UplinkInv, SessionTypes, TenantFollowed

LEMMA UplinkNextInv == UplinkInv /\ [Next]_vars => UplinkInv'
<1> SUFFICES ASSUME UplinkInv, [Next]_vars  PROVE UplinkInv'
  OBVIOUS
<1> USE DEF identity, session, retrying
<1>1. CASE UNCHANGED cloudVars
  BY <1>1, Untouched DEF cloudVars
<1>2. CASE Restart
  BY <1>2 DEF Restart, CloudBoot, UplinkInv, SessionTypes, TenantFollowed
<1>3. CASE Shared  BY <1>3, SharedInv
<1>4. CASE MqttNext  BY <1>4, MqttInv
<1>5. CASE AwsNext  BY <1>5, AwsInv
<1> QED BY <1>1, <1>2, <1>3, <1>4, <1>5 DEF Next, WifiStep, vars

\* Whatever the bounds on disturbances, retries and failures: a client that is
\* under another tenant than the service's has a reconnect asked for or under
\* way (reconnect_requested_), however the three tasks interleave.
THEOREM TenantTheorem == Spec => []TenantFollowed
<1>1. UplinkInv => TenantFollowed
  BY DEF UplinkInv
<1> QED BY <1>1, UplinkInitInv, UplinkNextInv, PTL DEF Spec

-----------------------------------------------------------------------------
(* The types of the uplink: WiFi                                           *)

DriverType == [mode : Modes, sta : {"idle", "joining", "joined"},
               events : Seq({"start", "lost", "ip"})]

LEMMA TellType ==
  ASSUME NEW r \in DriverType, NEW e \in {"start", "lost", "ip"}
  PROVE  Tell(r, e) \in DriverType
<1>1. Append(r.events, e) \in Seq({"start", "lost", "ip"})
  BY DEF DriverType
<1> QED
  BY <1>1 DEF Tell, DriverType

LEMMA HandledType ==
  ASSUME NEW r \in DriverType, r.events # <<>>
  PROVE  Handled(r) \in DriverType
<1>1. Tail(r.events) \in Seq({"start", "lost", "ip"})
  BY DEF DriverType
<1> QED
  BY <1>1 DEF Handled, DriverType

\* What the service asks of the driver leaves it in its type.
LEMMA DriverTypes ==
  ASSUME NEW r \in DriverType
  PROVE  /\ Connect(r) \in DriverType /\ Disconnect(r) \in DriverType
         /\ ToAp(r) \in DriverType /\ ToApSta(r) \in DriverType
         /\ ToSta(r) \in DriverType /\ Restarted(r) \in DriverType
<1>1. Connect(r) \in DriverType
  BY DEF Connect, DriverType
<1>2. ASSUME NEW q \in DriverType
      PROVE  Disconnect(q) \in DriverType
  <2>1. [q EXCEPT !.sta = "idle"] \in DriverType
    BY DEF DriverType
  <2> QED
    BY <2>1, TellType DEF Disconnect
<1>3. ASSUME NEW q \in DriverType, NEW m \in Modes
      PROVE  [q EXCEPT !.mode = m] \in DriverType
  BY DEF DriverType
<1>4. ToAp(r) \in DriverType
  BY <1>2, <1>3 DEF ToAp, Modes
<1>5. ToApSta(r) \in DriverType
  BY <1>3, TellType DEF ToApSta, Modes
<1>6. ASSUME NEW q \in DriverType
      PROVE  ToSta(q) \in DriverType
  BY <1>3 DEF ToSta, Modes
<1>7. Restarted(r) \in DriverType
  BY <1>2, <1>6, TellType DEF Restarted
<1> QED
  BY <1>1, <1>2, <1>4, <1>5, <1>6, <1>7

\* The driver as it is after power-on or a restart.
LEMMA PowerOn ==
  ASSUME NEW c \in BOOLEAN
  PROVE  (IF c THEN [mode |-> "sta", sta |-> "idle", events |-> <<"start">>]
               ELSE [mode |-> "ap", sta |-> "idle", events |-> <<>>]) \in DriverType
  BY DEF DriverType, Modes

LEMMA NoRetry == 0 \in 0..MaxRetries
  BY WifiAssumption

LEMMA SpendType ==
  ASSUME WifiTypeOK, NEW n \in Nat, Spend(n)
  PROVE  left' \in 0..Budget
  BY WifiAssumption DEF Spend, WifiTypeOK

LEMMA EventsType ==
  ASSUME WifiTypeOK, Events
  PROVE  WifiTypeOK'
<1>1. radio \in DriverType /\ radio.events # <<>>
  BY DEF WifiTypeOK, DriverType, Events, OnStart, OnLost, OnAddress, Event, Drained
<1> DEFINE h == Handled(radio)
<1>2. h \in DriverType
  BY <1>1, HandledType
<1>3. Connect(h) \in DriverType /\ ToAp(h) \in DriverType /\ ToSta(h) \in DriverType
  BY <1>2, DriverTypes
<1>4. radio' \in DriverType
  BY <1>2, <1>3 DEF Events, OnStart, OnLost, OnAddress, CancelProbe
<1> HIDE DEF h
<1>5. UNCHANGED <<air, creds, http, left>>
  BY DEF Events, OnStart, OnLost, OnAddress
<1>6. CASE OnStart
  BY <1>4, <1>5, <1>6 DEF OnStart, service, WifiTypeOK, DriverType
<1>7. CASE OnLost
  BY <1>4, <1>5, <1>7 DEF OnLost, CancelProbe, WifiTypeOK, DriverType
<1>8. CASE OnAddress
  BY <1>4, <1>5, <1>8, NoRetry DEF OnAddress, WifiTypeOK, DriverType
<1> QED
  BY <1>6, <1>7, <1>8 DEF Events

LEMMA LoopWifiType ==
  ASSUME WifiTypeOK, LoopWifi
  PROVE  WifiTypeOK'
<1>1. radio \in DriverType
  BY DEF WifiTypeOK, DriverType
<1>2. /\ Connect(radio) \in DriverType /\ ToAp(radio) \in DriverType
      /\ ToApSta(radio) \in DriverType /\ Restarted(radio) \in DriverType
  BY <1>1, DriverTypes
<1>3. Connect(ToApSta(radio)) \in DriverType
  BY <1>2, DriverTypes
<1>4. radio' \in DriverType
  BY <1>2, <1>3 DEF LoopWifi, DeferredReconnect, Retry, GiveUp, Probe, ProbeTimeout, CancelProbe
<1>5. CASE DeferredReconnect
  BY <1>4, <1>5, NoRetry DEF DeferredReconnect, WifiTypeOK, DriverType
<1>6. CASE Retry
  BY <1>4, <1>6, WifiAssumption DEF Retry, WifiTypeOK, DriverType
<1>7. CASE GiveUp
  BY <1>4, <1>7 DEF GiveUp, WifiTypeOK, DriverType
<1>8. CASE Probe
  BY <1>4, <1>8 DEF Probe, WifiTypeOK, DriverType
<1>9. CASE ProbeTimeout
  <2>1. left' \in 0..Budget
    BY <1>9, SpendType DEF ProbeTimeout, WifiTypeOK
  <2> QED
    BY <1>4, <1>9, <2>1 DEF ProbeTimeout, CancelProbe, WifiTypeOK, DriverType
<1> QED
  BY <1>5, <1>6, <1>7, <1>8, <1>9 DEF LoopWifi

LEMMA RequestsType ==
  ASSUME WifiTypeOK, Requests
  PROVE  WifiTypeOK'
<1>1. radio \in DriverType
  BY DEF WifiTypeOK, DriverType
<1>2. ToAp(radio) \in DriverType
  BY <1>1, DriverTypes
<1>3. CASE SaveCredentials
  <2>1. left' \in 0..Budget
    BY <1>3, SpendType, WifiAssumption DEF SaveCredentials
  <2>2. radio' \in DriverType
    BY <1>1, <1>2, <1>3 DEF SaveCredentials, CancelProbe
  <2> QED
    BY <1>3, <2>1, <2>2 DEF SaveCredentials, CancelProbe, WifiTypeOK, DriverType
<1>4. CASE RequestReconnect
  BY <1>4 DEF RequestReconnect, WifiTypeOK
<1>5. CASE StartScan
  <2>1. left' \in 0..Budget
    BY <1>5, SpendType, WifiAssumption DEF StartScan
  <2> DEFINE r == IF probing THEN ToAp(radio) ELSE radio
  <2>2. r \in DriverType
    BY <1>1, <1>2
  <2>3. radio' = IF ap THEN Disconnect(ToApSta(r)) ELSE r
    BY <1>5 DEF StartScan
  <2> HIDE DEF r
  <2>4. ToApSta(r) \in DriverType
    BY <2>2, DriverTypes
  <2>5. radio' \in DriverType
    BY <2>2, <2>3, <2>4, DriverTypes
  <2> QED
    BY <1>5, <2>1, <2>5 DEF StartScan, WifiTypeOK, DriverType
<1>6. CASE EndScan
  BY <1>1, <1>2, <1>6 DEF EndScan, service, WifiTypeOK, DriverType
<1> QED
  BY <1>3, <1>4, <1>5, <1>6 DEF Requests

LEMMA OutsideType ==
  ASSUME WifiTypeOK, Driver \/ Weather
  PROVE  WifiTypeOK'
<1>1. radio \in DriverType
  BY DEF WifiTypeOK, DriverType
<1>2. ASSUME NEW to \in {"idle", "joined"}, NEW event \in {"lost", "ip"}, Station(to, event)
      PROVE  WifiTypeOK'
  <2>1. [radio EXCEPT !.sta = to] \in DriverType
    BY <1>1 DEF DriverType
  <2>2. radio' \in DriverType
    BY <1>2, <2>1, TellType DEF Station
  <2> QED
    BY <1>2, <2>2 DEF Station, service, WifiTypeOK, DriverType
<1>3. CASE Driver
  BY <1>2, <1>3 DEF Driver, Join, Refuse, Lose
<1>4. CASE Outage
  <2>1. left' \in 0..Budget
    BY <1>4, SpendType DEF Outage
  <2> QED
    BY <1>4, <2>1 DEF Outage, service, WifiTypeOK
<1>5. CASE Back
  BY <1>5 DEF Back, service, WifiTypeOK
<1> QED
  BY <1>3, <1>4, <1>5 DEF Weather

LEMMA RestartsType ==
  ASSUME WifiTypeOK, Restarts
  PROVE  WifiTypeOK'
<1>1. left' \in 0..Budget /\ Boot
  BY SpendType DEF Restarts, StaWatchdog, PowerCut, WifiTypeOK
<1>2. radio' \in DriverType
  BY <1>1, PowerOn DEF Boot, WifiTypeOK
<1> QED
  BY <1>1, <1>2, NoRetry DEF Boot, WifiTypeOK, DriverType

-----------------------------------------------------------------------------
(* The types of the uplink: the cloud services                             *)

\* What the cloud services take from WiFi is its budget.
LEMMA Undisturbed ==
  ASSUME WifiTypeOK, UNCHANGED <<air, radio, creds, service, http>>, left' \in 0..Budget
  PROVE  WifiTypeOK'
  BY DEF service, WifiTypeOK

LEMMA BudgetOnly ==
  ASSUME WifiTypeOK, UNCHANGED wifiVars
  PROVE  WifiTypeOK'
  BY Undisturbed DEF wifiVars, WifiTypeOK

SessionType == [cred : {"boot", "own"}, tenant : {"pending", "own"}]
StoredType == [pass : BOOLEAN, enabled : BOOLEAN]
Inboxes == {<<>>, <<"tenant">>, <<"creds", "tenant">>}

LEMMA ThresholdType == Threshold \in Nat /\ Threshold > 0 /\ 0 \in 0..Threshold
<1>1. Threshold \in Nat \ {0}
  BY CloudAssumption
<1> QED
  BY <1>1

LEMMA InboxTail ==
  ASSUME inbox \in Inboxes, inbox # <<>>
  PROVE  Tail(inbox) \in Inboxes
<1>1. Tail(<<"tenant">>) = <<>>
  OBVIOUS
<1>2. Tail(<<"creds", "tenant">>) = <<"tenant">>
  OBVIOUS
<1> QED
  BY <1>1, <1>2 DEF Inboxes

LEMMA StartType ==
  ASSUME CloudTypeOK, StartClient
  PROVE  conn' = "trying" /\ sess' \in SessionType
  BY DEF StartClient, CloudTypeOK, SessionType

LEMMA PublishType ==
  ASSUME CloudTypeOK, Publish(value)
  PROVE  {outbox', copy'} \subseteq Values \cup {None}
  BY DEF Publish, CloudTypeOK

LEMMA PublishStateType ==
  ASSUME CloudTypeOK, NEW published, PublishState(published)
  PROVE  CloudTypeOK'
<1>1. {outbox', copy', cache'} \subseteq Values \cup {None}
  BY PublishType DEF PublishState, CloudTypeOK
<1> QED
  BY <1>1 DEF PublishState, CloudTypeOK, fixed, identity, retrying, side

LEMMA SharedType ==
  ASSUME TypeOK, Shared
  PROVE  TypeOK'
<1> USE DEF fixed, identity, session, retrying, content, side
<1>1. WifiTypeOK /\ CloudTypeOK
  BY DEF TypeOK
<1>2. CASE Resend
  BY <1>1, <1>2, BudgetOnly DEF Resend, TypeOK, CloudTypeOK
<1>3. CASE Change \/ Command
  <2>1. left' \in 0..Budget /\ UNCHANGED <<air, radio, creds, service, http>>
    BY <1>1, <1>3, SpendType DEF Change, Command
  <2>2. value' = 1 - value /\ 1 - value \in Values
    BY <1>1, <1>3 DEF Change, Command, Written, CloudTypeOK, Values
  <2>3. CloudTypeOK'
    BY <1>1, <1>3, <2>2 DEF Change, Command, Written, CloudTypeOK
  <2> QED
    BY <1>1, <2>1, <2>3, Undisturbed DEF TypeOK
<1>4. CASE Reading
  BY <1>1, <1>4, BudgetOnly DEF Reading, TypeOK, CloudTypeOK
<1>5. CASE StampVersion
  BY <1>1, <1>5, BudgetOnly DEF StampVersion, TypeOK, CloudTypeOK
<1> QED
  BY <1>2, <1>3, <1>4, <1>5 DEF Shared

LEMMA MqttTaskType ==
  ASSUME TypeOK, MqttTask
  PROVE  TypeOK'
<1> USE DEF fixed, identity, session, retrying, content, side
<1>1. WifiTypeOK /\ CloudTypeOK
  BY DEF TypeOK
<1>2. WifiTypeOK'
  BY <1>1, BudgetOnly DEF MqttTask, MqttConnected, MqttDisconnected, SetCreds, SetTenant
<1>3. CASE MqttConnected
  <2>1. sess' \in SessionType /\ 0 \in 0..Threshold
    BY <1>1, <1>3, ThresholdType DEF MqttConnected, CloudTypeOK, SessionType
  <2>2. copy' \in Values \cup {None}
    BY <1>1, <1>3 DEF MqttConnected, CloudTypeOK
  <2> QED
    BY <1>1, <1>2, <1>3, <2>1, <2>2 DEF MqttConnected, TypeOK, CloudTypeOK, SessionType
<1>4. CASE MqttDisconnected
  <2>1. fails' \in 0..Threshold
    BY <1>1, <1>4, ThresholdType DEF MqttDisconnected, CloudTypeOK
  <2>2. boot' \in BOOLEAN
    <3>1. (boot \/ fails + 1 >= Threshold) \in BOOLEAN
      OBVIOUS
    <3> QED
      BY <1>4, <3>1 DEF MqttDisconnected
  <2>3. outbox' \in Values \cup {None}
    BY <1>1, <1>4 DEF MqttDisconnected, EndSession, CloudTypeOK
  <2> QED
    BY <1>1, <1>2, <1>4, <2>1, <2>2, <2>3 DEF MqttDisconnected, EndSession, TypeOK, CloudTypeOK
<1>5. CASE SetCreds
  <2>1. nvs' \in StoredType /\ inbox' \in Inboxes
    BY <1>1, <1>5, InboxTail DEF SetCreds, Command0, CloudTypeOK, StoredType, Inboxes
  <2> QED
    BY <1>1, <1>2, <1>5, <2>1 DEF SetCreds, TypeOK, CloudTypeOK, StoredType, Inboxes
<1>6. CASE SetTenant
  <2>1. inbox' \in Inboxes
    BY <1>1, <1>6, InboxTail DEF SetTenant, Command0, CloudTypeOK, Inboxes
  <2> QED
    BY <1>1, <1>2, <1>6, <2>1 DEF SetTenant, TypeOK, CloudTypeOK, Inboxes
<1> QED
  BY <1>3, <1>4, <1>5, <1>6 DEF MqttTask

LEMMA MqttLoopType ==
  ASSUME TypeOK, MqttLoop
  PROVE  TypeOK'
<1> USE DEF fixed, identity, session, retrying, content, side
<1>1. WifiTypeOK /\ CloudTypeOK
  BY DEF TypeOK
<1>2. WifiTypeOK'
  BY <1>1, BudgetOnly DEF MqttLoop, BeginReconnect, FinishReconnect, FirstStart,
     Registered, Unregistered, Reconnect, PublishMqtt, PublishState, PublishParams, RepublishAlarms
<1>3. CASE BeginReconnect
  BY <1>1, <1>2, <1>3 DEF BeginReconnect, TypeOK, CloudTypeOK
<1>4. CASE FinishReconnect
  <2>1. conn' \in {"none", "trying"} /\ sess' \in SessionType
    BY <1>1, <1>4, StartType DEF FinishReconnect, CloudTypeOK, SessionType
  <2> QED
    BY <1>1, <1>2, <1>4, <2>1 DEF FinishReconnect, TypeOK, CloudTypeOK, SessionType
<1>5. CASE FirstStart
  <2>1. conn' = "trying" /\ sess' \in SessionType
    BY <1>1, <1>5, StartType DEF FirstStart
  <2> QED
    BY <1>1, <1>2, <1>5, <2>1 DEF FirstStart, TypeOK, CloudTypeOK, SessionType
<1>6. CASE Registered
  <2>1. /\ nvs' \in StoredType
        /\ {accepted', cred'} \subseteq {"boot", "own"} /\ tenant' \in {"pending", "own"}
    BY <1>1, <1>6 DEF Registered, CloudTypeOK, StoredType
  <2>2. fails' \in 0..Threshold
    BY <1>6, ThresholdType DEF Registered
  <2> QED
    BY <1>1, <1>2, <1>6, <2>1, <2>2 DEF Registered, TypeOK, CloudTypeOK, StoredType
<1>7. CASE Unregistered
  <2>1. boot' \in BOOLEAN
    BY <1>7 DEF Unregistered
  <2>2. UNCHANGED <<fixed, identity, session, fails, again, content, side, copy, stage>>
    BY <1>7 DEF Unregistered
  <2>3. {online', enabled', boot', again', changed', dirty', asked'} \subseteq BOOLEAN
    BY <1>1, <2>1, <2>2 DEF CloudTypeOK
  <2>4. CloudTypeOK'
    BY <1>1, <2>2, <2>3 DEF CloudTypeOK
  <2> QED
    BY <1>2, <2>4 DEF TypeOK
<1>8. CASE Reconnect
  BY <1>1, <1>2, <1>8 DEF Reconnect, TypeOK, CloudTypeOK
<1>9. CASE PublishMqtt
  BY <1>1, <1>2, <1>9, PublishStateType DEF PublishMqtt, TypeOK
<1>10. CASE PublishParams \/ RepublishAlarms
  <2>1. {outbox', copy'} \subseteq Values \cup {None}
    BY <1>1, <1>10, PublishType DEF PublishParams, RepublishAlarms
  <2> QED
    BY <1>1, <1>2, <1>10, <2>1 DEF PublishParams, RepublishAlarms, TypeOK, CloudTypeOK
<1> QED
  BY <1>3, <1>4, <1>5, <1>6, <1>7, <1>8, <1>9, <1>10 DEF MqttLoop

LEMMA MqttType ==
  ASSUME TypeOK, MqttNext
  PROVE  TypeOK'
<1> USE DEF fixed, identity, session, retrying, content, side
<1>1. WifiTypeOK /\ CloudTypeOK
  BY DEF TypeOK
<1>2. CASE Provision
  BY <1>1, <1>2, BudgetOnly DEF Provision, TypeOK, CloudTypeOK
<1>3. CASE Drop
  <2>1. left' \in 0..Budget /\ UNCHANGED <<air, radio, creds, service, http>>
    BY <1>1, <1>3, SpendType DEF Drop
  <2>2. inbox' \in Inboxes
    BY <1>1, <1>3, InboxTail DEF Drop, CloudTypeOK, Inboxes
  <2>3. CloudTypeOK'
    BY <1>1, <1>3, <2>2 DEF Drop, CloudTypeOK, Inboxes
  <2> QED
    BY <1>1, <2>1, <2>3, Undisturbed DEF TypeOK
<1>4. ASSUME NEW t \in {"pending", "own"}, NEW e \in BOOLEAN, PostMqtt(t, e)
      PROVE  TypeOK'
  <2>1. left' \in 0..Budget /\ UNCHANGED <<air, radio, creds, service, http>>
    BY <1>1, <1>4, SpendType, WifiAssumption DEF PostMqtt
  <2>2. nvs' \in StoredType
    BY <1>4 DEF PostMqtt, StoredType
  <2>3. CloudTypeOK'
    BY <1>1, <1>4, <2>2 DEF PostMqtt, CloudTypeOK, StoredType
  <2> QED
    BY <1>1, <2>1, <2>3, Undisturbed DEF TypeOK
<1>5. CASE RequestFullState
  <2>1. Setting \in BOOLEAN
    BY DEF Setting
  <2>2. WifiTypeOK'
    BY <1>1, <1>5, BudgetOnly DEF RequestFullState
  <2>3. CloudTypeOK'
    BY <1>1, <1>5, <2>1 DEF RequestFullState, CloudTypeOK
  <2> QED
    BY <2>2, <2>3 DEF TypeOK
<1> QED
  BY <1>2, <1>3, <1>4, <1>5, MqttTaskType, MqttLoopType DEF MqttNext

LEMMA AwsType ==
  ASSUME TypeOK, AwsNext
  PROVE  TypeOK'
<1> USE DEF fixed, identity, session, retrying, content, side
<1>1. WifiTypeOK /\ CloudTypeOK
  BY DEF TypeOK
<1>2. CASE PostCloud
  <2>1. left' \in 0..Budget /\ UNCHANGED <<air, radio, creds, service, http>>
    BY <1>1, <1>2, SpendType, WifiAssumption DEF PostCloud
  <2>2. enabled' \in BOOLEAN /\ nvs' \in StoredType
    BY <1>1, <1>2 DEF PostCloud, CloudTypeOK, StoredType
  <2>3. CloudTypeOK'
    BY <1>1, <1>2, <2>2 DEF PostCloud, CloudTypeOK, StoredType
  <2> QED
    BY <1>1, <2>1, <2>3, Undisturbed DEF TypeOK
<1>3. ASSUME AwsTask \/ AwsLoop
      PROVE  WifiTypeOK'
  BY <1>1, <1>3, BudgetOnly DEF AwsTask, AwsLoop, AwsConnected, AwsDisconnected, AwsReconnect,
     AwsStart, PublishAws, PublishState, PublishShadow, StampShadow
<1>4. CASE AwsTask
  <2>1. CASE AwsConnected
    BY <1>1, <1>3, <1>4, <2>1 DEF AwsConnected, TypeOK, CloudTypeOK
  <2>2. CASE AwsDisconnected
    <3>1. outbox' \in Values \cup {None}
      BY <1>1, <2>2 DEF AwsDisconnected, EndSession, CloudTypeOK
    <3> QED
      BY <1>1, <1>3, <1>4, <2>2, <3>1 DEF AwsDisconnected, EndSession, TypeOK, CloudTypeOK
  <2>3. CASE AwsReconnect
    BY <1>1, <1>3, <1>4, <2>3 DEF AwsReconnect, TypeOK, CloudTypeOK
  <2> QED
    BY <1>4, <2>1, <2>2, <2>3 DEF AwsTask
<1>5. CASE AwsStart
  <2>1. conn' = "trying" /\ sess' \in SessionType
    BY <1>1, <1>5, StartType DEF AwsStart
  <2> QED
    BY <1>1, <1>3, <1>5, <2>1 DEF AwsLoop, AwsStart, TypeOK, CloudTypeOK, SessionType
<1>6. CASE PublishAws
  BY <1>1, <1>3, <1>6, PublishStateType DEF AwsLoop, PublishAws, TypeOK
<1>7. CASE PublishShadow
  <2>1. {outbox', copy'} \subseteq Values \cup {None}
    <3>1. CASE Publish(value)
      BY <1>1, <3>1, PublishType
    <3>2. CASE UNCHANGED <<copy, outbox>>
      BY <1>1, <3>2 DEF CloudTypeOK
    <3> QED
      BY <1>7, <3>1, <3>2 DEF PublishShadow
  <2> QED
    BY <1>1, <1>3, <1>7, <2>1 DEF AwsLoop, PublishShadow, TypeOK, CloudTypeOK
<1>8. CASE StampShadow
  BY <1>1, <1>3, <1>8 DEF AwsLoop, StampShadow, TypeOK, CloudTypeOK
<1> QED
  BY <1>2, <1>4, <1>5, <1>6, <1>7, <1>8 DEF AwsNext, AwsLoop

\* The driver's events, the service's flags and timers, the client's session and
\* the commands on the way keep their types, in either build and for any number
\* of disturbances, retries and failures.
THEOREM UplinkTypes == Spec => []TypeOK
<1>1. Init => TypeOK
  <2> SUFFICES ASSUME Init
               PROVE  TypeOK
    OBVIOUS
  <2>1. creds \in BOOLEAN /\ radio \in DriverType
    BY PowerOn DEF Init, WifiInit
  <2>2. Budget \in 0..Budget
    BY WifiAssumption
  <2>3. WifiTypeOK
    BY <2>1, <2>2, NoRetry DEF Init, WifiInit, WifiTypeOK, DriverType
  <2>4. 0 \in 0..Threshold /\ 0 \in Values
    BY ThresholdType DEF Values
  <2>5. cred \in {"boot", "own"} /\ tenant \in {"pending", "own"} /\ kind \in Kinds
    BY DEF Init, CloudInit
  <2>6. sess \in SessionType /\ accepted \in {"boot", "own"}
    BY <2>5 DEF Init, CloudInit, SessionType
  <2>7. nvs \in StoredType /\ enabled \in BOOLEAN
    <3>1. \/ nvs = [pass |-> TRUE, enabled |-> TRUE]
          \/ nvs = [pass |-> FALSE, enabled |-> FALSE]
      BY DEF Init, CloudInit
    <3>2. (nvs.enabled \/ (build = "mqtt" /\ ~nvs.pass)) \in BOOLEAN
      BY <3>1
    <3> QED
      <4>1. nvs \in StoredType
        <5>1. CASE nvs = [pass |-> TRUE, enabled |-> TRUE]
          BY <5>1 DEF StoredType
        <5>2. CASE nvs = [pass |-> FALSE, enabled |-> FALSE]
          BY <5>2 DEF StoredType
        <5> QED
          BY <3>1, <5>1, <5>2
      <4>2. enabled = (nvs.enabled \/ (build = "mqtt" /\ ~nvs.pass))
        BY DEF Init, CloudInit, Loaded
      <4> QED
        BY <3>2, <4>1, <4>2
  <2>8. CloudTypeOK
    BY <2>4, <2>5, <2>6, <2>7 DEF Init, CloudInit, CloudTypeOK, SessionType, StoredType
  <2> QED
    BY <2>3, <2>8 DEF TypeOK
<1>2. TypeOK /\ [Next]_vars => TypeOK'
  <2> SUFFICES ASSUME TypeOK, [Next]_vars
               PROVE  TypeOK'
    OBVIOUS
  <2>1. WifiTypeOK /\ CloudTypeOK
    BY DEF TypeOK
  <2>2. ASSUME UNCHANGED cloudVars
        PROVE  CloudTypeOK'
    BY <2>1, <2>2 DEF cloudVars, fixed, identity, session, retrying, content, side, CloudTypeOK
  <2>3. CASE WifiStep
    BY <2>1, <2>2, <2>3, EventsType, RequestsType, OutsideType, LoopWifiType DEF WifiStep, TypeOK
  <2>4. CASE Restart
    <3>1. WifiTypeOK'
      BY <2>1, <2>4, RestartsType DEF Restart
    <3>2. enabled' \in BOOLEAN /\ 0 \in 0..Threshold
      BY <2>1, <2>4, ThresholdType DEF Restart, CloudBoot, Loaded, CloudTypeOK
    <3> QED
      BY <2>1, <2>4, <3>1, <3>2 DEF Restart, CloudBoot, TypeOK, CloudTypeOK, fixed
  <2>5. CASE UNCHANGED vars
    BY <2>1, <2>2, <2>5, BudgetOnly DEF vars, TypeOK
  <2> QED
    BY <2>3, <2>4, <2>5, SharedType, MqttType, AwsType DEF Next
<1> QED
  BY <1>1, <1>2, PTL DEF Spec

===============================================================================
