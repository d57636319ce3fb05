--------------------------- MODULE AudioRingProofs ---------------------------
(***************************************************************************)
(* Proofs about AudioRing, for any capacity, any point where the cursors   *)
(* wrap, any packets, rates and targets: what the pump takes is what was   *)
(* pushed there, for the format and the talkspurt the converter is set to. *)
(*                                                                         *)
(* The cursors are remainders.  The invariant speaks of the positions they *)
(* stand for, naturals that never wrap, and says that there are such.      *)
(***************************************************************************)
EXTENDS AudioRing, TLAPS

-----------------------------------------------------------------------------
(* Cursors and the positions they stand for *)

\* The place of position p in the ring, and the cursor of it.
Slot(p) == p % Capacity
Cursor(p) == p % Wrap

\* What is assumed of the two.
LEMMA Sizes ==
    /\ Capacity \in Nat \ {0} /\ Wrap \in Nat \ {0} /\ Wrap >= 3 * Capacity
    /\ Wrap % Capacity = 0 /\ FadeFrames \in Nat \ {0}
    /\ TargetMin \in Nat \ {0} /\ TargetInitial \in Nat \ {0}
    /\ Headroom \in Nat /\ TrimKeep \in Nat /\ TrimError \in Nat
BY RingConstants

\* The remainder, by a name the provers do not look into.
Remainder(x, m) == x % m

\* Numbers that differ by a multiple of m.
Congruent(m, x, y) == \E q \in Int : x - y = m * q

\* Multiples add up, and a multiple of a multiple is one.
LEMMA Multiples ==
    ASSUME NEW m \in Int, NEW x \in Int, NEW y \in Int
    PROVE  /\ m * (x + y) = m * x + m * y /\ m * (x - y) = m * x - m * y
           /\ m * x \in Int /\ m * y \in Int /\ (m * x) * y = m * (x * y) /\ x * y \in Int
BY SMT

\* A number is congruent to its remainder.
LEMMA CongruentRemainder ==
    ASSUME NEW m \in Nat \ {0}, NEW x \in Int
    PROVE  Congruent(m, x, Remainder(x, m)) /\ Remainder(x, m) \in 0..(m - 1)
<1>1. /\ x \div m \in Int /\ x % m \in 0..(m - 1)
      /\ x = m * (x \div m) + (x % m) /\ m * (x \div m) \in Int
  BY SMT
<1>2. x - (x % m) = m * (x \div m)
  BY <1>1
<1> QED BY <1>1, <1>2 DEF Congruent, Remainder

\* A number below m is its own remainder.
LEMMA Small == ASSUME NEW m \in Nat \ {0}, NEW c \in 0..(m - 1) PROVE Remainder(c, m) = c
BY SMT DEF Remainder

\* Congruent numbers have the same remainder.
LEMMA SameRemainder ==
    ASSUME NEW m \in Nat \ {0}, NEW x \in Int, NEW y \in Int, Congruent(m, x, y)
    PROVE  Remainder(x, m) = Remainder(y, m)
<1>1. PICK q \in Int : x - y = m * q
  BY DEF Congruent
<1>2. PICK u \in Int, c \in 0..(m - 1) : c = Remainder(y, m) /\ y - c = m * u
  BY CongruentRemainder DEF Congruent
<1>3. m * (q + u) = m * q + m * u /\ m * q \in Int /\ m * u \in Int
  BY Multiples
<1> DEFINE s == m * q
           t == m * u
           v == m * (q + u)
<1>4. x = v + c
  <2>1. v = s + t /\ s \in Int /\ t \in Int /\ x - y = s /\ y - c = t /\ c \in Int
    BY <1>1, <1>2, <1>3
  <2> HIDE DEF s, t, v
  <2> QED BY <2>1
<1>5. ASSUME NEW k \in Int, x = m * k + c PROVE Remainder(x, m) = c
  BY <1>5, SMT DEF Remainder
<1>6. Remainder(x, m) = c
  <2>1. q + u \in Int /\ x = m * (q + u) + c
    BY <1>4
  <2> QED BY <2>1, <1>5
<1> QED BY <1>2, <1>6

\* Congruence goes with differences, and with a number added to both.
LEMMA CongruentSums ==
    ASSUME NEW m \in Nat \ {0}, NEW a \in Int, NEW b \in Int, NEW c \in Int, NEW d \in Int
    PROVE  /\ Congruent(m, a, b) /\ Congruent(m, c, d) => Congruent(m, a - c, b - d)
           /\ Congruent(m, a, b) => Congruent(m, a + c, b + c)
           /\ Congruent(m, a, b) => Congruent(m, b, a)
           /\ Congruent(m, a, b) => Congruent(m, a, b + m)
<1>1. ASSUME Congruent(m, a, b), Congruent(m, c, d) PROVE Congruent(m, a - c, b - d)
  <2>1. PICK q \in Int : a - b = m * q
    BY <1>1 DEF Congruent
  <2>2. PICK u \in Int : c - d = m * u
    BY <1>1 DEF Congruent
  <2>3. m * (q - u) = m * q - m * u /\ q - u \in Int
    BY Multiples
  <2>4. (a - c) - (b - d) = m * (q - u)
    BY <2>1, <2>2, <2>3
  <2> QED BY <2>3, <2>4 DEF Congruent
<1>2. ASSUME Congruent(m, a, b)
      PROVE  Congruent(m, a + c, b + c) /\ Congruent(m, b, a) /\ Congruent(m, a, b + m)
  <2>1. PICK q \in Int : a - b = m * q
    BY <1>2 DEF Congruent
  <2>2. m * (0 - q) = m * 0 - m * q /\ m * (q - 1) = m * q - m * 1 /\ m * q \in Int
    BY Multiples
  <2>3. (a + c) - (b + c) = m * q /\ b - a = m * (0 - q) /\ a - (b + m) = m * (q - 1)
    BY <2>1, <2>2
  <2> QED BY <2>3 DEF Congruent
<1> QED BY <1>1, <1>2

\* A cursor is congruent to its position, for the wrap and for the capacity.
LEMMA CursorCongruent ==
    ASSUME NEW a \in Nat
    PROVE  /\ Congruent(Wrap, a, Cursor(a)) /\ Congruent(Capacity, a, Cursor(a))
           /\ Cursor(a) \in 0..(Wrap - 1)
<1>1. Wrap \in Nat \ {0} /\ Capacity \in Nat \ {0} /\ Wrap % Capacity = 0
  BY Sizes
<1>2. Congruent(Wrap, a, Cursor(a)) /\ Cursor(a) \in 0..(Wrap - 1)
  <2>1. Cursor(a) = Remainder(a, Wrap) /\ a \in Int
    BY DEF Cursor, Remainder
  <2> QED BY <1>1, <2>1, CongruentRemainder
<1>3. PICK q \in Int : a - Cursor(a) = Wrap * q
  BY <1>2 DEF Congruent
<1>4. PICK k \in Int : Wrap = Capacity * k
  <2>1. Congruent(Capacity, Wrap, 0)
    BY <1>1, CongruentRemainder DEF Remainder
  <2> QED BY <1>1, <2>1 DEF Congruent
<1>5. (Capacity * k) * q = Capacity * (k * q) /\ k * q \in Int
  BY <1>1, Multiples
<1>6. a - Cursor(a) = Capacity * (k * q)
  BY <1>3, <1>4, <1>5
<1>7. Congruent(Capacity, a, Cursor(a))
  BY <1>5, <1>6 DEF Congruent
<1> QED BY <1>2, <1>7

\* Cursors stand for the difference of their positions while that is less than a wrap, and a
\* position left behind looks a wrap ahead.
LEMMA AheadFacts ==
    ASSUME NEW a \in Nat, NEW b \in Nat
    PROVE  /\ a <= b /\ b < a + Wrap => Ahead(Cursor(a), Cursor(b)) = b - a
           /\ b < a /\ a <= b + Wrap => Ahead(Cursor(a), Cursor(b)) = Wrap - (a - b)
<1>1. Wrap \in Nat \ {0}
  BY Sizes
<1>2. /\ Congruent(Wrap, a, Cursor(a)) /\ Cursor(a) \in Int
      /\ Congruent(Wrap, b, Cursor(b)) /\ Cursor(b) \in Int
  BY <1>1, CursorCongruent
<1> DEFINE d == Cursor(b) - Cursor(a)
           e == b - a
<1>3. d \in Int /\ e \in Int /\ e + Wrap \in Int
  BY <1>1, <1>2
<1>4. Congruent(Wrap, d, e) /\ Congruent(Wrap, d, e + Wrap)
  <2>1. Congruent(Wrap, e, d)
    BY <1>1, <1>2, CongruentSums
  <2> HIDE DEF d, e
  <2>2. Congruent(Wrap, d, e)
    BY <1>1, <1>3, <2>1, CongruentSums
  <2> QED BY <1>1, <1>3, <2>2, CongruentSums
<1>5. Ahead(Cursor(a), Cursor(b)) = Remainder(d, Wrap)
  BY DEF Ahead, Remainder
<1> HIDE DEF d
<1>6. Remainder(d, Wrap) = Remainder(e, Wrap) /\ Remainder(d, Wrap) = Remainder(e + Wrap, Wrap)
  <2> HIDE DEF e
  <2> QED BY <1>1, <1>3, <1>4, SameRemainder
<1>7. ASSUME a <= b, b < a + Wrap PROVE Remainder(e, Wrap) = e
  BY <1>1, <1>7, Small
<1>8. ASSUME b < a, a <= b + Wrap PROVE Remainder(e + Wrap, Wrap) = e + Wrap
  BY <1>1, <1>8, Small
<1> QED BY <1>1, <1>5, <1>6, <1>7, <1>8

\* A cursor that goes on stands for a position that goes on.
LEMMA GoesOn ==
    ASSUME NEW a \in Nat, NEW n \in Int
    PROVE  (Cursor(a) + n) % Wrap = (a + n) % Wrap
<1>1. Wrap \in Nat \ {0} /\ Congruent(Wrap, a, Cursor(a)) /\ Cursor(a) \in Int
  BY Sizes, CursorCongruent
<1>2. Congruent(Wrap, a + n, Cursor(a) + n)
  BY <1>1, CongruentSums
<1>3. Remainder(a + n, Wrap) = Remainder(Cursor(a) + n, Wrap)
  BY <1>1, <1>2, SameRemainder
<1> QED BY <1>3 DEF Remainder

\* The place of a cursor is the place of its position.
LEMMA SamePlace == ASSUME NEW a \in Nat PROVE Cursor(a) % Capacity = Slot(a)
<1>1. Capacity \in Nat \ {0} /\ Congruent(Capacity, a, Cursor(a)) /\ Cursor(a) \in Int
  BY Sizes, CursorCongruent
<1>2. Remainder(a, Capacity) = Remainder(Cursor(a), Capacity)
  BY <1>1, SameRemainder
<1> QED BY <1>2 DEF Slot, Remainder

\* How far a place is from a cursor, for the positions of the lap that begins there and of the
\* lap before it.
LEMMA Distance ==
    ASSUME NEW a \in Nat, NEW b \in Nat
    PROVE  /\ a <= b /\ b < a + Capacity => (Slot(b) - Cursor(a)) % Capacity = b - a
           /\ b < a /\ a <= b + Capacity => (Slot(b) - Cursor(a)) % Capacity = Capacity - (a - b)
<1>1. Capacity \in Nat \ {0}
  BY Sizes
<1>2. /\ Congruent(Capacity, a, Cursor(a)) /\ Cursor(a) \in Int
      /\ Congruent(Capacity, b, Slot(b)) /\ Slot(b) \in Int
  <2>1. Slot(b) = Remainder(b, Capacity) /\ b \in Int
    BY DEF Slot, Remainder
  <2>2. Congruent(Capacity, b, Slot(b)) /\ Slot(b) \in Int
    BY <1>1, <2>1, CongruentRemainder
  <2> QED BY <2>2, Sizes, CursorCongruent
<1> DEFINE d == Slot(b) - Cursor(a)
           e == b - a
<1>3. d \in Int /\ e \in Int /\ e + Capacity \in Int
  BY <1>1, <1>2
<1>4. Congruent(Capacity, d, e) /\ Congruent(Capacity, d, e + Capacity)
  <2>1. Congruent(Capacity, e, d)
    BY <1>1, <1>2, CongruentSums
  <2> HIDE DEF d, e
  <2>2. Congruent(Capacity, d, e)
    BY <1>1, <1>3, <2>1, CongruentSums
  <2> QED BY <1>1, <1>3, <2>2, CongruentSums
<1>5. (Slot(b) - Cursor(a)) % Capacity = Remainder(d, Capacity)
  BY DEF Remainder
<1> HIDE DEF d
<1>6. /\ Remainder(d, Capacity) = Remainder(e, Capacity)
      /\ Remainder(d, Capacity) = Remainder(e + Capacity, Capacity)
  <2> HIDE DEF e
  <2> QED BY <1>1, <1>3, <1>4, SameRemainder
<1>7. ASSUME a <= b, b < a + Capacity PROVE Remainder(e, Capacity) = e
  BY <1>1, <1>7, Small
<1>8. ASSUME b < a, a <= b + Capacity PROVE Remainder(e + Capacity, Capacity) = e + Capacity
  BY <1>1, <1>8, Small
<1> QED BY <1>1, <1>5, <1>6, <1>7, <1>8

\* The places of the frames up to the end of the ring follow each other.
LEMMA NextPlaces ==
    ASSUME NEW a \in Nat, NEW i \in Nat, Slot(a) + i < Capacity
    PROVE  Slot(a + i) = Slot(a) + i
<1>1. /\ Capacity \in Nat \ {0}
      /\ Congruent(Capacity, a, Slot(a)) /\ Slot(a) \in 0..(Capacity - 1)
  BY Sizes, CongruentRemainder DEF Slot, Remainder
<1>2. Congruent(Capacity, a + i, Slot(a) + i)
  BY <1>1, CongruentSums
<1>3. Remainder(a + i, Capacity) = Remainder(Slot(a) + i, Capacity)
  <2>1. a + i \in Int /\ Slot(a) + i \in Int
    BY <1>1
  <2> QED BY <1>1, <1>2, <2>1, SameRemainder
<1>4. Slot(a) + i \in 0..(Capacity - 1)
  BY <1>1
<1>5. Remainder(Slot(a) + i, Capacity) = Slot(a) + i
  BY <1>1, <1>4, Small
<1> QED BY <1>3, <1>5 DEF Slot, Remainder

-----------------------------------------------------------------------------
(* Types *)

Cursors == 0..(Wrap - 1)

WorkerPlaces ==
    {"idle", "formatReset", "formatGeneration", "formatOpen", "closeReset", "closeGeneration",
     "spurtCursor", "spurtGeneration", "pushRead", "publish"}

PumpPlaces ==
    {"generation", "rate", "reset", "talkspurt", "spurtCursor", "prepare", "segment", "more",
     "convert", "underrun"}

SharedType ==
    [read : Cursors, write : Cursors, reset : Cursors, gen : Nat, rate : Nat, open : BOOLEAN,
     spurtCursor : Cursors, spurt : Nat, trim : BOOLEAN, target : Nat \ {0}]

FrameType == [at : Cursors, gen : Nat, spurt : Nat, rate : Nat]

WorkerType == [pc : WorkerPlaces, rate : Nat, frames : Nat, known : BOOLEAN]

PumpType ==
    [pc : PumpPlaces, converting : BOOLEAN, changed : BOOLEAN, loaded : Nat, applied : Nat,
     seen : Nat, rate : Nat, write : Cursors, live : BOOLEAN, rebuffering : BOOLEAN,
     trimAfterFade : BOOLEAN, fade : Int, segment : Int, left : Int, underrun : BOOLEAN]

\* What the variables hold.
Types ==
    /\ shared \in SharedType
    /\ ring \in [0..(Capacity - 1) -> FrameType]
    /\ producer \in WorkerType
    /\ pump \in PumpType
    /\ limits \in Limits
    /\ age \in Nat

\* A limit is one of those allowed.
LEMMA LimitFacts ==
    ASSUME limits \in Limits
    PROVE  /\ limits.formats \in Nat /\ limits.gaps \in Nat /\ limits.rates \subseteq Nat
           /\ limits.most \in Nat \ {0} /\ TargetInitial <= limits.most
BY RingConstants

\* Anything taken modulo the wrap is a cursor.
LEMMA CursorType == ASSUME NEW x \in Int PROVE x % Wrap \in Cursors
<1>1. Wrap \in Nat \ {0} /\ Remainder(x, Wrap) \in 0..(Wrap - 1)
  BY Sizes, CongruentRemainder
<1> QED BY <1>1 DEF Remainder, Cursors

\* The distance between two cursors is a natural.
LEMMA AheadType == ASSUME NEW a \in Cursors, NEW b \in Cursors PROVE Ahead(a, b) \in Cursors
<1>1. b - a \in Int
  BY DEF Cursors
<1> QED BY <1>1, CursorType DEF Ahead

\* The values the records are given.
LEMMA Values ==
    /\ 0 \in Int /\ 0 \in Nat /\ TRUE \in BOOLEAN /\ FALSE \in BOOLEAN /\ 0 \in Cursors
    /\ \A x \in BOOLEAN, y \in BOOLEAN : (x \/ y) \in BOOLEAN /\ (x /\ ~y) \in BOOLEAN
    /\ {"idle", "formatReset", "formatGeneration", "formatOpen", "closeReset",
        "closeGeneration", "spurtCursor", "spurtGeneration", "pushRead", "publish"}
          \subseteq WorkerPlaces
    /\ {"generation", "rate", "reset", "talkspurt", "spurtCursor", "prepare", "segment", "more",
        "convert", "underrun"} \subseteq PumpPlaces
BY Sizes DEF Cursors, WorkerPlaces, PumpPlaces

\* The records of the pump's side keep their type.
LEMMA PumpParts ==
    ASSUME NEW p \in PumpType
    PROVE  /\ Rest(p) \in PumpType /\ Cut(p) \in PumpType /\ AfterChecks(p) \in PumpType
           /\ \A short \in BOOLEAN : SegmentDone(p, short) \in PumpType
<1>1. \A place \in {"generation", "prepare", "convert", "underrun", "segment"} :
        place \in PumpPlaces
  BY Values
<1>2. ASSUME NEW x \in PumpType PROVE Rest(x) \in PumpType
  BY <1>1, Values, Zenon DEF Rest, PumpType
<1>3. Cut(p) \in PumpType
  BY Values, Zenon DEF Cut, PumpType
<1>4. AfterChecks(p) \in PumpType
  <2>1. \A place \in PumpPlaces : [p EXCEPT !.pc = place] \in PumpType
    BY Zenon DEF PumpType
  <2> QED BY <1>1, <1>2, <2>1 DEF AfterChecks
<1>5. ASSUME NEW short \in BOOLEAN PROVE SegmentDone(p, short) \in PumpType
  <2>1. [p EXCEPT !.fade = 0] \in PumpType
    BY Values, Zenon DEF PumpType
  <2>2. [p EXCEPT !.pc = "underrun", !.fade = 0] \in PumpType
    BY <1>1, Values, Zenon DEF PumpType
  <2> DEFINE left == p.left - p.segment
             under == p.underrun \/ short
  <2>3. left \in Int /\ under \in BOOLEAN
    BY DEF PumpType
  <2> HIDE DEF left, under
  <2>4. [p EXCEPT !.pc = "segment", !.left = left, !.underrun = under, !.fade = 0,
                  !.segment = 0, !.write = 0] \in PumpType
    BY <1>1, <2>3, Values, Zenon DEF PumpType
  <2> QED BY <1>2, <2>1, <2>2, <2>4 DEF SegmentDone, left, under
<1> QED BY <1>2, <1>3, <1>4, <1>5

\* A trim moves the reader's cursor and clears the request.
LEMMA TrimType ==
    ASSUME NEW s \in SharedType, NEW rate \in Nat
    PROVE  Trimmed(s, rate) \in SharedType
<1> DEFINE queued == Ahead(s.read, s.write)
           kept   == (s.target + TrimKeep) * rate
           read   == IF queued > kept THEN (s.read + queued - kept) % Wrap ELSE s.read
<1>1. queued \in Int /\ s.read \in Int /\ s.read \in Cursors
  BY AheadType DEF SharedType, Cursors
<1>2. kept \in Int
  <2>1. s.target + TrimKeep \in Int
    BY Sizes DEF SharedType
  <2> QED BY <2>1, Multiples
<1> HIDE DEF queued, kept
<1>3. (s.read + queued - kept) % Wrap \in Cursors
  <2>1. s.read + queued - kept \in Int
    BY <1>1, <1>2
  <2> QED BY <2>1, CursorType
<1>4. read \in Cursors
  BY <1>1, <1>3
<1>5. Trimmed(s, rate) = [s EXCEPT !.read = read, !.trim = FALSE]
  BY DEF Trimmed, queued, kept
<1> HIDE DEF read
<1> QED BY <1>4, <1>5 DEF SharedType

\* The worker's steps, and time, keep the types.
LEMMA WorkerTypes ==
    ASSUME Types,
           \/ \E rate \in limits.rates : SetFormat(rate)
           \/ Close
           \/ \E frames \in PushSizes, target \in TargetMin..limits.most : BeginPush(frames, target)
           \/ FormatCall \/ PushCall \/ Tick
    PROVE  Types'
<1>1. /\ shared \in SharedType /\ producer \in WorkerType /\ pump \in PumpType
      /\ ring \in [0..(Capacity - 1) -> FrameType] /\ limits \in Limits /\ age \in Nat
  BY DEF Types
<1>2. /\ shared.write \in Cursors /\ shared.read \in Cursors /\ shared.gen \in Nat
      /\ shared.spurt \in Nat /\ shared.gen + 1 \in Nat /\ shared.spurt + 1 \in Nat
  <2>1. /\ shared.write \in Cursors /\ shared.read \in Cursors /\ shared.gen \in Nat
        /\ shared.spurt \in Nat
    BY <1>1 DEF SharedType
  <2> QED BY <2>1
<1>3. /\ TRUE \in BOOLEAN /\ FALSE \in BOOLEAN /\ 0 \in Nat
      /\ \A p \in {"idle", "formatReset", "formatGeneration", "formatOpen", "closeReset",
                   "closeGeneration", "spurtCursor", "spurtGeneration", "pushRead", "publish"} :
           p \in WorkerPlaces
  BY Values
<1> SUFFICES /\ shared' \in SharedType
             /\ producer' \in WorkerType
             /\ ring' \in [0..(Capacity - 1) -> FrameType]
             /\ pump' = pump /\ limits' = limits /\ age' \in Nat
  BY <1>1 DEF Types
<1>4. CASE \E rate \in limits.rates : SetFormat(rate)
  <2>1. PICK rate \in Nat : SetFormat(rate)
    BY <1>1, <1>4, LimitFacts
  <2>2. producer' \in WorkerType
    BY <1>1, <1>3, <2>1, Zenon DEF SetFormat, WorkerType
  <2>3. shared' \in SharedType
    BY <1>1, <2>1, Sizes, Zenon DEF SetFormat, SharedType
  <2> QED BY <1>1, <2>1, <2>2, <2>3 DEF SetFormat, ReaderIdle
<1>5. CASE Close
  <2>1. producer' \in WorkerType /\ shared' \in SharedType
    BY <1>1, <1>3, <1>5, Zenon DEF Close, ProducerAt, WorkerType, SharedType
  <2> QED BY <1>1, <1>5, <2>1 DEF Close, ReaderIdle
<1>6. CASE \E frames \in PushSizes, target \in TargetMin..limits.most : BeginPush(frames, target)
  <2>1. PICK frames \in Nat, target \in Nat \ {0} : BeginPush(frames, target)
    BY <1>6, Sizes, RingConstants
  <2> DEFINE place == IF producer.known /\ age = 2 THEN "spurtCursor" ELSE "pushRead"
  <2>2. place \in WorkerPlaces
    BY <1>3
  <2>3. producer' = [producer EXCEPT !.pc = place, !.frames = frames, !.known = TRUE]
    BY <2>1 DEF BeginPush
  <2> HIDE DEF place
  <2>4. producer' \in WorkerType
    BY <1>1, <1>3, <2>2, <2>3, Zenon DEF WorkerType
  <2>5. shared' \in SharedType
    BY <1>1, <2>1, Zenon DEF BeginPush, SharedType
  <2> QED BY <1>1, <2>1, <2>4, <2>5 DEF BeginPush, ReaderIdle
<1>7. CASE FormatCall
  <2>1. CASE FormatReset \/ FormatGeneration \/ FormatOpen \/ CloseReset
    <3>1. producer' \in WorkerType
      BY <1>1, <1>3, <2>1, Zenon
      DEF FormatReset, FormatGeneration, FormatOpen, CloseReset, ProducerAt, WorkerType
    <3>2. shared' \in SharedType
      BY <1>1, <1>2, <1>3, <2>1, Zenon
      DEF FormatReset, FormatGeneration, FormatOpen, CloseReset, SharedType
    <3> QED BY <1>1, <2>1, <3>1, <3>2
            DEF FormatReset, FormatGeneration, FormatOpen, CloseReset, ReaderIdle
  <2>2. CASE CloseGeneration
    <3>1. producer' \in WorkerType
      BY <1>1, <1>3, <2>2, Zenon DEF CloseGeneration, WorkerType
    <3>2. shared' \in SharedType
      BY <1>1, <1>2, <2>2, Zenon DEF CloseGeneration, SharedType
    <3> QED BY <1>1, <2>2, <3>1, <3>2 DEF CloseGeneration, ReaderIdle
  <2> QED BY <1>7, <2>1, <2>2 DEF FormatCall
<1>8. CASE SpurtCursor \/ SpurtGeneration
  <2>1. producer' \in WorkerType
    BY <1>1, <1>3, <1>8, Zenon DEF SpurtCursor, SpurtGeneration, ProducerAt, WorkerType
  <2>2. shared' \in SharedType
    BY <1>1, <1>2, <1>8, Zenon DEF SpurtCursor, SpurtGeneration, SharedType
  <2> QED BY <1>1, <1>8, <2>1, <2>2 DEF SpurtCursor, SpurtGeneration, ReaderIdle
<1>9. CASE PushRead
  <2> DEFINE fits == Least(producer.frames, Room(Ahead(shared.read, shared.write)))
             place == IF fits = 0 THEN "idle" ELSE "publish"
             ask == shared.trim \/ fits < producer.frames
  <2>1. fits \in Nat
    <3>1. Ahead(shared.read, shared.write) \in Nat
      BY <1>2, AheadType DEF Cursors
    <3>2. producer.frames \in Nat
      BY <1>1 DEF WorkerType
    <3> QED BY <3>1, <3>2, Sizes DEF Room, Least
  <2>2. place \in WorkerPlaces /\ ask \in BOOLEAN
    BY <1>3
  <2>3. /\ producer' = [producer EXCEPT !.pc = place, !.frames = fits]
        /\ shared' = [shared EXCEPT !.trim = ask]
    BY <1>9 DEF PushRead
  <2>4. ring' \in [0..(Capacity - 1) -> FrameType]
    <3> DEFINE k(i) == (i - shared.write) % Capacity
               new(i) == [at |-> (shared.write + k(i)) % Wrap, gen |-> shared.gen,
                          spurt |-> shared.spurt, rate |-> producer.rate]
    <3>1. ASSUME NEW i \in 0..(Capacity - 1) PROVE new(i) \in FrameType
      <4>1. i - shared.write \in Int /\ shared.write \in Int /\ Capacity \in Nat \ {0}
        BY <1>2, Sizes DEF Cursors
      <4>2. k(i) \in Int
        <5> DEFINE x == i - shared.write
        <5>1. x \in Int
          BY <4>1
        <5> HIDE DEF x
        <5>2. Remainder(x, Capacity) \in Int
          BY <4>1, <5>1, CongruentRemainder
        <5> QED BY <5>2 DEF Remainder, x
      <4> HIDE DEF k
      <4>3. shared.write + k(i) \in Int
        BY <4>1, <4>2
      <4>4. (shared.write + k(i)) % Wrap \in Cursors
        BY <4>3, CursorType
      <4>5. producer.rate \in Nat
        BY <1>1 DEF WorkerType
      <4> QED BY <1>2, <4>4, <4>5, Zenon DEF FrameType
    <3> HIDE DEF new
    <3>2. ring' = [i \in DOMAIN ring |-> IF k(i) < fits THEN new(i) ELSE ring[i]]
      BY <1>9 DEF PushRead, new
    <3> HIDE DEF k, fits
    <3> QED BY <1>1, <3>1, <3>2
  <2> HIDE DEF fits, place, ask
  <2>5. producer' \in WorkerType
    BY <1>1, <2>1, <2>2, <2>3, Zenon DEF WorkerType
  <2>6. shared' \in SharedType
    BY <1>1, <2>2, <2>3, Zenon DEF SharedType
  <2> QED BY <1>1, <1>9, <2>4, <2>5, <2>6 DEF PushRead, ReaderIdle
<1>10. CASE Publish
  <2>1. producer' \in WorkerType
    BY <1>1, <1>3, <1>10, Zenon DEF Publish, WorkerType
  <2>2. (shared.write + producer.frames) % Wrap \in Cursors
    <3>1. shared.write + producer.frames \in Int
      BY <1>1, <1>2 DEF WorkerType, Cursors
    <3> QED BY <3>1, CursorType
  <2>3. shared' \in SharedType
    BY <1>1, <1>10, <2>2, Zenon DEF Publish, SharedType
  <2> QED BY <1>1, <1>10, <2>1, <2>3 DEF Publish, ReaderIdle
<1>11. CASE Tick
  BY <1>1, <1>11 DEF Tick, ReaderIdle
<1> QED BY <1>4, <1>5, <1>6, <1>7, <1>8, <1>9, <1>10, <1>11 DEF PushCall

\* The pump's steps keep the types.
LEMMA PumpTypes ==
    ASSUME Types, Render
    PROVE  Types'
<1>1. /\ shared \in SharedType /\ producer \in WorkerType /\ pump \in PumpType
      /\ ring \in [0..(Capacity - 1) -> FrameType] /\ limits \in Limits /\ age \in Nat
  BY DEF Types
<1>2. ring' = ring /\ producer' = producer /\ age' = age /\ limits' = limits
  BY DEF Render, LoadGeneration, LoadRate, ApplyGeneration, LoadTalkspurt, ApplyTalkspurt,
         Prepare, LoadWrite, Convert, Underrun, WriterIdle
<1>3. /\ TRUE \in BOOLEAN /\ FALSE \in BOOLEAN /\ 0 \in Nat /\ 0 \in Int
      /\ \A p \in {"generation", "rate", "reset", "talkspurt", "spurtCursor", "prepare",
                   "segment", "more", "convert", "underrun"} : p \in PumpPlaces
  BY Values
<1>4. /\ shared.read \in Cursors /\ shared.write \in Cursors /\ shared.reset \in Cursors
      /\ shared.spurtCursor \in Cursors /\ shared.gen \in Nat /\ shared.rate \in Nat
      /\ shared.spurt \in Nat /\ pump.loaded \in Nat /\ pump.rate \in Nat
      /\ shared.target \in Nat \ {0}
  BY <1>1, Zenon DEF SharedType, PumpType
<1>5. SUFFICES shared' \in SharedType /\ pump' \in PumpType
  BY <1>1, <1>2 DEF Types
<1>6. CASE LoadGeneration
  <2>1. /\ [pump EXCEPT !.pc = "talkspurt"] \in PumpType
        /\ [pump EXCEPT !.pc = "rate", !.loaded = shared.gen] \in PumpType
    BY <1>1, <1>3, <1>4, Zenon DEF PumpType
  <2> QED BY <1>1, <1>6, <2>1 DEF LoadGeneration
<1>7. CASE LoadRate
  <2>1. pump' \in PumpType
    BY <1>1, <1>3, <1>4, <1>7, Zenon DEF LoadRate, PumpType
  <2> QED BY <1>1, <1>7, <2>1 DEF LoadRate
<1>8. CASE ApplyGeneration
  <2>1. Cut(pump) \in PumpType
    BY <1>1, PumpParts
  <2>2. pump' \in PumpType
    BY <1>3, <1>4, <1>8, <2>1, Zenon DEF ApplyGeneration, PumpType
  <2>3. Advanced(shared.read, shared.reset) \in Cursors
    BY <1>4 DEF Advanced
  <2>4. shared' \in SharedType
    BY <1>1, <1>8, <2>3, Zenon DEF ApplyGeneration, SharedType
  <2> QED BY <2>2, <2>4
<1>9. CASE LoadTalkspurt
  <2>1. AfterChecks(pump) \in PumpType
    BY <1>1, PumpParts
  <2>2. [pump EXCEPT !.pc = "spurtCursor", !.loaded = shared.spurt] \in PumpType
    BY <1>1, <1>3, <1>4, Zenon DEF PumpType
  <2> QED BY <1>1, <1>9, <2>1, <2>2 DEF LoadTalkspurt
<1>10. CASE ApplyTalkspurt
  <2> DEFINE p == [Cut(pump) EXCEPT !.seen = pump.loaded, !.changed = TRUE, !.loaded = 0]
  <2>1. Cut(pump) \in PumpType
    BY <1>1, PumpParts
  <2>2. p \in PumpType
    BY <1>3, <1>4, <2>1, Zenon DEF PumpType
  <2>3. pump' = AfterChecks(p)
    BY <1>10 DEF ApplyTalkspurt
  <2> HIDE DEF p
  <2>4. pump' \in PumpType
    BY <2>2, <2>3, PumpParts
  <2>5. Advanced(shared.read, shared.spurtCursor) \in Cursors
    BY <1>4 DEF Advanced
  <2>6. shared' \in SharedType
    BY <1>1, <1>10, <2>5, Zenon DEF ApplyTalkspurt, SharedType
  <2> QED BY <2>4, <2>6
<1>11. CASE Prepare
  <2> DEFINE usable == shared.open /\ pump.rate # 0
             s == IF usable /\ pump.rebuffering /\ WantsTrim(shared)
                    THEN Trimmed(shared, pump.rate) ELSE shared
             live == pump.live \/ (pump.rebuffering /\ MayStart(s))
             fades == ~pump.trimAfterFade /\ pump.fade = 0 /\ WantsTrim(s)
             after == pump.trimAfterFade \/ fades
             fade == IF fades THEN FadeFrames ELSE pump.fade
             going == [pump EXCEPT !.pc = "segment", !.live = TRUE, !.rebuffering = FALSE,
                                   !.trimAfterFade = after, !.fade = fade,
                                   !.left = 2 * FadeFrames, !.changed = FALSE]
             idle == [pump EXCEPT !.live = FALSE, !.rebuffering = TRUE]
  <2>1. shared' = s /\ s \in SharedType
    BY <1>1, <1>4, <1>11, TrimType DEF Prepare
  <2>2. pump' = CASE ~usable -> Rest(idle)
                  [] usable /\ ~live -> Rest(pump)
                  [] usable /\ live -> going
    BY <1>11 DEF Prepare
  <2>3. after \in BOOLEAN /\ fade \in Int /\ 2 * FadeFrames \in Int
    BY <1>1, Sizes DEF PumpType
  <2> HIDE DEF s, usable, live, fades, after, fade
  <2>4. going \in PumpType
    BY <1>1, <1>3, <2>3, Zenon DEF PumpType
  <2>5. idle \in PumpType
    BY <1>1, <1>3, Zenon DEF PumpType
  <2>6. Rest(idle) \in PumpType /\ Rest(pump) \in PumpType
    BY <1>1, <2>5, PumpParts
  <2> HIDE DEF idle, going
  <2>7. usable \in BOOLEAN /\ live \in BOOLEAN
    BY DEF usable, live
  <2> QED BY <2>1, <2>2, <2>4, <2>6, <2>7
<1>12. CASE LoadWrite
  <2> DEFINE trims == pump.pc = "segment" /\ pump.trimAfterFade /\ pump.fade = 0
             after == pump.trimAfterFade /\ ~trims
             segment == IF pump.pc = "segment" THEN SegmentOf(pump) ELSE pump.segment
  <2>1. shared' \in SharedType
    BY <1>1, <1>4, <1>12, TrimType DEF LoadWrite
  <2>2. pump' = [pump EXCEPT !.pc = "generation", !.converting = TRUE, !.write = shared.write,
                             !.trimAfterFade = after, !.segment = segment]
    BY <1>12 DEF LoadWrite
  <2>3. pump.left \in Int /\ pump.fade \in Int /\ pump.segment \in Int
    BY <1>1, Zenon DEF PumpType
  <2>4. after \in BOOLEAN /\ segment \in Int
    BY <2>3 DEF SegmentOf, Least
  <2> HIDE DEF trims, after, segment
  <2>5. pump' \in PumpType
    BY <1>1, <1>3, <1>4, <2>2, <2>4, Zenon DEF PumpType
  <2> QED BY <2>1, <2>5
<1>13. CASE Convert
  <2> DEFINE Takes(n) ==
               /\ shared' = [shared EXCEPT !.read = (@ + n) % Wrap]
               /\ pump' = IF n = pump.segment
                            THEN SegmentDone(pump, FALSE)
                            ELSE [pump EXCEPT !.pc = "more", !.segment = @ - n, !.left = @ - n,
                                              !.write = 0, !.fade = IF @ > n THEN @ - n ELSE 0]
  <2>1. pump.segment \in Int /\ pump.left \in Int /\ pump.fade \in Int /\ 0 \in Cursors
    BY <1>1, Values, Zenon DEF PumpType
  <2>2. CASE pump' = SegmentDone(pump, TRUE) /\ shared' = shared
    BY <1>1, <1>3, <2>2, PumpParts
  <2>3. CASE \E n \in Int : Takes(n)
    <3>1. PICK n \in Int : Takes(n)
      BY <2>3
    <3>2. (shared.read + n) % Wrap \in Cursors
      <4>1. shared.read + n \in Int
        BY <1>4 DEF Cursors
      <4> QED BY <4>1, CursorType
    <3>3. shared' \in SharedType
      BY <1>1, <3>1, <3>2, Zenon DEF SharedType
    <3> DEFINE segment == pump.segment - n
               left == pump.left - n
               fade == IF pump.fade > n THEN pump.fade - n ELSE 0
               more == [pump EXCEPT !.pc = "more", !.segment = segment, !.left = left,
                                    !.write = 0, !.fade = fade]
    <3>4. segment \in Int /\ left \in Int /\ fade \in Int
      BY <2>1
    <3>5. pump' = IF n = pump.segment THEN SegmentDone(pump, FALSE) ELSE more
      BY <3>1
    <3> HIDE DEF segment, left, fade
    <3>6. more \in PumpType
      BY <1>1, <1>3, <2>1, <3>4, Zenon DEF PumpType
    <3>7. SegmentDone(pump, FALSE) \in PumpType
      BY <1>1, <1>3, PumpParts
    <3> HIDE DEF more
    <3> QED BY <3>3, <3>5, <3>6, <3>7
  <2>4. (pump' = SegmentDone(pump, TRUE) /\ shared' = shared) \/ \E n \in Int : Takes(n)
    <3> DEFINE queued == Ahead(shared.read, Seen)
               some == Least(Least(queued, pump.segment), Capacity - (shared.read % Capacity))
    <3>1. (pump' = SegmentDone(pump, TRUE) /\ shared' = shared) \/ \E n \in 1..some : Takes(n)
      BY <1>13, Zenon DEF Convert
    <3> HIDE DEF Takes, some
    <3>2. 1..some \subseteq Int
      OBVIOUS
    <3> QED BY <3>1, <3>2, Zenon
  <2> QED BY <2>2, <2>3, <2>4
<1>14. CASE Underrun
  <2> DEFINE target == IF shared.target + Headroom > limits.most THEN limits.most
                       ELSE shared.target + Headroom
  <2>1. target \in Nat \ {0}
    BY <1>1, <1>4, Sizes, LimitFacts
  <2>2. shared' = [shared EXCEPT !.target = target]
    BY <1>14 DEF Underrun
  <2> HIDE DEF target
  <2>3. shared' \in SharedType
    BY <1>1, <2>1, <2>2, Zenon DEF SharedType
  <2>4. Cut(pump) \in PumpType
    BY <1>1, PumpParts
  <2>5. pump' \in PumpType
    BY <1>14, <2>4, PumpParts DEF Underrun
  <2> QED BY <2>3, <2>5
<1> QED BY <1>6, <1>7, <1>8, <1>9, <1>10, <1>11, <1>12, <1>13, <1>14 DEF Render

-----------------------------------------------------------------------------
(* The invariant, over the positions the cursors stand for: the reader's (r), the writer's (w), *)
(* that of the last boundary stored for a format (f) and for a talkspurt (s), where the frames  *)
(* of the current generation (g) and talkspurt (t) begin, and how far the converter has seen    *)
(* the writer get (e).                                                                          *)

\* The frames that are copied and not yet published.
Flight == IF producer.pc = "publish" THEN producer.frames ELSE 0

\* The worker has stored a boundary, and not yet the generation that goes with it.
AtGeneration == producer.pc \in {"formatGeneration", "closeGeneration"}
AtSpurt == producer.pc = "spurtGeneration"

\* The worker has stored a rate, and not yet the generation that goes with it.
NewRate == producer.pc \in {"formatReset", "formatGeneration"}

\* There is a boundary the pump has not applied.
Changing == shared.gen # pump.applied \/ AtGeneration
NewSpurt == shared.spurt # pump.seen \/ AtSpurt

\* The pump goes on with a block it has taken frames for, or takes them.
Again == pump.converting /\ pump.pc \in {"segment", "more"}
Taking == pump.converting /\ ~pump.changed

\* The cursors stand for positions in the order they were stored in, the queue and what is being
\* copied into it fit in the ring, and a boundary is the last one of its kind.
Ordered(r, w, f, s, g, t) ==
    /\ shared.read = Cursor(r) /\ shared.write = Cursor(w)
    /\ shared.reset = Cursor(f) /\ shared.spurtCursor = Cursor(s)
    /\ r <= w /\ w + Flight <= r + Capacity
    /\ g <= f /\ f <= w /\ t <= s /\ s <= w
    /\ f = IF AtGeneration THEN w ELSE g
    /\ s = IF AtSpurt THEN w ELSE t

\* A frame in the ring is the one pushed at its position; behind the last boundaries it is of the
\* current generation and talkspurt.
Queued(r, w, g, t) ==
    \A p \in Nat : r <= p /\ p < w + Flight =>
        /\ ring[Slot(p)].at = Cursor(p)
        /\ p >= g => ring[Slot(p)].gen = shared.gen
        /\ p >= g /\ ~NewRate => ring[Slot(p)].rate = shared.rate
        /\ p >= t => ring[Slot(p)].spurt = shared.spurt

\* What the pump has applied is not ahead of what the worker has published, and once it is up to
\* date the reader is behind no boundary and the converter has the worker's rate.
Generations(r, g, t) ==
    /\ pump.applied <= shared.gen /\ pump.seen <= shared.spurt
    /\ pump.pc \in {"rate", "reset"} => pump.applied < pump.loaded /\ pump.loaded <= shared.gen
    /\ pump.pc = "spurtCursor" => pump.seen < pump.loaded /\ pump.loaded <= shared.spurt
    /\ pump.applied = shared.gen => g <= r
    /\ pump.seen = shared.spurt => t <= r
    /\ producer.rate = shared.rate
    /\ ~NewRate /\ (pump.applied = shared.gen \/ (pump.pc = "reset" /\ pump.loaded = shared.gen))
         => pump.rate = shared.rate

\* The reader does not get so far past a boundary it has still to apply that the cursor of it
\* would look like one ahead, and while it converts it does not pass it at all.
BehindFormat(r, f) ==
    /\ Changing =>
         /\ pump.pc \in {"talkspurt", "spurtCursor", "convert"} \/ Again => r <= f
         /\ pump.pc = "prepare" => r <= f + Capacity
         /\ r < f + 2 * Capacity
    /\ pump.pc \in {"rate", "reset"} /\ (shared.gen # pump.loaded \/ AtGeneration) => r <= f

BehindSpurt(r, s) ==
    /\ NewSpurt =>
         /\ pump.pc \in {"prepare", "convert"} \/ Again => r <= s
         /\ pump.pc \notin {"talkspurt", "spurtCursor"} => r < s + Capacity
         /\ r < s + 2 * Capacity
    /\ pump.pc = "spurtCursor" /\ (shared.spurt # pump.loaded \/ AtSpurt) => r <= s

\* The frames the converter has seen are of the generation and the talkspurt it is set up for, as
\* soon as it has looked at these after the writer's cursor.
Converting(r, w, f, s, e) ==
    /\ Taking /\ pump.pc \notin {"segment", "more", "underrun"}
         => pump.write = Cursor(e) /\ r <= e /\ e <= w
    /\ Taking /\ pump.pc \in {"talkspurt", "spurtCursor", "convert"}
         => /\ \A p \in Nat : r <= p /\ p < e => ring[Slot(p)].gen = pump.applied
            /\ Changing => e <= f
    /\ pump.pc = "convert"
         => /\ \A p \in Nat : r <= p /\ p < e => ring[Slot(p)].spurt = pump.seen
            /\ NewSpurt => e <= s
    /\ pump.pc = "convert" => Taking
    /\ pump.pc = "prepare" => ~pump.converting
    /\ pump.pc = "more" => pump.converting

\* A trim waits for a fade, which is not over in the first segment of a block, so that a block
\* looks at the generations before it trims; and the rate a trim goes by is known.
Fading ==
    /\ pump.changed => ~pump.trimAfterFade
    /\ ~pump.converting /\ pump.trimAfterFade => pump.pc = "segment" /\ pump.fade > 0
    /\ pump.pc = "segment" /\ pump.trimAfterFade
         => pump.fade = 0 \/ (pump.fade > 0 /\ pump.left > pump.fade)
    /\ pump.converting /\ pump.pc \notin {"segment", "underrun"} /\ pump.trimAfterFade
         => pump.fade = pump.segment /\ pump.left > pump.segment /\ pump.fade > 0

RateKnown ==
    /\ pump.pc \in {"segment", "more", "convert"} => pump.rate # 0
    /\ Taking /\ pump.pc \in {"generation", "talkspurt", "spurtCursor"} => pump.rate # 0

Sound(r, w, f, s, g, t, e) ==
    /\ Ordered(r, w, f, s, g, t) /\ Queued(r, w, g, t) /\ Generations(r, g, t)
    /\ BehindFormat(r, f) /\ BehindSpurt(r, s) /\ Converting(r, w, f, s, e)
    /\ Fading /\ RateKnown

IInv ==
    /\ Types
    /\ \E r, w, f, s, g, t, e \in Nat : Sound(r, w, f, s, g, t, e)

-----------------------------------------------------------------------------
(* Steps of the worker *)

\* A step that stores no cursor and no generation, and no rate but on the way to a generation.
LEMMA QuietStep ==
    ASSUME NEW r \in Nat, NEW w \in Nat, NEW f \in Nat, NEW s \in Nat, NEW g \in Nat, NEW t \in Nat,
           NEW e \in Nat, Sound(r, w, f, s, g, t, e),
           pump' = pump, ring' = ring,
           shared'.read = shared.read, shared'.write = shared.write, shared'.gen = shared.gen,
           shared'.reset = shared.reset, shared'.spurtCursor = shared.spurtCursor,
           shared'.spurt = shared.spurt,
           producer.pc \notin {"publish", "formatGeneration", "closeGeneration", "spurtGeneration"},
           producer'.pc \notin {"publish", "formatGeneration", "closeGeneration", "spurtGeneration"},
           producer'.rate = shared'.rate,
           ~NewRate' => ~NewRate /\ shared'.rate = shared.rate
    PROVE  Sound(r, w, f, s, g, t, e)'
<1>1. /\ Flight' = Flight /\ (AtGeneration' <=> AtGeneration) /\ (AtSpurt' <=> AtSpurt)
      /\ (Changing' <=> Changing) /\ (NewSpurt' <=> NewSpurt) /\ (Again' <=> Again)
      /\ (Taking' <=> Taking)
  BY DEF Flight, AtGeneration, AtSpurt, Changing, NewSpurt, Again, Taking
<1>2. Ordered(r, w, f, s, g, t)'
  BY <1>1 DEF Sound, Ordered
<1>3. Queued(r, w, g, t)'
  BY <1>1 DEF Sound, Queued
<1>4. Generations(r, g, t)'
  BY DEF Sound, Generations
<1>5. BehindFormat(r, f)' /\ BehindSpurt(r, s)'
  BY <1>1 DEF Sound, BehindFormat, BehindSpurt
<1>6. Converting(r, w, f, s, e)'
  BY <1>1 DEF Sound, Converting
<1>7. Fading' /\ RateKnown'
  BY <1>1 DEF Sound, Fading, RateKnown
<1> QED BY <1>2, <1>3, <1>4, <1>5, <1>6, <1>7 DEF Sound

\* The steps that store nothing the positions are about.
LEMMA QuietSteps ==
    ASSUME Types, NEW r \in Nat, NEW w \in Nat, NEW f \in Nat, NEW s \in Nat, NEW g \in Nat,
           NEW t \in Nat, NEW e \in Nat, Sound(r, w, f, s, g, t, e),
           \/ \E rate \in limits.rates : SetFormat(rate)
           \/ Close \/ FormatOpen
           \/ \E frames \in PushSizes, target \in TargetMin..limits.most : BeginPush(frames, target)
           \/ Tick
    PROVE  Sound(r, w, f, s, g, t, e)'
<1>1. shared \in SharedType /\ producer \in WorkerType /\ producer.rate = shared.rate
  BY DEF Types, Sound, Generations
<1> DEFINE Kept == /\ shared'.read = shared.read /\ shared'.write = shared.write
                   /\ shared'.gen = shared.gen /\ shared'.reset = shared.reset
                   /\ shared'.spurtCursor = shared.spurtCursor /\ shared'.spurt = shared.spurt
<1>2. CASE \E rate \in limits.rates : SetFormat(rate)
  <2>1. PICK rate : SetFormat(rate)
    BY <1>2
  <2>2. Kept /\ shared'.rate = rate
    BY <1>1, <2>1, Zenon DEF SetFormat, SharedType
  <2>3. producer'.pc = "formatReset" /\ producer'.rate = rate /\ producer.pc = "idle"
    BY <1>1, <2>1, Zenon DEF SetFormat, WorkerType
  <2>4. NewRate' /\ pump' = pump /\ ring' = ring
    BY <2>1, <2>3 DEF NewRate, SetFormat, ReaderIdle
  <2> QED BY <2>2, <2>3, <2>4, QuietStep
<1>3. CASE Close
  <2>1. Kept /\ shared'.rate = shared.rate
    BY <1>1, <1>3, Zenon DEF Close, SharedType
  <2>2. producer'.pc = "closeReset" /\ producer'.rate = producer.rate /\ producer.pc = "idle"
    BY <1>1, <1>3, Zenon DEF Close, ProducerAt, WorkerType
  <2>3. ~NewRate /\ pump' = pump /\ ring' = ring
    BY <1>3, <2>2 DEF NewRate, Close, ReaderIdle
  <2> QED BY <1>1, <2>1, <2>2, <2>3, QuietStep
<1>4. CASE FormatOpen
  <2>1. Kept /\ shared'.rate = shared.rate
    BY <1>1, <1>4, Zenon DEF FormatOpen, SharedType
  <2>2. producer'.pc = "idle" /\ producer'.rate = producer.rate /\ producer.pc = "formatOpen"
    BY <1>1, <1>4, Zenon DEF FormatOpen, ProducerAt, WorkerType
  <2>3. ~NewRate /\ pump' = pump /\ ring' = ring
    BY <1>4, <2>2 DEF NewRate, FormatOpen, ReaderIdle
  <2> QED BY <1>1, <2>1, <2>2, <2>3, QuietStep
<1>5. CASE \E frames \in PushSizes, target \in TargetMin..limits.most : BeginPush(frames, target)
  <2>1. PICK frames, target : BeginPush(frames, target)
    BY <1>5
  <2>2. Kept /\ shared'.rate = shared.rate
    BY <1>1, <2>1, Zenon DEF BeginPush, SharedType
  <2>3. /\ producer'.pc = IF producer.known /\ age = 2 THEN "spurtCursor" ELSE "pushRead"
        /\ producer'.rate = producer.rate /\ producer.pc = "idle"
    BY <1>1, <2>1, Zenon DEF BeginPush, WorkerType
  <2>4. ~NewRate /\ pump' = pump /\ ring' = ring
    BY <2>1, <2>3 DEF NewRate, BeginPush, ReaderIdle
  <2>5. producer'.pc \in {"spurtCursor", "pushRead"}
    BY <2>3
  <2> QED BY <1>1, <2>2, <2>3, <2>4, <2>5, QuietStep
<1>6. CASE Tick
  <2>1. UNCHANGED <<shared, ring, producer, pump>>
    BY <1>6 DEF Tick, ReaderIdle
  <2>2. /\ Ordered(r, w, f, s, g, t)' /\ Queued(r, w, g, t)' /\ Generations(r, g, t)'
        /\ BehindFormat(r, f)' /\ BehindSpurt(r, s)' /\ Converting(r, w, f, s, e)'
        /\ Fading' /\ RateKnown'
    BY <2>1 DEF Sound, Ordered, Queued, Generations, BehindFormat, BehindSpurt, Converting, Fading,
                RateKnown, Flight, AtGeneration, AtSpurt, NewRate, Changing, NewSpurt, Again, Taking
  <2> QED BY <2>2 DEF Sound
<1> QED BY <1>2, <1>3, <1>4, <1>5, <1>6

\* A format's boundary is stored.
LEMMA ResetSteps ==
    ASSUME Types, NEW r \in Nat, NEW w \in Nat, NEW f \in Nat, NEW s \in Nat, NEW g \in Nat,
           NEW t \in Nat, NEW e \in Nat, Sound(r, w, f, s, g, t, e), FormatReset \/ CloseReset
    PROVE  Sound(r, w, w, s, g, t, e)'
<1>1. shared \in SharedType /\ producer \in WorkerType
  BY DEF Types
<1>2. /\ shared'.read = shared.read /\ shared'.write = shared.write /\ shared'.gen = shared.gen
      /\ shared'.reset = shared.write /\ shared'.spurtCursor = shared.spurtCursor
      /\ shared'.spurt = shared.spurt /\ shared'.rate = shared.rate
  BY <1>1, Zenon DEF FormatReset, CloseReset, SharedType
<1>3. /\ producer'.rate = producer.rate
      /\ \/ producer.pc = "formatReset" /\ producer'.pc = "formatGeneration"
         \/ producer.pc = "closeReset" /\ producer'.pc = "closeGeneration"
  BY <1>1, Zenon DEF FormatReset, CloseReset, ProducerAt, WorkerType
<1>4. pump' = pump /\ ring' = ring
  BY DEF FormatReset, CloseReset, ReaderIdle
<1>5. /\ Flight = 0 /\ Flight' = 0 /\ ~AtGeneration /\ AtGeneration' /\ ~AtSpurt /\ ~AtSpurt'
      /\ (NewRate' <=> NewRate) /\ Changing' /\ (NewSpurt' <=> NewSpurt) /\ (Again' <=> Again)
      /\ (Taking' <=> Taking)
  BY <1>2, <1>3, <1>4
  DEF Flight, AtGeneration, AtSpurt, NewRate, Changing, NewSpurt, Again, Taking
<1>6. r <= w /\ (Taking /\ pump.pc \notin {"segment", "more", "underrun"} => e <= w)
  BY DEF Sound, Ordered, Converting
<1>7. Ordered(r, w, w, s, g, t)'
  BY <1>2, <1>5 DEF Sound, Ordered
<1>8. Queued(r, w, g, t)'
  BY <1>2, <1>4, <1>5 DEF Sound, Queued
<1>9. Generations(r, g, t)'
  BY <1>2, <1>3, <1>4, <1>5 DEF Sound, Generations
<1>10. BehindFormat(r, w)'
  BY <1>6, Sizes DEF BehindFormat
<1>11. BehindSpurt(r, s)'
  BY <1>2, <1>4, <1>5 DEF Sound, BehindSpurt
<1>12. Converting(r, w, w, s, e)'
  BY <1>2, <1>4, <1>5, <1>6 DEF Sound, Converting
<1>13. Fading' /\ RateKnown'
  BY <1>4, <1>5 DEF Sound, Fading, RateKnown
<1> QED BY <1>7, <1>8, <1>9, <1>10, <1>11, <1>12, <1>13 DEF Sound

\* The generation that goes with it is published: the frames to come are of it.
LEMMA GenerationSteps ==
    ASSUME Types, NEW r \in Nat, NEW w \in Nat, NEW f \in Nat, NEW s \in Nat, NEW g \in Nat,
           NEW t \in Nat, NEW e \in Nat, Sound(r, w, f, s, g, t, e),
           FormatGeneration \/ CloseGeneration
    PROVE  Sound(r, w, f, s, f, t, e)'
<1>1. shared \in SharedType /\ producer \in WorkerType /\ shared.gen \in Nat /\ pump.loaded \in Nat
      /\ pump.applied \in Nat
  BY Zenon DEF Types, SharedType, PumpType
<1>2. /\ shared'.read = shared.read /\ shared'.write = shared.write /\ shared'.gen = shared.gen + 1
      /\ shared'.reset = shared.reset /\ shared'.spurtCursor = shared.spurtCursor
      /\ shared'.spurt = shared.spurt /\ shared'.rate = shared.rate
  BY <1>1, Zenon DEF FormatGeneration, CloseGeneration, SharedType
<1>3. /\ producer'.rate = producer.rate
      /\ \/ producer.pc = "formatGeneration" /\ producer'.pc = "formatOpen"
         \/ producer.pc = "closeGeneration" /\ producer'.pc = "idle"
  BY <1>1, Zenon DEF FormatGeneration, CloseGeneration, ProducerAt, WorkerType
<1>4. pump' = pump /\ ring' = ring
  BY DEF FormatGeneration, CloseGeneration, ReaderIdle
<1>5. /\ Flight = 0 /\ Flight' = 0 /\ AtGeneration /\ ~AtGeneration' /\ ~AtSpurt /\ ~AtSpurt'
      /\ ~NewRate' /\ Changing /\ (NewSpurt' <=> NewSpurt) /\ (Again' <=> Again)
      /\ (Taking' <=> Taking)
  BY <1>2, <1>3, <1>4
  DEF Flight, AtGeneration, AtSpurt, NewRate, Changing, NewSpurt, Again, Taking
<1>6. f = w /\ g <= w
  BY <1>5 DEF Sound, Ordered
<1>7. Ordered(r, w, f, s, f, t)'
  BY <1>2, <1>5, <1>6 DEF Sound, Ordered
<1>8. Queued(r, w, f, t)'
  BY <1>2, <1>4, <1>5, <1>6 DEF Sound, Queued
<1>9. Generations(r, f, t)'
  BY <1>1, <1>2, <1>3, <1>4, <1>5 DEF Sound, Generations
<1>10. BehindFormat(r, f)'
  BY <1>4, <1>5 DEF Sound, BehindFormat
<1>11. BehindSpurt(r, s)'
  BY <1>2, <1>4, <1>5 DEF Sound, BehindSpurt
<1>12. Converting(r, w, f, s, e)'
  BY <1>2, <1>4, <1>5 DEF Sound, Converting
<1>13. Fading' /\ RateKnown'
  BY <1>4, <1>5 DEF Sound, Fading, RateKnown
<1> QED BY <1>7, <1>8, <1>9, <1>10, <1>11, <1>12, <1>13 DEF Sound

\* A talkspurt's boundary is stored.
LEMMA SpurtCursorStep ==
    ASSUME Types, NEW r \in Nat, NEW w \in Nat, NEW f \in Nat, NEW s \in Nat, NEW g \in Nat,
           NEW t \in Nat, NEW e \in Nat, Sound(r, w, f, s, g, t, e), SpurtCursor
    PROVE  Sound(r, w, f, w, g, t, e)'
<1>1. shared \in SharedType /\ producer \in WorkerType
  BY DEF Types
<1>2. /\ shared'.read = shared.read /\ shared'.write = shared.write /\ shared'.gen = shared.gen
      /\ shared'.reset = shared.reset /\ shared'.spurtCursor = shared.write
      /\ shared'.spurt = shared.spurt /\ shared'.rate = shared.rate
  BY <1>1, Zenon DEF SpurtCursor, SharedType
<1>3. /\ producer'.rate = producer.rate
      /\ producer.pc = "spurtCursor" /\ producer'.pc = "spurtGeneration"
  BY <1>1, Zenon DEF SpurtCursor, ProducerAt, WorkerType
<1>4. pump' = pump /\ ring' = ring
  BY DEF SpurtCursor, ReaderIdle
<1>5. /\ Flight = 0 /\ Flight' = 0 /\ ~AtGeneration /\ ~AtGeneration' /\ ~AtSpurt /\ AtSpurt'
      /\ ~NewRate /\ ~NewRate' /\ (Changing' <=> Changing) /\ NewSpurt' /\ (Again' <=> Again)
      /\ (Taking' <=> Taking)
  BY <1>2, <1>3, <1>4
  DEF Flight, AtGeneration, AtSpurt, NewRate, Changing, NewSpurt, Again, Taking
<1>6. r <= w /\ (Taking /\ pump.pc \notin {"segment", "more", "underrun"} => e <= w)
  BY DEF Sound, Ordered, Converting
<1>7. Ordered(r, w, f, w, g, t)'
  BY <1>2, <1>5 DEF Sound, Ordered
<1>8. Queued(r, w, g, t)'
  BY <1>2, <1>4, <1>5 DEF Sound, Queued
<1>9. Generations(r, g, t)'
  BY <1>2, <1>3, <1>4, <1>5 DEF Sound, Generations
<1>10. BehindFormat(r, f)'
  BY <1>2, <1>4, <1>5 DEF Sound, BehindFormat
<1>11. BehindSpurt(r, w)'
  BY <1>6, Sizes DEF BehindSpurt
<1>12. Converting(r, w, f, w, e)'
  BY <1>2, <1>4, <1>5, <1>6 DEF Sound, Converting
<1>13. Fading' /\ RateKnown'
  BY <1>4, <1>5 DEF Sound, Fading, RateKnown
<1> QED BY <1>7, <1>8, <1>9, <1>10, <1>11, <1>12, <1>13 DEF Sound

\* The talkspurt is published.
LEMMA SpurtGenerationStep ==
    ASSUME Types, NEW r \in Nat, NEW w \in Nat, NEW f \in Nat, NEW s \in Nat, NEW g \in Nat,
           NEW t \in Nat, NEW e \in Nat, Sound(r, w, f, s, g, t, e), SpurtGeneration
    PROVE  Sound(r, w, f, s, g, s, e)'
<1>1. shared \in SharedType /\ producer \in WorkerType /\ shared.spurt \in Nat
      /\ pump.loaded \in Nat /\ pump.seen \in Nat
  BY Zenon DEF Types, SharedType, PumpType
<1>2. /\ shared'.read = shared.read /\ shared'.write = shared.write /\ shared'.gen = shared.gen
      /\ shared'.reset = shared.reset /\ shared'.spurtCursor = shared.spurtCursor
      /\ shared'.spurt = shared.spurt + 1 /\ shared'.rate = shared.rate
  BY <1>1, Zenon DEF SpurtGeneration, SharedType
<1>3. /\ producer'.rate = producer.rate
      /\ producer.pc = "spurtGeneration" /\ producer'.pc = "pushRead"
  BY <1>1, Zenon DEF SpurtGeneration, ProducerAt, WorkerType
<1>4. pump' = pump /\ ring' = ring
  BY DEF SpurtGeneration, ReaderIdle
<1>5. /\ Flight = 0 /\ Flight' = 0 /\ ~AtGeneration /\ ~AtGeneration' /\ AtSpurt /\ ~AtSpurt'
      /\ ~NewRate /\ ~NewRate' /\ (Changing' <=> Changing) /\ NewSpurt /\ (Again' <=> Again)
      /\ (Taking' <=> Taking)
  BY <1>2, <1>3, <1>4
  DEF Flight, AtGeneration, AtSpurt, NewRate, Changing, NewSpurt, Again, Taking
<1>6. s = w
  BY <1>5 DEF Sound, Ordered
<1>7. Ordered(r, w, f, s, g, s)'
  BY <1>2, <1>5, <1>6 DEF Sound, Ordered
<1>8. Queued(r, w, g, s)'
  BY <1>2, <1>4, <1>5, <1>6 DEF Sound, Queued
<1>9. Generations(r, g, s)'
  BY <1>1, <1>2, <1>3, <1>4, <1>5 DEF Sound, Generations
<1>10. BehindFormat(r, f)'
  BY <1>2, <1>4, <1>5 DEF Sound, BehindFormat
<1>11. BehindSpurt(r, s)'
  BY <1>4, <1>5 DEF Sound, BehindSpurt
<1>12. Converting(r, w, f, s, e)'
  BY <1>2, <1>4, <1>5 DEF Sound, Converting
<1>13. Fading' /\ RateKnown'
  BY <1>4, <1>5 DEF Sound, Fading, RateKnown
<1> QED BY <1>7, <1>8, <1>9, <1>10, <1>11, <1>12, <1>13 DEF Sound

\* What fits is copied behind the queue: it goes to places no frame of the queue has.
LEMMA PushReadStep ==
    ASSUME Types, NEW r \in Nat, NEW w \in Nat, NEW f \in Nat, NEW s \in Nat, NEW g \in Nat,
           NEW t \in Nat, NEW e \in Nat, Sound(r, w, f, s, g, t, e), PushRead
    PROVE  Sound(r, w, f, s, g, t, e)'
<1>1. /\ shared \in SharedType /\ producer \in WorkerType /\ producer.frames \in Nat
      /\ DOMAIN ring = 0..(Capacity - 1)
  BY Zenon DEF Types, WorkerType
<1> DEFINE fits == Least(producer.frames, Room(Ahead(shared.read, shared.write)))
           place == IF fits = 0 THEN "idle" ELSE "publish"
           ask == shared.trim \/ fits < producer.frames
<1>2. /\ producer' = [producer EXCEPT !.pc = place, !.frames = fits]
      /\ shared' = [shared EXCEPT !.trim = ask]
      /\ producer.pc = "pushRead" /\ pump' = pump
  BY DEF PushRead, ReaderIdle
<1>3. /\ Flight = 0 /\ ~AtGeneration /\ ~AtSpurt /\ ~NewRate
  BY <1>2 DEF Flight, AtGeneration, AtSpurt, NewRate
<1>4. /\ shared.read = Cursor(r) /\ shared.write = Cursor(w) /\ r <= w /\ w <= r + Capacity
      /\ producer.rate = shared.rate
  BY <1>3 DEF Sound, Ordered, Generations
<1>5. fits \in Nat /\ w + fits <= r + Capacity
  <2>1. w < r + Wrap
    BY <1>4, Sizes
  <2>2. Ahead(shared.read, shared.write) = w - r
    BY <1>4, <2>1, AheadFacts
  <2>3. Room(w - r) \in Nat /\ Room(w - r) <= Capacity - (w - r)
    BY <1>4, Sizes DEF Room
  <2> QED BY <1>1, <1>4, <2>2, <2>3, Sizes DEF Least
<1>6. \A i \in 0..(Capacity - 1) :
        LET k == (i - shared.write) % Capacity IN
        ring'[i] = IF k < fits
                     THEN [at |-> (shared.write + k) % Wrap, gen |-> shared.gen,
                           spurt |-> shared.spurt, rate |-> producer.rate]
                     ELSE ring[i]
  BY <1>1 DEF PushRead
<1> HIDE DEF fits
<1>7. /\ producer'.pc = place /\ producer'.frames = fits /\ producer'.rate = producer.rate
  BY <1>1, <1>2, Zenon DEF WorkerType
<1>8. /\ shared'.read = shared.read /\ shared'.write = shared.write /\ shared'.gen = shared.gen
      /\ shared'.reset = shared.reset /\ shared'.spurtCursor = shared.spurtCursor
      /\ shared'.spurt = shared.spurt /\ shared'.rate = shared.rate
  BY <1>1, <1>2, Zenon DEF SharedType
<1>9. /\ Flight' = fits /\ ~AtGeneration' /\ ~AtSpurt' /\ ~NewRate' /\ (Changing' <=> Changing)
      /\ (NewSpurt' <=> NewSpurt) /\ (Again' <=> Again) /\ (Taking' <=> Taking)
  BY <1>2, <1>3, <1>7, <1>8
  DEF Flight, AtGeneration, AtSpurt, NewRate, Changing, NewSpurt, Again, Taking
<1>10. ASSUME NEW p \in Nat, r <= p, p < w
       PROVE  ring'[Slot(p)] = ring[Slot(p)]
  <2>1. Slot(p) \in 0..(Capacity - 1)
    <3>1. Slot(p) = Remainder(p, Capacity) /\ p \in Int
      BY DEF Slot, Remainder
    <3> QED BY <3>1, Sizes, CongruentRemainder
  <2>2. (Slot(p) - Cursor(w)) % Capacity = Capacity - (w - p)
    <3>1. w <= p + Capacity
      BY <1>4, <1>10, Sizes
    <3> QED BY <1>10, <3>1, Distance
  <2>3. ~(Capacity - (w - p) < fits)
    BY <1>5, <1>10, Sizes
  <2> QED BY <1>4, <1>6, <2>1, <2>2, <2>3
<1>11. ASSUME NEW p \in Nat, w <= p, p < w + fits
       PROVE  ring'[Slot(p)] = [at |-> Cursor(p), gen |-> shared.gen, spurt |-> shared.spurt,
                                rate |-> producer.rate]
  <2>1. Slot(p) \in 0..(Capacity - 1)
    <3>1. Slot(p) = Remainder(p, Capacity) /\ p \in Int
      BY DEF Slot, Remainder
    <3> QED BY <3>1, Sizes, CongruentRemainder
  <2>2. (Slot(p) - Cursor(w)) % Capacity = p - w
    <3>1. p < w + Capacity
      BY <1>4, <1>5, <1>11, Sizes
    <3> QED BY <1>11, <3>1, Distance
  <2>3. (Cursor(w) + (p - w)) % Wrap = Cursor(p)
    <3>1. p - w \in Int /\ w + (p - w) = p
      OBVIOUS
    <3>2. (Cursor(w) + (p - w)) % Wrap = (w + (p - w)) % Wrap
      BY <3>1, GoesOn
    <3> QED BY <3>1, <3>2 DEF Cursor
  <2>4. p - w < fits
    BY <1>5, <1>11
  <2> QED BY <1>4, <1>6, <2>1, <2>2, <2>3, <2>4
<1>12. Ordered(r, w, f, s, g, t)'
  BY <1>3, <1>5, <1>8, <1>9 DEF Sound, Ordered
<1>13. Queued(r, w, g, t)'
  <2> SUFFICES ASSUME NEW p \in Nat, r <= p, p < w + fits
               PROVE  /\ ring'[Slot(p)].at = Cursor(p)
                      /\ p >= g => ring'[Slot(p)].gen = shared.gen
                      /\ p >= g => ring'[Slot(p)].rate = shared.rate
                      /\ p >= t => ring'[Slot(p)].spurt = shared.spurt
    BY <1>8, <1>9 DEF Queued
  <2>1. CASE p < w
    BY <1>3, <1>10, <2>1 DEF Sound, Queued
  <2>2. CASE w <= p
    <3>1. ring'[Slot(p)] = [at |-> Cursor(p), gen |-> shared.gen, spurt |-> shared.spurt,
                            rate |-> producer.rate]
      BY <1>11, <2>2
    <3>2. /\ ring'[Slot(p)].at = Cursor(p) /\ ring'[Slot(p)].gen = shared.gen
          /\ ring'[Slot(p)].spurt = shared.spurt /\ ring'[Slot(p)].rate = producer.rate
      BY <3>1
    <3> QED BY <1>4, <3>2
  <2> QED BY <2>1, <2>2
<1>14. Generations(r, g, t)'
  BY <1>2, <1>3, <1>7, <1>8, <1>9 DEF Sound, Generations
<1>15. BehindFormat(r, f)' /\ BehindSpurt(r, s)'
  BY <1>2, <1>3, <1>8, <1>9 DEF Sound, BehindFormat, BehindSpurt
<1>16. Converting(r, w, f, s, e)'
  <2>1. Taking /\ pump.pc \notin {"segment", "more", "underrun"} => e <= w
    BY DEF Sound, Converting
  <2>2. pump.pc = "convert" => Taking
    BY DEF Sound, Converting
  <2>3. Taking /\ pump.pc \notin {"segment", "more", "underrun"}
          => \A p \in Nat : r <= p /\ p < e => ring'[Slot(p)] = ring[Slot(p)]
    BY <1>10, <2>1
  <2> QED BY <1>2, <1>8, <1>9, <2>1, <2>2, <2>3 DEF Sound, Converting
<1>17. Fading' /\ RateKnown'
  BY <1>2, <1>9 DEF Sound, Fading, RateKnown
<1> QED BY <1>12, <1>13, <1>14, <1>15, <1>16, <1>17 DEF Sound

\* The frames that were copied are published.
LEMMA PublishStep ==
    ASSUME Types, NEW r \in Nat, NEW w \in Nat, NEW f \in Nat, NEW s \in Nat, NEW g \in Nat,
           NEW t \in Nat, NEW e \in Nat, Sound(r, w, f, s, g, t, e), Publish
    PROVE  \E v \in Nat : Sound(r, v, f, s, g, t, e)'
<1>1. shared \in SharedType /\ producer \in WorkerType /\ producer.frames \in Nat
  BY Zenon DEF Types, WorkerType
<1>2. producer.pc = "publish" /\ pump' = pump /\ ring' = ring
  BY DEF Publish, ReaderIdle
<1>3. Flight = producer.frames /\ ~AtGeneration /\ ~AtSpurt /\ ~NewRate
  BY <1>2 DEF Flight, AtGeneration, AtSpurt, NewRate
<1>4. PICK v \in Nat : v = w + Flight
  BY <1>1, <1>3
<1>5. producer'.pc = "idle" /\ producer'.rate = producer.rate
  BY <1>1, Zenon DEF Publish, WorkerType
<1>6. /\ shared'.read = shared.read /\ shared'.write = Cursor(v) /\ shared'.gen = shared.gen
      /\ shared'.reset = shared.reset /\ shared'.spurtCursor = shared.spurtCursor
      /\ shared'.spurt = shared.spurt /\ shared'.rate = shared.rate
  <2>1. (shared.write + producer.frames) % Wrap = Cursor(v)
    <3>1. shared.write = Cursor(w)
      BY DEF Sound, Ordered
    <3>2. PICK n \in Int : n = producer.frames
      BY <1>1
    <3>3. (Cursor(w) + n) % Wrap = (w + n) % Wrap
      BY GoesOn
    <3> QED BY <1>3, <1>4, <3>1, <3>2, <3>3 DEF Cursor
  <2> QED BY <1>1, <2>1, Zenon DEF Publish, SharedType
<1>7. /\ Flight' = 0 /\ ~AtGeneration' /\ ~AtSpurt' /\ ~NewRate' /\ (Changing' <=> Changing)
      /\ (NewSpurt' <=> NewSpurt) /\ (Again' <=> Again) /\ (Taking' <=> Taking)
  BY <1>2, <1>3, <1>5, <1>6
  DEF Flight, AtGeneration, AtSpurt, NewRate, Changing, NewSpurt, Again, Taking
<1>8. w <= v
  BY <1>1, <1>3, <1>4
<1>9. Ordered(r, v, f, s, g, t)'
  BY <1>3, <1>4, <1>6, <1>7, <1>8 DEF Sound, Ordered
<1>10. Queued(r, v, g, t)'
  BY <1>2, <1>3, <1>4, <1>6, <1>7 DEF Sound, Queued
<1>11. Generations(r, g, t)'
  BY <1>2, <1>3, <1>5, <1>6, <1>7 DEF Sound, Generations
<1>12. BehindFormat(r, f)' /\ BehindSpurt(r, s)'
  BY <1>2, <1>3, <1>6, <1>7 DEF Sound, BehindFormat, BehindSpurt
<1>13. Converting(r, v, f, s, e)'
  BY <1>2, <1>6, <1>7, <1>8 DEF Sound, Converting
<1>14. Fading' /\ RateKnown'
  BY <1>2, <1>7 DEF Sound, Fading, RateKnown
<1>15. Sound(r, v, f, s, g, t, e)'
  BY <1>9, <1>10, <1>11, <1>12, <1>13, <1>14 DEF Sound
<1> QED BY <1>15

-----------------------------------------------------------------------------
(* Steps of the pump *)

\* A step of the pump moves the reader to position v and changes nothing else the worker reads
\* but the trim request and the target.
MovesTo(v) ==
    /\ shared'.read = Cursor(v) /\ shared'.write = shared.write /\ shared'.gen = shared.gen
    /\ shared'.rate = shared.rate /\ shared'.reset = shared.reset
    /\ shared'.spurtCursor = shared.spurtCursor /\ shared'.spurt = shared.spurt
    /\ ring' = ring /\ producer' = producer

\* The queue stays in order, and behind the boundaries, when the reader moves on in it.
LEMMA ReaderMoves ==
    ASSUME NEW r \in Nat, NEW w \in Nat, NEW f \in Nat, NEW s \in Nat, NEW g \in Nat, NEW t \in Nat,
           NEW v \in Nat, Flight \in Nat, Ordered(r, w, f, s, g, t), Queued(r, w, g, t),
           r <= v, v <= w, MovesTo(v)
    PROVE  Ordered(v, w, f, s, g, t)' /\ Queued(v, w, g, t)'
<1>1. /\ Flight' = Flight /\ (AtGeneration' <=> AtGeneration) /\ (AtSpurt' <=> AtSpurt)
      /\ (NewRate' <=> NewRate)
  BY DEF MovesTo, Flight, AtGeneration, AtSpurt, NewRate
<1>2. Ordered(v, w, f, s, g, t)'
  <2>1. w + Flight <= v + Capacity
    <3>1. w + Flight <= r + Capacity
      BY DEF Ordered
    <3> QED BY <3>1, Sizes
  <2> QED BY <1>1, <2>1 DEF Ordered, MovesTo
<1>3. Queued(v, w, g, t)'
  BY <1>1 DEF Queued, MovesTo
<1> QED BY <1>2, <1>3

\* A boundary ahead of the reader is gone to; one left behind is not, as long as it is less than
\* two laps behind.
LEMMA AdvancedFacts ==
    ASSUME NEW r \in Nat, NEW b \in Nat, b <= r + Capacity, r < b + 2 * Capacity
    PROVE  /\ r <= b => Advanced(Cursor(r), Cursor(b)) = Cursor(b)
           /\ b < r => Advanced(Cursor(r), Cursor(b)) = Cursor(r)
<1>1. Capacity \in Nat \ {0} /\ Wrap \in Nat \ {0} /\ Wrap >= 3 * Capacity
  BY Sizes
<1>2. ASSUME r <= b PROVE Ahead(Cursor(r), Cursor(b)) <= Capacity
  <2>1. Ahead(Cursor(r), Cursor(b)) = b - r
    <3>1. b < r + Wrap
      BY <1>1, <1>2
    <3> QED BY <1>2, <3>1, AheadFacts
  <2> QED BY <1>1, <1>2, <2>1
<1>3. ASSUME b < r PROVE ~(Ahead(Cursor(r), Cursor(b)) <= Capacity)
  <2>1. Ahead(Cursor(r), Cursor(b)) = Wrap - (r - b)
    <3>1. r <= b + Wrap
      BY <1>1, <1>3
    <3> QED BY <1>3, <3>1, AheadFacts
  <2> QED BY <1>1, <1>3, <2>1
<1> QED BY <1>2, <1>3 DEF Advanced

\* A trim of x moves the reader from r to v, and not to the end of the queue at w.
TrimsTo(x, rate, r, w, v) ==
    /\ r <= v /\ v <= w /\ (v = r \/ v < w)
    /\ Trimmed(x, rate) = [x EXCEPT !.read = Cursor(v), !.trim = FALSE]

\* A trim moves the reader on in the queue, and not to its end.
LEMMA TrimFacts ==
    ASSUME NEW r \in Nat, NEW w \in Nat, r <= w, w <= r + Capacity, NEW rate \in Nat \ {0},
           NEW x \in SharedType, x.read = Cursor(r), x.write = Cursor(w)
    PROVE  \E v \in Nat : TrimsTo(x, rate, r, w, v)
<1> DEFINE queued == Ahead(x.read, x.write)
           kept   == (x.target + TrimKeep) * rate
           read   == IF queued > kept THEN (x.read + queued - kept) % Wrap ELSE x.read
<1>1. queued = w - r
  <2>1. w < r + Wrap
    BY Sizes
  <2> QED BY <2>1, AheadFacts
<1>2. kept \in Nat \ {0}
  <2>1. x.target \in Nat \ {0}
    BY Zenon DEF SharedType
  <2>2. PICK n \in Nat \ {0} : n = x.target + TrimKeep
    BY <2>1, Sizes
  <2>3. n * rate \in Nat \ {0}
    BY SMT
  <2> QED BY <2>2, <2>3
<1>3. Trimmed(x, rate) = [x EXCEPT !.read = read, !.trim = FALSE]
  BY DEF Trimmed
<1> HIDE DEF kept, queued
<1>4. CASE queued > kept
  <2>1. PICK n \in Nat : n = queued - kept /\ n < w - r
    BY <1>1, <1>2, <1>4
  <2>2. PICK v \in Nat : v = r + n
    OBVIOUS
  <2>3. (Cursor(r) + n) % Wrap = Cursor(v)
    BY <2>2, GoesOn DEF Cursor
  <2>4. Cursor(r) + queued - kept = Cursor(r) + n
    <3>1. Cursor(r) \in Int
      BY CursorCongruent
    <3> QED BY <1>1, <1>2, <2>1, <3>1
  <2>5. read = Cursor(v)
    BY <1>4, <2>3, <2>4
  <2> HIDE DEF read
  <2>6. Trimmed(x, rate) = [x EXCEPT !.read = Cursor(v), !.trim = FALSE]
    BY <1>3, <2>5, Zenon
  <2>7. r <= v /\ v <= w /\ (v = r \/ v < w)
    BY <2>1, <2>2
  <2> QED BY <2>6, <2>7, Zenon DEF TrimsTo
<1>5. CASE ~(queued > kept)
  <2>1. read = Cursor(r)
    BY <1>5
  <2> HIDE DEF read
  <2>2. Trimmed(x, rate) = [x EXCEPT !.read = Cursor(r), !.trim = FALSE]
    BY <1>3, <2>1, Zenon
  <2>3. r <= r /\ r <= w /\ (r = r \/ r < w)
    OBVIOUS
  <2> QED BY <2>2, <2>3, Zenon DEF TrimsTo
<1> QED BY <1>4, <1>5

\* The end of a read leaves the generations, the rate and the fade.
LEMMA RestFacts ==
    ASSUME NEW p \in PumpType, NEW z, z = Rest(p)
    PROVE  /\ z.pc = "generation" /\ z.converting = FALSE /\ z.changed = FALSE
           /\ z.applied = p.applied /\ z.seen = p.seen /\ z.rate = p.rate
           /\ z.trimAfterFade = p.trimAfterFade /\ z.fade = p.fade
BY Zenon DEF Rest, PumpType

\* After the checks.
LEMMA AfterChecksFacts ==
    ASSUME NEW p \in PumpType, NEW z, z = AfterChecks(p)
    PROVE  /\ z.applied = p.applied /\ z.seen = p.seen /\ z.rate = p.rate
           /\ z.trimAfterFade = p.trimAfterFade /\ z.fade = p.fade
           /\ ~p.converting => z.pc = "prepare" /\ ~z.converting /\ z.changed = p.changed
           /\ p.converting /\ ~p.changed =>
                /\ z.pc = "convert" /\ z.converting /\ ~z.changed
                /\ z.write = p.write /\ z.segment = p.segment /\ z.left = p.left
           /\ p.converting /\ p.changed =>
                /\ \/ z.pc = "underrun" /\ z.converting
                   \/ z.pc = "generation" /\ ~z.converting
                /\ z.converting => z.changed
<1>1. ASSUME NEW place \in PumpPlaces, NEW y, y = [p EXCEPT !.pc = place]
      PROVE  /\ y.pc = place /\ y.applied = p.applied /\ y.seen = p.seen /\ y.rate = p.rate
             /\ y.trimAfterFade = p.trimAfterFade /\ y.fade = p.fade
             /\ y.converting = p.converting /\ y.changed = p.changed
             /\ y.write = p.write /\ y.segment = p.segment /\ y.left = p.left
  BY <1>1, Zenon DEF PumpType
<1>2. {"prepare", "convert", "underrun"} \subseteq PumpPlaces
  BY DEF PumpPlaces
<1>3. CASE ~p.converting
  <2>1. z = [p EXCEPT !.pc = "prepare"]
    BY <1>3 DEF AfterChecks
  <2> QED BY <1>1, <1>2, <1>3, <2>1
<1>4. CASE p.converting /\ ~p.changed
  <2>1. z = [p EXCEPT !.pc = "convert"]
    BY <1>4 DEF AfterChecks
  <2> QED BY <1>1, <1>2, <1>4, <2>1
<1>5. CASE p.converting /\ p.changed /\ p.underrun
  <2>1. z = [p EXCEPT !.pc = "underrun"]
    BY <1>5 DEF AfterChecks
  <2> QED BY <1>1, <1>2, <1>5, <2>1
<1>6. CASE p.converting /\ p.changed /\ ~p.underrun
  <2>1. z = Rest(p)
    BY <1>6 DEF AfterChecks
  <2> QED BY <1>6, <2>1, RestFacts
<1> QED BY <1>3, <1>4, <1>5, <1>6

\* The end of a segment.
LEMMA SegmentFacts ==
    ASSUME NEW p \in PumpType, NEW short \in BOOLEAN, NEW z, z = SegmentDone(p, short)
    PROVE  /\ z.applied = p.applied /\ z.seen = p.seen /\ z.rate = p.rate
           /\ z.trimAfterFade = p.trimAfterFade /\ z.fade = 0
           /\ \/ z.pc = "segment" /\ z.converting = p.converting /\ z.changed = p.changed
              \/ /\ p.left <= p.segment
                 /\ z.pc = "underrun" /\ z.converting = p.converting /\ z.changed = p.changed
              \/ /\ p.left <= p.segment
                 /\ z.pc = "generation" /\ z.converting = FALSE /\ z.changed = FALSE
<1> DEFINE left == p.left - p.segment
           under == p.underrun \/ short
           on == [p EXCEPT !.pc = "segment", !.left = left, !.underrun = under, !.fade = 0,
                           !.segment = 0, !.write = 0]
           late == [p EXCEPT !.pc = "underrun", !.fade = 0]
           over == [p EXCEPT !.fade = 0]
<1>1. z = CASE left > 0 -> on
            [] left = 0 /\ (short \/ p.underrun) -> late
            [] OTHER -> Rest(over)
  BY DEF SegmentDone
<1>2. /\ left \in Int /\ (~(left > 0) => p.left <= p.segment)
  <2>1. p.left \in Int /\ p.segment \in Int
    BY Zenon DEF PumpType
  <2> QED BY <2>1
<1> HIDE DEF left, under
<1>3. /\ on.applied = p.applied /\ on.seen = p.seen /\ on.rate = p.rate /\ on.fade = 0
      /\ on.trimAfterFade = p.trimAfterFade /\ on.pc = "segment"
      /\ on.converting = p.converting /\ on.changed = p.changed
  BY Zenon DEF PumpType
<1>4. /\ late.applied = p.applied /\ late.seen = p.seen /\ late.rate = p.rate /\ late.fade = 0
      /\ late.trimAfterFade = p.trimAfterFade /\ late.pc = "underrun"
      /\ late.converting = p.converting /\ late.changed = p.changed
  BY Zenon DEF PumpType
<1>5. /\ over \in PumpType
      /\ over.applied = p.applied /\ over.seen = p.seen /\ over.rate = p.rate /\ over.fade = 0
      /\ over.trimAfterFade = p.trimAfterFade
  BY Values, Zenon DEF PumpType
<1> HIDE DEF on, late, over
<1>6. CASE left > 0
  <2>1. z = on
    BY <1>1, <1>2, <1>6
  <2> QED BY <1>3, <2>1
<1>7. CASE ~(left > 0)
  <2>1. z = late \/ z = Rest(over)
    BY <1>1, <1>2, <1>7
  <2>2. CASE z = late
    BY <1>2, <1>4, <1>7, <2>2
  <2>3. CASE z = Rest(over)
    BY <1>2, <1>5, <1>7, <2>3, RestFacts
  <2> QED BY <2>1, <2>2, <2>3
<1> QED BY <1>6, <1>7

\* What is being copied is a number of frames.
LEMMA FlightType == ASSUME Types PROVE Flight \in Nat
BY DEF Types, WorkerType, Flight

\* The pump looks at the generation.
LEMMA LoadGenerationStep ==
    ASSUME Types, NEW r \in Nat, NEW w \in Nat, NEW f \in Nat, NEW s \in Nat, NEW g \in Nat,
           NEW t \in Nat, NEW e \in Nat, Sound(r, w, f, s, g, t, e), LoadGeneration
    PROVE  Sound(r, w, f, s, g, t, e)'
<1>1. /\ pump \in PumpType /\ shared.gen \in Nat /\ pump.applied \in Nat /\ pump.pc = "generation"
      /\ UNCHANGED <<shared, ring, producer>>
  BY Zenon DEF Types, SharedType, PumpType, LoadGeneration, WriterIdle
<1>2. /\ pump'.applied = pump.applied /\ pump'.seen = pump.seen /\ pump'.rate = pump.rate
      /\ pump'.converting = pump.converting /\ pump'.changed = pump.changed
      /\ pump'.write = pump.write /\ pump'.trimAfterFade = pump.trimAfterFade
      /\ pump'.fade = pump.fade /\ pump'.segment = pump.segment /\ pump'.left = pump.left
      /\ shared.gen = pump.applied => pump'.pc = "talkspurt"
      /\ shared.gen # pump.applied => pump'.pc = "rate" /\ pump'.loaded = shared.gen
  <2>1. CASE shared.gen = pump.applied
    <3>1. pump' = [pump EXCEPT !.pc = "talkspurt"]
      BY <2>1 DEF LoadGeneration
    <3> QED BY <1>1, <2>1, <3>1, Zenon DEF PumpType
  <2>2. CASE shared.gen # pump.applied
    <3>1. pump' = [pump EXCEPT !.pc = "rate", !.loaded = shared.gen]
      BY <2>2 DEF LoadGeneration
    <3> QED BY <1>1, <2>2, <3>1, Zenon DEF PumpType
  <2> QED BY <2>1, <2>2
<1>3. /\ (Changing' <=> Changing) /\ (NewSpurt' <=> NewSpurt) /\ (Taking' <=> Taking) /\ ~Again'
      /\ Flight' = Flight /\ (AtGeneration' <=> AtGeneration) /\ (AtSpurt' <=> AtSpurt)
      /\ (NewRate' <=> NewRate)
  BY <1>1, <1>2 DEF Changing, NewSpurt, Taking, Again, Flight, AtGeneration, AtSpurt, NewRate
<1>4. /\ r <= w /\ (AtGeneration => f = w)
      /\ pump.applied <= shared.gen /\ (pump.applied = shared.gen => g <= r)
      /\ (Taking => pump.write = Cursor(e) /\ r <= e /\ e <= w)
  BY <1>1 DEF Sound, Ordered, Generations, Converting
<1>5. Ordered(r, w, f, s, g, t)' /\ Queued(r, w, g, t)'
  BY <1>1, <1>3 DEF Sound, Ordered, Queued
<1>6. Generations(r, g, t)'
  BY <1>1, <1>2, <1>3 DEF Sound, Generations
<1>7. BehindFormat(r, f)'
  BY <1>1, <1>2, <1>3, <1>4 DEF Sound, BehindFormat, Changing
<1>8. BehindSpurt(r, s)'
  BY <1>1, <1>2, <1>3, Sizes DEF Sound, BehindSpurt
<1>9. Converting(r, w, f, s, e)'
  <2>1. shared.gen = pump.applied /\ Taking
          => /\ \A p \in Nat : r <= p /\ p < e => ring[Slot(p)].gen = pump.applied
             /\ Changing => e <= f
    <3> SUFFICES ASSUME shared.gen = pump.applied, Taking
                 PROVE  /\ \A p \in Nat : r <= p /\ p < e => ring[Slot(p)].gen = pump.applied
                        /\ Changing => e <= f
      OBVIOUS
    <3>1. ASSUME NEW p \in Nat, r <= p, p < e PROVE ring[Slot(p)].gen = pump.applied
      <4>1. p < w + Flight /\ p >= g
        <5>1. g <= r /\ e <= w /\ g \in Nat
          BY <1>4
        <5> QED BY <3>1, <5>1, FlightType
      <4> QED BY <3>1, <4>1 DEF Sound, Queued
    <3>2. Changing => e <= f
      BY <1>4 DEF Changing
    <3> QED BY <3>1, <3>2
  <2> QED BY <1>1, <1>2, <1>3, <1>4, <2>1 DEF Sound, Converting
<1>10. Fading'
  BY <1>1, <1>2 DEF Sound, Fading
<1>11. RateKnown'
  BY <1>1, <1>2, <1>3 DEF Sound, RateKnown
<1> QED BY <1>5, <1>6, <1>7, <1>8, <1>9, <1>10, <1>11 DEF Sound

\* The pump loads the rate.
LEMMA LoadRateStep ==
    ASSUME Types, NEW r \in Nat, NEW w \in Nat, NEW f \in Nat, NEW s \in Nat, NEW g \in Nat,
           NEW t \in Nat, NEW e \in Nat, Sound(r, w, f, s, g, t, e), LoadRate
    PROVE  Sound(r, w, f, s, g, t, e)'
<1>1. /\ pump \in PumpType /\ pump.pc = "rate" /\ UNCHANGED <<shared, ring, producer>>
  BY Zenon DEF Types, LoadRate, WriterIdle
<1>2. /\ pump'.applied = pump.applied /\ pump'.seen = pump.seen /\ pump'.rate = shared.rate
      /\ pump'.converting = pump.converting /\ pump'.changed = pump.changed
      /\ pump'.write = pump.write /\ pump'.trimAfterFade = pump.trimAfterFade
      /\ pump'.fade = pump.fade /\ pump'.segment = pump.segment /\ pump'.left = pump.left
      /\ pump'.pc = "reset" /\ pump'.loaded = pump.loaded
  BY <1>1, Zenon DEF LoadRate, PumpType
<1>3. /\ (Changing' <=> Changing) /\ (NewSpurt' <=> NewSpurt) /\ (Taking' <=> Taking) /\ ~Again'
      /\ Flight' = Flight /\ (AtGeneration' <=> AtGeneration) /\ (AtSpurt' <=> AtSpurt)
      /\ (NewRate' <=> NewRate)
  BY <1>1, <1>2 DEF Changing, NewSpurt, Taking, Again, Flight, AtGeneration, AtSpurt, NewRate
<1>4. Ordered(r, w, f, s, g, t)' /\ Queued(r, w, g, t)'
  BY <1>1, <1>3 DEF Sound, Ordered, Queued
<1>5. Generations(r, g, t)'
  BY <1>1, <1>2, <1>3 DEF Sound, Generations
<1>6. BehindFormat(r, f)' /\ BehindSpurt(r, s)'
  BY <1>1, <1>2, <1>3 DEF Sound, BehindFormat, BehindSpurt
<1>7. Converting(r, w, f, s, e)'
  BY <1>1, <1>2, <1>3 DEF Sound, Converting
<1>8. Fading' /\ RateKnown'
  BY <1>1, <1>2 DEF Sound, Fading, RateKnown
<1> QED BY <1>4, <1>5, <1>6, <1>7, <1>8 DEF Sound

\* The pump applies a generation: it goes to the boundary it loads now.
LEMMA ApplyGenerationStep ==
    ASSUME Types, NEW r \in Nat, NEW w \in Nat, NEW f \in Nat, NEW s \in Nat, NEW g \in Nat,
           NEW t \in Nat, NEW e \in Nat, Sound(r, w, f, s, g, t, e), ApplyGeneration
    PROVE  \E v \in Nat : Sound(v, w, f, s, g, t, e)'
<1>1. /\ pump \in PumpType /\ shared \in SharedType /\ pump.pc = "reset"
      /\ shared.gen \in Nat /\ pump.applied \in Nat /\ pump.loaded \in Nat
      /\ UNCHANGED <<ring, producer>>
  BY Zenon DEF Types, PumpType, SharedType, ApplyGeneration, WriterIdle
<1>2. /\ pump'.applied = pump.loaded /\ pump'.seen = pump.seen /\ pump'.rate = pump.rate
      /\ pump'.converting = pump.converting /\ pump'.changed = TRUE
      /\ pump'.trimAfterFade = FALSE /\ pump'.pc = "talkspurt"
  <2> DEFINE cut == Cut(pump)
  <2>1. /\ cut \in PumpType /\ cut.seen = pump.seen /\ cut.rate = pump.rate
        /\ cut.converting = pump.converting /\ cut.trimAfterFade = FALSE
    <3>1. cut \in PumpType
      BY <1>1, PumpParts
    <3> QED BY <1>1, <3>1, Zenon DEF Cut, PumpType
  <2>2. pump' = [cut EXCEPT !.pc = "talkspurt", !.applied = pump.loaded, !.changed = TRUE,
                            !.loaded = 0]
    BY DEF ApplyGeneration
  <2> HIDE DEF cut
  <2> QED BY <2>1, <2>2, Zenon DEF PumpType
<1>3. /\ shared.read = Cursor(r) /\ shared.reset = Cursor(f) /\ r <= w /\ f <= w /\ g <= f
      /\ w <= r + Capacity /\ (AtGeneration => f = w)
  <2>1. w + Flight <= r + Capacity
    BY DEF Sound, Ordered
  <2> QED BY <2>1, FlightType, Sizes DEF Sound, Ordered
<1>4. /\ pump.applied < pump.loaded /\ pump.loaded <= shared.gen /\ Changing
      /\ (shared.gen # pump.loaded \/ AtGeneration) => r <= f
  BY <1>1 DEF Sound, Generations, BehindFormat, Changing
<1>5. r < f + 2 * Capacity
  BY <1>4 DEF Sound, BehindFormat
<1>6. PICK v \in Nat : v = IF r <= f THEN f ELSE r
  OBVIOUS
<1>7. Advanced(shared.read, shared.reset) = Cursor(v)
  BY <1>3, <1>5, <1>6, AdvancedFacts, Sizes
<1>8. MovesTo(v)
  <2>1. shared' = [shared EXCEPT !.read = Cursor(v)]
    BY <1>7 DEF ApplyGeneration
  <2> QED BY <1>1, <2>1, Zenon DEF MovesTo, SharedType
<1>9. /\ shared'.read = Cursor(v) /\ shared'.gen = shared.gen /\ shared'.spurt = shared.spurt
      /\ shared'.rate = shared.rate /\ shared'.write = shared.write
  BY <1>8 DEF MovesTo
<1>10. /\ (Changing' => shared.gen # pump.loaded \/ AtGeneration) /\ (NewSpurt' <=> NewSpurt)
       /\ ~Taking' /\ ~Again' /\ (AtSpurt' <=> AtSpurt) /\ (AtGeneration' <=> AtGeneration)
       /\ (NewRate' <=> NewRate)
  BY <1>1, <1>2, <1>9 DEF Changing, NewSpurt, Taking, Again, AtGeneration, AtSpurt, NewRate
<1>11. r <= v /\ v <= w /\ f <= v
  BY <1>3, <1>6
<1>12. Ordered(v, w, f, s, g, t)' /\ Queued(v, w, g, t)'
  BY <1>8, <1>11, FlightType, ReaderMoves DEF Sound
<1>13. Generations(v, g, t)'
  <2>1. g <= v /\ (pump.seen = shared.spurt => t <= v)
    BY <1>3, <1>11 DEF Sound, Generations
  <2> QED BY <1>1, <1>2, <1>9, <1>10, <2>1 DEF Sound, Generations
<1>14. BehindFormat(v, f)'
  <2>1. Changing' => v <= f
    BY <1>4, <1>6, <1>10
  <2> QED BY <1>2, <1>10, <2>1, Sizes DEF BehindFormat
<1>15. BehindSpurt(v, s)'
  <2>1. NewSpurt => r < s + Capacity
    BY <1>1 DEF Sound, BehindSpurt
  <2>2. NewSpurt => v < s + 2 * Capacity
    BY <1>3, <1>11, <2>1, Sizes
  <2> QED BY <1>2, <1>10, <2>2 DEF BehindSpurt
<1>16. Converting(v, w, f, s, e)'
  BY <1>2, <1>10 DEF Converting
<1>17. Fading' /\ RateKnown'
  BY <1>2, <1>10 DEF Fading, RateKnown
<1>18. Sound(v, w, f, s, g, t, e)'
  BY <1>12, <1>13, <1>14, <1>15, <1>16, <1>17 DEF Sound
<1> QED BY <1>18

\* The pump looks at the talkspurt.
LEMMA LoadTalkspurtStep ==
    ASSUME Types, NEW r \in Nat, NEW w \in Nat, NEW f \in Nat, NEW s \in Nat, NEW g \in Nat,
           NEW t \in Nat, NEW e \in Nat, Sound(r, w, f, s, g, t, e), LoadTalkspurt
    PROVE  Sound(r, w, f, s, g, t, e)'
<1>1. /\ pump \in PumpType /\ shared.spurt \in Nat /\ pump.seen \in Nat /\ pump.pc = "talkspurt"
      /\ UNCHANGED <<shared, ring, producer>>
  BY Zenon DEF Types, SharedType, PumpType, LoadTalkspurt, WriterIdle
<1>2. /\ r <= w /\ (AtSpurt => s = w) /\ (AtGeneration => f = w)
      /\ pump.seen <= shared.spurt /\ (pump.seen = shared.spurt => t <= r)
      /\ (Changing => r <= f)
      /\ (Taking => pump.write = Cursor(e) /\ r <= e /\ e <= w)
      /\ (Taking => /\ \A p \in Nat : r <= p /\ p < e => ring[Slot(p)].gen = pump.applied
                    /\ Changing => e <= f)
  BY <1>1 DEF Sound, Ordered, Generations, BehindFormat, Converting
<1>3. /\ pump.changed => ~pump.trimAfterFade
      /\ ~pump.converting => ~pump.trimAfterFade
      /\ pump.converting /\ pump.trimAfterFade
           => pump.fade = pump.segment /\ pump.left > pump.segment /\ pump.fade > 0
      /\ Taking => pump.rate # 0
  BY <1>1 DEF Sound, Fading, RateKnown
<1>4. /\ Flight' = Flight /\ (AtGeneration' <=> AtGeneration) /\ (AtSpurt' <=> AtSpurt)
      /\ (NewRate' <=> NewRate)
  BY <1>1 DEF Flight, AtGeneration, AtSpurt, NewRate
<1>5. Ordered(r, w, f, s, g, t)' /\ Queued(r, w, g, t)'
  BY <1>1, <1>4 DEF Sound, Ordered, Queued
<1>6. CASE shared.spurt = pump.seen
  <2>1. pump' = AfterChecks(pump)
    BY <1>6 DEF LoadTalkspurt
  <2>2. /\ pump'.applied = pump.applied /\ pump'.seen = pump.seen /\ pump'.rate = pump.rate
        /\ pump'.trimAfterFade = pump.trimAfterFade /\ pump'.fade = pump.fade
        /\ ~pump.converting
             => pump'.pc = "prepare" /\ ~pump'.converting /\ pump'.changed = pump.changed
        /\ pump.converting /\ ~pump.changed =>
             /\ pump'.pc = "convert" /\ pump'.converting /\ ~pump'.changed
             /\ pump'.write = pump.write /\ pump'.segment = pump.segment /\ pump'.left = pump.left
        /\ pump.converting /\ pump.changed =>
             /\ \/ pump'.pc = "underrun" /\ pump'.converting
                \/ pump'.pc = "generation" /\ ~pump'.converting
             /\ pump'.converting => pump'.changed
    BY <1>1, <2>1, AfterChecksFacts
  <2>3. /\ (Changing' <=> Changing) /\ (NewSpurt' <=> AtSpurt) /\ (Taking' <=> Taking) /\ ~Again'
        /\ (Taking => pump'.pc = "convert") /\ (pump'.pc = "convert" => Taking)
        /\ pump'.pc \in {"prepare", "convert", "underrun", "generation"}
        /\ (pump'.pc = "prepare" => ~pump'.converting)
    BY <1>1, <1>4, <1>6, <2>2 DEF Changing, NewSpurt, Taking, Again
  <2>4. Generations(r, g, t)'
    BY <1>1, <1>4, <2>2, <2>3 DEF Sound, Generations
  <2>5. BehindFormat(r, f)'
    BY <1>2, <2>3, Sizes DEF BehindFormat
  <2>6. BehindSpurt(r, s)'
    BY <1>2, <2>3, Sizes DEF BehindSpurt
  <2>7. Converting(r, w, f, s, e)'
    <3>1. ASSUME Taking, NEW p \in Nat, r <= p, p < e
          PROVE  ring[Slot(p)].spurt = pump.seen
      <4>1. p < w + Flight /\ p >= t
        <5>1. t <= r /\ e <= w
          BY <1>2, <1>6, <3>1
        <5> QED BY <3>1, <5>1, FlightType
      <4> QED BY <1>6, <3>1, <4>1 DEF Sound, Queued
    <3> QED BY <1>1, <1>2, <2>2, <2>3, <3>1 DEF Converting, Taking
  <2>8. Fading'
    BY <1>3, <2>2, <2>3 DEF Fading
  <2>9. RateKnown'
    BY <1>3, <2>2, <2>3 DEF RateKnown
  <2> QED BY <1>5, <2>4, <2>5, <2>6, <2>7, <2>8, <2>9 DEF Sound
<1>7. CASE shared.spurt # pump.seen
  <2>1. pump' = [pump EXCEPT !.pc = "spurtCursor", !.loaded = shared.spurt]
    BY <1>7 DEF LoadTalkspurt
  <2>2. /\ pump'.applied = pump.applied /\ pump'.seen = pump.seen /\ pump'.rate = pump.rate
        /\ pump'.converting = pump.converting /\ pump'.changed = pump.changed
        /\ pump'.write = pump.write /\ pump'.trimAfterFade = pump.trimAfterFade
        /\ pump'.fade = pump.fade /\ pump'.segment = pump.segment /\ pump'.left = pump.left
        /\ pump'.pc = "spurtCursor" /\ pump'.loaded = shared.spurt
    BY <1>1, <2>1, Zenon DEF PumpType
  <2>3. /\ (Changing' <=> Changing) /\ (NewSpurt' <=> NewSpurt) /\ (Taking' <=> Taking) /\ ~Again'
    BY <1>1, <1>4, <2>2 DEF Changing, NewSpurt, Taking, Again
  <2>4. Generations(r, g, t)'
    BY <1>1, <1>2, <1>4, <1>7, <2>2, <2>3 DEF Sound, Generations
  <2>5. BehindFormat(r, f)'
    BY <1>2, <2>2, <2>3, Sizes DEF BehindFormat
  <2>6. BehindSpurt(r, s)'
    <3>1. NewSpurt => r < s + 2 * Capacity
      BY DEF Sound, BehindSpurt
    <3> QED BY <1>1, <1>2, <1>4, <2>2, <2>3, <3>1 DEF BehindSpurt
  <2>7. Converting(r, w, f, s, e)'
    BY <1>1, <1>2, <2>2, <2>3 DEF Converting
  <2>8. Fading'
    BY <1>3, <2>2 DEF Fading
  <2>9. RateKnown'
    BY <1>3, <2>2, <2>3 DEF RateKnown
  <2> QED BY <1>5, <2>4, <2>5, <2>6, <2>7, <2>8, <2>9 DEF Sound
<1> QED BY <1>6, <1>7

\* The pump applies a talkspurt: it goes to the boundary it loads now.
LEMMA ApplyTalkspurtStep ==
    ASSUME Types, NEW r \in Nat, NEW w \in Nat, NEW f \in Nat, NEW s \in Nat, NEW g \in Nat,
           NEW t \in Nat, NEW e \in Nat, Sound(r, w, f, s, g, t, e), ApplyTalkspurt
    PROVE  \E v \in Nat : Sound(v, w, f, s, g, t, e)'
<1>1. /\ pump \in PumpType /\ shared \in SharedType /\ pump.pc = "spurtCursor"
      /\ shared.spurt \in Nat /\ pump.seen \in Nat /\ pump.loaded \in Nat
      /\ UNCHANGED <<ring, producer>>
  BY Zenon DEF Types, PumpType, SharedType, ApplyTalkspurt, WriterIdle
<1>2. /\ pump'.applied = pump.applied /\ pump'.seen = pump.loaded /\ pump'.rate = pump.rate
      /\ pump'.trimAfterFade = FALSE
      /\ pump'.pc \in {"prepare", "underrun", "generation"}
      /\ pump'.converting => pump'.changed
      /\ pump'.pc = "prepare" => ~pump'.converting
  <2> DEFINE cut == Cut(pump)
             p == [cut EXCEPT !.seen = pump.loaded, !.changed = TRUE, !.loaded = 0]
  <2>1. /\ cut \in PumpType /\ cut.applied = pump.applied /\ cut.rate = pump.rate
        /\ cut.trimAfterFade = FALSE
    <3>1. cut \in PumpType
      BY <1>1, PumpParts
    <3> QED BY <1>1, <3>1, Zenon DEF Cut, PumpType
  <2>2. pump' = AfterChecks(p)
    BY DEF ApplyTalkspurt
  <2> HIDE DEF cut
  <2>3. /\ p \in PumpType /\ p.applied = pump.applied /\ p.rate = pump.rate
        /\ p.trimAfterFade = FALSE /\ p.seen = pump.loaded /\ p.changed = TRUE
    BY <1>1, <2>1, Values, Zenon DEF PumpType
  <2> HIDE DEF p
  <2>4. /\ pump'.applied = p.applied /\ pump'.seen = p.seen /\ pump'.rate = p.rate
        /\ pump'.trimAfterFade = p.trimAfterFade
        /\ ~p.converting
             => pump'.pc = "prepare" /\ ~pump'.converting
        /\ p.converting /\ p.changed =>
             /\ \/ pump'.pc = "underrun" /\ pump'.converting
                \/ pump'.pc = "generation" /\ ~pump'.converting
             /\ pump'.converting => pump'.changed
    BY <2>2, <2>3, AfterChecksFacts
  <2> QED BY <2>3, <2>4
<1>3. /\ shared.read = Cursor(r) /\ shared.spurtCursor = Cursor(s) /\ r <= w /\ s <= w /\ t <= s
      /\ w <= r + Capacity
  <2>1. w + Flight <= r + Capacity
    BY DEF Sound, Ordered
  <2> QED BY <2>1, FlightType, Sizes DEF Sound, Ordered
<1>4. /\ pump.seen < pump.loaded /\ pump.loaded <= shared.spurt /\ NewSpurt
      /\ (shared.spurt # pump.loaded \/ AtSpurt) => r <= s
  BY <1>1 DEF Sound, Generations, BehindSpurt, NewSpurt
<1>5. r < s + 2 * Capacity
  BY <1>4 DEF Sound, BehindSpurt
<1>6. PICK v \in Nat : v = IF r <= s THEN s ELSE r
  OBVIOUS
<1>7. Advanced(shared.read, shared.spurtCursor) = Cursor(v)
  BY <1>3, <1>5, <1>6, AdvancedFacts, Sizes
<1>8. MovesTo(v)
  <2>1. shared' = [shared EXCEPT !.read = Cursor(v)]
    BY <1>7 DEF ApplyTalkspurt
  <2> QED BY <1>1, <2>1, Zenon DEF MovesTo, SharedType
<1>9. /\ shared'.read = Cursor(v) /\ shared'.gen = shared.gen /\ shared'.spurt = shared.spurt
      /\ shared'.rate = shared.rate /\ shared'.write = shared.write
  BY <1>8 DEF MovesTo
<1>10. /\ (Changing' <=> Changing) /\ (NewSpurt' => shared.spurt # pump.loaded \/ AtSpurt)
       /\ ~Taking' /\ ~Again' /\ (AtSpurt' <=> AtSpurt) /\ (AtGeneration' <=> AtGeneration)
       /\ (NewRate' <=> NewRate)
  BY <1>1, <1>2, <1>9 DEF Changing, NewSpurt, Taking, Again, AtGeneration, AtSpurt, NewRate
<1>11. r <= v /\ v <= w /\ s <= v
  BY <1>3, <1>6
<1>12. Ordered(v, w, f, s, g, t)' /\ Queued(v, w, g, t)'
  BY <1>8, <1>11, FlightType, ReaderMoves DEF Sound
<1>13. Generations(v, g, t)'
  <2>1. t <= v /\ (pump.applied = shared.gen => g <= v)
    BY <1>3, <1>11 DEF Sound, Generations
  <2> QED BY <1>1, <1>2, <1>4, <1>9, <1>10, <2>1 DEF Sound, Generations
<1>14. BehindFormat(v, f)'
  <2>1. Changing => r <= f
    BY <1>1 DEF Sound, BehindFormat
  <2>2. Changing => v <= f + Capacity
    BY <1>3, <1>11, <2>1, Sizes
  <2> QED BY <1>2, <1>10, <2>2, Sizes DEF BehindFormat
<1>15. BehindSpurt(v, s)'
  <2>1. NewSpurt' => v <= s
    BY <1>4, <1>6, <1>10
  <2> QED BY <1>2, <1>10, <2>1, Sizes DEF BehindSpurt
<1>16. Converting(v, w, f, s, e)'
  BY <1>2, <1>10 DEF Converting
<1>17. Fading' /\ RateKnown'
  BY <1>2, <1>10 DEF Fading, RateKnown
<1>18. Sound(v, w, f, s, g, t, e)'
  BY <1>12, <1>13, <1>14, <1>15, <1>16, <1>17 DEF Sound
<1> QED BY <1>18

\* The pump decides to play, after a trim when it is waiting for the target, or not to.
LEMMA PrepareStep ==
    ASSUME Types, NEW r \in Nat, NEW w \in Nat, NEW f \in Nat, NEW s \in Nat, NEW g \in Nat,
           NEW t \in Nat, NEW e \in Nat, Sound(r, w, f, s, g, t, e), Prepare
    PROVE  \E v \in Nat : Sound(v, w, f, s, g, t, e)'
<1>1. /\ pump \in PumpType /\ shared \in SharedType /\ pump.pc = "prepare" /\ pump.rate \in Nat
      /\ UNCHANGED <<ring, producer>>
  BY Zenon DEF Types, PumpType, SharedType, Prepare, WriterIdle
<1>2. /\ shared.read = Cursor(r) /\ shared.write = Cursor(w) /\ r <= w /\ w <= r + Capacity
  <2>1. w + Flight <= r + Capacity
    BY DEF Sound, Ordered
  <2> QED BY <2>1, FlightType, Sizes DEF Sound, Ordered
<1>3. ~pump.converting /\ ~pump.trimAfterFade
  BY <1>1 DEF Sound, Converting, Fading
<1>4. \E v \in Nat : r <= v /\ v <= w /\ (v = r \/ v < w) /\ MovesTo(v)
  <2>1. CASE shared' = shared
    <3>1. MovesTo(r) /\ r <= r /\ r <= w
      BY <1>1, <1>2, <2>1 DEF MovesTo
    <3> QED BY <3>1
  <2>2. CASE shared' = Trimmed(shared, pump.rate) /\ pump.rate # 0
    <3>1. PICK v \in Nat : TrimsTo(shared, pump.rate, r, w, v)
      <4>1. pump.rate \in Nat \ {0}
        BY <1>1, <2>2
      <4> QED BY <1>1, <1>2, <4>1, TrimFacts
    <3>2. MovesTo(v)
      BY <1>1, <2>2, <3>1, Zenon DEF MovesTo, SharedType, TrimsTo
    <3> QED BY <3>1, <3>2 DEF TrimsTo
  <2>3. shared' = shared \/ (shared' = Trimmed(shared, pump.rate) /\ pump.rate # 0)
    BY DEF Prepare
  <2> QED BY <2>1, <2>2, <2>3
<1>5. PICK v \in Nat : r <= v /\ v <= w /\ (v = r \/ v < w) /\ MovesTo(v)
  BY <1>4
<1>6. /\ pump'.applied = pump.applied /\ pump'.seen = pump.seen /\ pump'.rate = pump.rate
      /\ pump'.converting = FALSE
      /\ \/ pump'.pc = "generation" /\ pump'.changed = FALSE /\ ~pump'.trimAfterFade
         \/ /\ pump'.pc = "segment" /\ pump'.changed = FALSE /\ pump.rate # 0
            /\ pump'.trimAfterFade => pump'.fade > 0 /\ pump'.left > pump'.fade
  <2> DEFINE usable == shared.open /\ pump.rate # 0
             x == IF usable /\ pump.rebuffering /\ WantsTrim(shared)
                    THEN Trimmed(shared, pump.rate) ELSE shared
             live == pump.live \/ (pump.rebuffering /\ MayStart(x))
             fades == ~pump.trimAfterFade /\ pump.fade = 0 /\ WantsTrim(x)
             after == pump.trimAfterFade \/ fades
             fade == IF fades THEN FadeFrames ELSE pump.fade
             going == [pump EXCEPT !.pc = "segment", !.live = TRUE, !.rebuffering = FALSE,
                                   !.trimAfterFade = after, !.fade = fade,
                                   !.left = 2 * FadeFrames, !.changed = FALSE]
             idle == [pump EXCEPT !.live = FALSE, !.rebuffering = TRUE]
  <2>1. pump' = CASE ~usable -> Rest(idle)
                  [] usable /\ ~live -> Rest(pump)
                  [] usable /\ live -> going
    BY DEF Prepare
  <2>2. (usable => pump.rate # 0) /\ usable \in BOOLEAN /\ live \in BOOLEAN
    OBVIOUS
  <2>3. after => fade = FadeFrames
    BY <1>3
  <2> HIDE DEF usable, x, live, fades, after, fade
  <2>4. \/ pump' = Rest(idle) \/ pump' = Rest(pump)
        \/ pump' = going /\ pump.rate # 0
    BY <2>1, <2>2
  <2>5. /\ idle \in PumpType /\ idle.applied = pump.applied /\ idle.seen = pump.seen
        /\ idle.rate = pump.rate /\ idle.trimAfterFade = pump.trimAfterFade
    BY <1>1, Values, Zenon DEF PumpType
  <2>6. /\ going.applied = pump.applied /\ going.seen = pump.seen /\ going.rate = pump.rate
        /\ going.converting = pump.converting /\ going.changed = FALSE
        /\ going.pc = "segment" /\ going.trimAfterFade = after /\ going.fade = fade
        /\ going.left = 2 * FadeFrames
    BY <1>1, Zenon DEF PumpType
  <2> HIDE DEF idle, going
  <2>7. CASE pump' = Rest(idle)
    BY <1>3, <2>5, <2>7, RestFacts
  <2>8. CASE pump' = Rest(pump)
    BY <1>1, <1>3, <2>8, RestFacts
  <2>9. CASE pump' = going /\ pump.rate # 0
    <3>1. going.converting = FALSE
      BY <1>1, <1>3, <2>6 DEF PumpType
    <3>2. after => fade > 0 /\ 2 * FadeFrames > fade
      BY <2>3, Sizes
    <3> QED BY <2>6, <2>9, <3>1, <3>2
  <2> QED BY <2>4, <2>7, <2>8, <2>9
<1>7. /\ shared'.gen = shared.gen /\ shared'.spurt = shared.spurt /\ shared'.rate = shared.rate
  BY <1>5 DEF MovesTo
<1>8. /\ (Changing' <=> Changing) /\ (NewSpurt' <=> NewSpurt)
      /\ ~Taking' /\ ~Again' /\ (AtSpurt' <=> AtSpurt) /\ (AtGeneration' <=> AtGeneration)
      /\ (NewRate' <=> NewRate)
  BY <1>1, <1>6, <1>7 DEF Changing, NewSpurt, Taking, Again, AtGeneration, AtSpurt, NewRate
<1>9. Ordered(v, w, f, s, g, t)' /\ Queued(v, w, g, t)'
  BY <1>5, FlightType, ReaderMoves DEF Sound
<1>10. Generations(v, g, t)'
  <2>1. (pump.seen = shared.spurt => t <= v) /\ (pump.applied = shared.gen => g <= v)
    BY <1>5 DEF Sound, Generations
  <2> QED BY <1>1, <1>6, <1>7, <1>8, <2>1 DEF Sound, Generations
<1>11. BehindFormat(v, f)'
  <2>1. Changing => r <= f + Capacity
    BY <1>1 DEF Sound, BehindFormat
  <2>2. Changing => v < f + 2 * Capacity
    BY <1>2, <1>5, <2>1, Sizes
  <2> QED BY <1>6, <1>8, <2>2 DEF BehindFormat
<1>12. BehindSpurt(v, s)'
  <2>1. NewSpurt => r <= s
    BY <1>1 DEF Sound, BehindSpurt
  <2>2. NewSpurt => v < s + Capacity
    BY <1>2, <1>5, <2>1, Sizes
  <2> QED BY <1>6, <1>8, <2>2, Sizes DEF BehindSpurt
<1>13. Converting(v, w, f, s, e)'
  BY <1>6, <1>8 DEF Converting
<1>14. Fading' /\ RateKnown'
  BY <1>6, <1>8 DEF Fading, RateKnown
<1>15. Sound(v, w, f, s, g, t, e)'
  BY <1>9, <1>10, <1>11, <1>12, <1>13, <1>14 DEF Sound
<1> QED BY <1>15

\* The pump looks how far the writer has got, after the trim that waited for a fade.
LEMMA LoadWriteStep ==
    ASSUME Types, NEW r \in Nat, NEW w \in Nat, NEW f \in Nat, NEW s \in Nat, NEW g \in Nat,
           NEW t \in Nat, NEW e \in Nat, Sound(r, w, f, s, g, t, e), LoadWrite
    PROVE  \E v \in Nat : Sound(v, w, f, s, g, t, w)'
<1> DEFINE trims == pump.pc = "segment" /\ pump.trimAfterFade /\ pump.fade = 0
           after == pump.trimAfterFade /\ ~trims
           segment == IF pump.pc = "segment" THEN SegmentOf(pump) ELSE pump.segment
<1>1. /\ pump \in PumpType /\ shared \in SharedType /\ pump.pc \in {"segment", "more"}
      /\ pump.rate \in Nat /\ pump.fade \in Int /\ pump.left \in Int /\ pump.segment \in Int
      /\ UNCHANGED <<ring, producer>>
  BY Zenon DEF Types, PumpType, SharedType, LoadWrite, WriterIdle
<1>2. /\ shared.read = Cursor(r) /\ shared.write = Cursor(w) /\ r <= w /\ w <= r + Capacity
  <2>1. w + Flight <= r + Capacity
    BY DEF Sound, Ordered
  <2> QED BY <2>1, FlightType, Sizes DEF Sound, Ordered
<1>3. /\ pump.rate # 0
      /\ pump.changed => ~pump.trimAfterFade
      /\ trims => pump.converting
      /\ pump.pc = "segment" /\ pump.trimAfterFade /\ ~trims
           => pump.fade > 0 /\ pump.left > pump.fade
      /\ pump.pc = "more" /\ pump.trimAfterFade
           => pump.fade = pump.segment /\ pump.left > pump.segment /\ pump.fade > 0
  BY <1>1 DEF Sound, Fading, RateKnown, Converting
<1>4. shared' = (IF trims THEN Trimmed(shared, pump.rate) ELSE shared)
  BY DEF LoadWrite
<1>5. pump' = [pump EXCEPT !.pc = "generation", !.converting = TRUE, !.write = shared.write,
                           !.trimAfterFade = after, !.segment = segment]
  BY DEF LoadWrite
<1>6. after => pump.fade = segment /\ pump.left > segment /\ pump.fade > 0
  BY <1>1, <1>3 DEF SegmentOf, Least
<1> HIDE DEF after, segment
<1>7. /\ pump'.applied = pump.applied /\ pump'.seen = pump.seen /\ pump'.rate = pump.rate
      /\ pump'.converting = TRUE /\ pump'.changed = pump.changed /\ pump'.write = shared.write
      /\ pump'.pc = "generation" /\ pump'.trimAfterFade = after /\ pump'.segment = segment
      /\ pump'.left = pump.left /\ pump'.fade = pump.fade
  BY <1>1, <1>5, Zenon DEF PumpType
<1>8. \E v \in Nat : /\ r <= v /\ v <= w /\ (v = r \/ (v < w /\ Again)) /\ MovesTo(v)
  <2>1. CASE ~trims
    <3>1. shared' = shared
      BY <1>4, <2>1
    <3>2. MovesTo(r) /\ r <= r /\ r <= w
      BY <1>1, <1>2, <3>1 DEF MovesTo
    <3> QED BY <3>2
  <2>2. CASE trims
    <3>1. PICK v \in Nat : TrimsTo(shared, pump.rate, r, w, v)
      <4>1. pump.rate \in Nat \ {0}
        BY <1>1, <1>3
      <4> QED BY <1>1, <1>2, <4>1, TrimFacts
    <3>2. MovesTo(v)
      <4>1. shared' = [shared EXCEPT !.read = Cursor(v), !.trim = FALSE]
        BY <1>4, <2>2, <3>1 DEF TrimsTo
      <4> QED BY <1>1, <4>1, Zenon DEF MovesTo, SharedType
    <3>3. Again
      BY <1>1, <1>3, <2>2 DEF Again
    <3> QED BY <3>1, <3>2, <3>3 DEF TrimsTo
  <2> QED BY <2>1, <2>2
<1> HIDE DEF trims
<1>9. PICK v \in Nat : /\ r <= v /\ v <= w /\ (v = r \/ (v < w /\ Again)) /\ MovesTo(v)
  BY <1>8
<1>10. /\ shared'.gen = shared.gen /\ shared'.spurt = shared.spurt /\ shared'.rate = shared.rate
  BY <1>9 DEF MovesTo
<1>11. /\ (Changing' <=> Changing) /\ (NewSpurt' <=> NewSpurt) /\ ~Again'
       /\ (AtSpurt' <=> AtSpurt) /\ (AtGeneration' <=> AtGeneration) /\ (NewRate' <=> NewRate)
  BY <1>1, <1>7, <1>10 DEF Changing, NewSpurt, Again, AtGeneration, AtSpurt, NewRate
<1>12. Ordered(v, w, f, s, g, t)' /\ Queued(v, w, g, t)'
  BY <1>9, FlightType, ReaderMoves DEF Sound
<1>13. Generations(v, g, t)'
  <2>1. (pump.seen = shared.spurt => t <= v) /\ (pump.applied = shared.gen => g <= v)
    BY <1>9 DEF Sound, Generations
  <2> QED BY <1>1, <1>7, <1>10, <1>11, <2>1 DEF Sound, Generations
<1>14. BehindFormat(v, f)'
  <2>1. Changing => r < f + 2 * Capacity /\ (Again => r <= f)
    BY DEF Sound, BehindFormat
  <2>2. Changing => v < f + 2 * Capacity
    BY <1>2, <1>9, <2>1, Sizes
  <2> QED BY <1>7, <1>11, <2>2 DEF BehindFormat
<1>15. BehindSpurt(v, s)'
  <2>1. NewSpurt => r < s + Capacity /\ (Again => r <= s)
    BY <1>1 DEF Sound, BehindSpurt
  <2>2. NewSpurt => v < s + Capacity
    BY <1>2, <1>9, <2>1, Sizes
  <2> QED BY <1>7, <1>11, <2>2, Sizes DEF BehindSpurt
<1>16. Converting(v, w, f, s, w)'
  BY <1>2, <1>7, <1>9 DEF Converting
<1>17. Fading'
  BY <1>3, <1>6, <1>7 DEF Fading, after
<1>18. RateKnown'
  BY <1>3, <1>7 DEF RateKnown
<1>19. Sound(v, w, f, s, g, t, w)'
  BY <1>12, <1>13, <1>14, <1>15, <1>16, <1>17, <1>18 DEF Sound
<1> QED BY <1>19

\* The pump ends a block it could not fill.
LEMMA UnderrunStep ==
    ASSUME Types, NEW r \in Nat, NEW w \in Nat, NEW f \in Nat, NEW s \in Nat, NEW g \in Nat,
           NEW t \in Nat, NEW e \in Nat, Sound(r, w, f, s, g, t, e), Underrun
    PROVE  Sound(r, w, f, s, g, t, e)'
<1>1. /\ pump \in PumpType /\ shared \in SharedType /\ pump.pc = "underrun"
      /\ UNCHANGED <<ring, producer>>
  BY Zenon DEF Types, Underrun, WriterIdle
<1>2. /\ pump'.applied = pump.applied /\ pump'.seen = pump.seen /\ pump'.rate = pump.rate
      /\ pump'.converting = FALSE /\ pump'.changed = FALSE /\ pump'.pc = "generation"
      /\ pump'.trimAfterFade = FALSE
  <2> DEFINE cut == Cut(pump)
  <2>1. /\ cut \in PumpType /\ cut.seen = pump.seen /\ cut.rate = pump.rate
        /\ cut.applied = pump.applied /\ cut.trimAfterFade = FALSE
    <3>1. cut \in PumpType
      BY <1>1, PumpParts
    <3> QED BY <1>1, <3>1, Zenon DEF Cut, PumpType
  <2>2. pump' = Rest(cut)
    BY DEF Underrun
  <2> HIDE DEF cut
  <2> QED BY <2>1, <2>2, RestFacts
<1>3. /\ shared'.read = shared.read /\ shared'.write = shared.write /\ shared'.gen = shared.gen
      /\ shared'.reset = shared.reset /\ shared'.spurtCursor = shared.spurtCursor
      /\ shared'.spurt = shared.spurt /\ shared'.rate = shared.rate
  BY <1>1, Zenon DEF Underrun, SharedType
<1>4. /\ (Changing' <=> Changing) /\ (NewSpurt' <=> NewSpurt) /\ ~Taking' /\ ~Again'
      /\ Flight' = Flight /\ (AtGeneration' <=> AtGeneration) /\ (AtSpurt' <=> AtSpurt)
      /\ (NewRate' <=> NewRate)
  BY <1>1, <1>2, <1>3
  DEF Changing, NewSpurt, Taking, Again, Flight, AtGeneration, AtSpurt, NewRate
<1>5. Ordered(r, w, f, s, g, t)' /\ Queued(r, w, g, t)'
  BY <1>1, <1>3, <1>4 DEF Sound, Ordered, Queued
<1>6. Generations(r, g, t)'
  BY <1>1, <1>2, <1>3, <1>4 DEF Sound, Generations
<1>7. BehindFormat(r, f)' /\ BehindSpurt(r, s)'
  BY <1>1, <1>2, <1>3, <1>4 DEF Sound, BehindFormat, BehindSpurt
<1>8. Converting(r, w, f, s, e)'
  BY <1>2, <1>4 DEF Converting
<1>9. Fading' /\ RateKnown'
  BY <1>2, <1>4 DEF Fading, RateKnown
<1> QED BY <1>5, <1>6, <1>7, <1>8, <1>9 DEF Sound

\* The pump takes frames it has seen, or finds that there are none.
LEMMA ConvertParts ==
    ASSUME Types, NEW r \in Nat, NEW w \in Nat, NEW f \in Nat, NEW s \in Nat, NEW g \in Nat,
           NEW t \in Nat, NEW e \in Nat, Sound(r, w, f, s, g, t, e), Convert
    PROVE  /\ pump.pc = "convert" /\ Taking /\ r <= e /\ e <= w
           /\ \/ /\ pump' = SegmentDone(pump, TRUE) /\ shared' = shared /\ heard' = <<>>
              \/ \E n \in Nat \ {0} :
                   /\ r + n <= e /\ n <= pump.segment /\ n <= Capacity - Slot(r)
                   /\ shared' = [shared EXCEPT !.read = Cursor(r + n)]
                   /\ heard' = [i \in 1..n |-> ring[Slot(r) + i - 1]]
                   /\ pump' = IF n = pump.segment
                                THEN SegmentDone(pump, FALSE)
                                ELSE [pump EXCEPT !.pc = "more", !.segment = @ - n, !.left = @ - n,
                                                  !.write = 0, !.fade = IF @ > n THEN @ - n ELSE 0]
<1>1. /\ pump \in PumpType /\ pump.pc = "convert" /\ pump.segment \in Int
  BY Zenon DEF Types, PumpType, Convert
<1>2. /\ shared.read = Cursor(r) /\ r <= w /\ w <= r + Capacity /\ Taking
      /\ pump.write = Cursor(e) /\ r <= e /\ e <= w
  <2>1. w + Flight <= r + Capacity
    BY DEF Sound, Ordered
  <2> QED BY <1>1, <2>1, FlightType, Sizes DEF Sound, Ordered, Converting
<1> DEFINE queued == Ahead(shared.read, Seen)
           place  == shared.read % Capacity
           some   == Least(Least(queued, pump.segment), Capacity - place)
           Takes(n) == /\ shared' = [shared EXCEPT !.read = (@ + n) % Wrap]
                       /\ heard' = [i \in 1..n |-> ring[place + i - 1]]
                       /\ pump' = IF n = pump.segment
                                    THEN SegmentDone(pump, FALSE)
                                    ELSE [pump EXCEPT !.pc = "more", !.segment = @ - n,
                                                      !.left = @ - n, !.write = 0,
                                                      !.fade = IF @ > n THEN @ - n ELSE 0]
<1>3. \/ /\ pump' = SegmentDone(pump, TRUE) /\ shared' = shared /\ heard' = <<>>
      \/ \E n \in 1..some : Takes(n)
  BY Zenon DEF Convert, Silent
<1>4. queued = e - r
  <2>1. e < r + Wrap
    BY <1>2, Sizes
  <2> QED BY <1>2, <2>1, AheadFacts DEF Seen
<1>5. place = Slot(r) /\ Slot(r) \in 0..(Capacity - 1)
  <2>1. Slot(r) = Remainder(r, Capacity) /\ r \in Int
    BY DEF Slot, Remainder
  <2> QED BY <1>2, <2>1, Sizes, SamePlace, CongruentRemainder
<1>6. ASSUME NEW n \in 1..some
      PROVE  n \in Nat \ {0} /\ r + n <= e /\ n <= pump.segment /\ n <= Capacity - Slot(r)
  <2>1. some \in Int /\ some <= e - r /\ some <= pump.segment /\ some <= Capacity - Slot(r)
    <3> HIDE DEF queued, place
    <3> QED BY <1>1, <1>2, <1>4, <1>5, Sizes DEF Least
  <2> HIDE DEF some
  <2> QED BY <1>1, <1>2, <1>5, <2>1, Sizes
<1> HIDE DEF some, queued
<1>7. ASSUME NEW n \in 1..some, Takes(n)
      PROVE  /\ shared' = [shared EXCEPT !.read = Cursor(r + n)]
             /\ heard' = [i \in 1..n |-> ring[Slot(r) + i - 1]]
  <2>1. n \in Int
    BY <1>6
  <2>2. (shared.read + n) % Wrap = Cursor(r + n)
    BY <1>2, <2>1, GoesOn DEF Cursor
  <2>3. shared' = [shared EXCEPT !.read = (shared.read + n) % Wrap]
    BY <1>7
  <2>4. heard' = [i \in 1..n |-> ring[place + i - 1]]
    BY <1>7
  <2> HIDE DEF place, Takes
  <2>5. shared' = [shared EXCEPT !.read = Cursor(r + n)]
    BY <2>2, <2>3, Zenon
  <2>6. heard' = [i \in 1..n |-> ring[Slot(r) + i - 1]]
    BY <1>5, <2>4, Zenon
  <2> QED BY <2>5, <2>6
<1>8. ASSUME NEW n \in 1..some, Takes(n)
      PROVE  pump' = IF n = pump.segment
                       THEN SegmentDone(pump, FALSE)
                       ELSE [pump EXCEPT !.pc = "more", !.segment = @ - n, !.left = @ - n,
                                         !.write = 0, !.fade = IF @ > n THEN @ - n ELSE 0]
  BY <1>8, Zenon
<1> HIDE DEF Takes
<1>9. CASE \E n \in 1..some : Takes(n)
  <2>1. PICK n \in 1..some : Takes(n)
    BY <1>9, Zenon
  <2>2. n \in Nat \ {0} /\ r + n <= e /\ n <= pump.segment /\ n <= Capacity - Slot(r)
    BY <1>6
  <2> QED BY <1>1, <1>2, <1>7, <1>8, <2>1, <2>2, Zenon
<1> QED BY <1>1, <1>2, <1>3, <1>9, Zenon

\* Converting goes no further than the converter has seen, and so past no boundary to come.
LEMMA ConvertStep ==
    ASSUME Types, NEW r \in Nat, NEW w \in Nat, NEW f \in Nat, NEW s \in Nat, NEW g \in Nat,
           NEW t \in Nat, NEW e \in Nat, Sound(r, w, f, s, g, t, e), Convert
    PROVE  \E v \in Nat : Sound(v, w, f, s, g, t, e)'
<1>1. /\ pump \in PumpType /\ shared \in SharedType
      /\ pump.segment \in Int /\ pump.left \in Int /\ pump.fade \in Int
      /\ UNCHANGED <<ring, producer>>
  BY Zenon DEF Types, PumpType, Convert, WriterIdle
<1>2. /\ pump.pc = "convert" /\ Taking /\ r <= e /\ e <= w
  BY ConvertParts
<1>3. /\ shared.read = Cursor(r)
      /\ pump.trimAfterFade => pump.fade = pump.segment /\ pump.left > pump.segment /\ pump.fade > 0
      /\ pump.rate # 0 /\ (Changing => r <= f /\ e <= f) /\ (NewSpurt => r <= s /\ e <= s)
      /\ pump.converting /\ ~pump.changed
  BY <1>2 DEF Sound, Ordered, Fading, RateKnown, BehindFormat, BehindSpurt, Converting, Taking
<1> DEFINE Kept == /\ pump'.applied = pump.applied /\ pump'.seen = pump.seen
                   /\ pump'.rate = pump.rate /\ pump'.trimAfterFade = pump.trimAfterFade
                   /\ pump'.changed = FALSE
                   /\ \/ pump'.pc = "segment" /\ pump'.converting /\ pump'.fade = 0
                      \/ pump'.pc = "underrun" /\ pump'.converting /\ ~pump'.trimAfterFade
                      \/ pump'.pc = "generation" /\ ~pump'.converting /\ ~pump'.trimAfterFade
                      \/ /\ pump'.pc = "more" /\ pump'.converting
                         /\ pump'.trimAfterFade
                              => /\ pump'.fade = pump'.segment /\ pump'.left > pump'.segment
                                 /\ pump'.fade > 0
<1>4. ASSUME NEW short \in BOOLEAN, pump' = SegmentDone(pump, short) PROVE Kept
  <2>1. /\ pump'.applied = pump.applied /\ pump'.seen = pump.seen /\ pump'.rate = pump.rate
        /\ pump'.trimAfterFade = pump.trimAfterFade /\ pump'.fade = 0
        /\ \/ /\ pump'.pc = "segment" /\ pump'.converting = pump.converting
              /\ pump'.changed = pump.changed
           \/ /\ pump.left <= pump.segment
              /\ pump'.pc = "underrun" /\ pump'.converting = pump.converting
              /\ pump'.changed = pump.changed
           \/ /\ pump.left <= pump.segment
              /\ pump'.pc = "generation" /\ pump'.converting = FALSE /\ pump'.changed = FALSE
    BY <1>1, <1>4, SegmentFacts
  <2>2. pump.left <= pump.segment => ~pump.trimAfterFade
    BY <1>1, <1>3
  <2>3. pump.changed = FALSE
    BY <1>1, <1>3 DEF PumpType
  <2> QED BY <1>3, <2>1, <2>2, <2>3
<1>5. ASSUME NEW n \in Nat \ {0}, n <= pump.segment, n # pump.segment,
             pump' = [pump EXCEPT !.pc = "more", !.segment = @ - n, !.left = @ - n,
                                  !.write = 0, !.fade = IF @ > n THEN @ - n ELSE 0]
      PROVE  Kept
  <2> DEFINE segment == pump.segment - n
             left == pump.left - n
             fade == IF pump.fade > n THEN pump.fade - n ELSE 0
  <2>1. pump' = [pump EXCEPT !.pc = "more", !.segment = segment, !.left = left, !.write = 0,
                             !.fade = fade]
    BY <1>5
  <2>2. pump.trimAfterFade => fade = segment /\ left > segment /\ fade > 0
    BY <1>1, <1>3, <1>5
  <2> HIDE DEF segment, left, fade
  <2>3. /\ pump'.applied = pump.applied /\ pump'.seen = pump.seen /\ pump'.rate = pump.rate
        /\ pump'.trimAfterFade = pump.trimAfterFade /\ pump'.changed = pump.changed
        /\ pump'.converting = pump.converting /\ pump'.pc = "more"
        /\ pump'.fade = fade /\ pump'.segment = segment /\ pump'.left = left
    BY <1>1, <2>1, Zenon DEF PumpType
  <2>4. pump.changed = FALSE
    BY <1>1, <1>3 DEF PumpType
  <2> QED BY <1>3, <2>2, <2>3, <2>4
<1>6. Kept /\ \E v \in Nat : r <= v /\ v <= e /\ MovesTo(v)
  <2>1. CASE pump' = SegmentDone(pump, TRUE) /\ shared' = shared
    <3>1. MovesTo(r) /\ r <= r /\ r <= e
      BY <1>1, <1>2, <1>3, <2>1 DEF MovesTo
    <3> HIDE DEF Kept
    <3> QED BY <1>4, <2>1, <3>1
  <2> DEFINE Takes(n) == /\ r + n <= e /\ n <= pump.segment
                         /\ shared' = [shared EXCEPT !.read = Cursor(r + n)]
                         /\ pump' = IF n = pump.segment
                                      THEN SegmentDone(pump, FALSE)
                                      ELSE [pump EXCEPT !.pc = "more", !.segment = @ - n,
                                                        !.left = @ - n, !.write = 0,
                                                        !.fade = IF @ > n THEN @ - n ELSE 0]
  <2>2. CASE \E n \in Nat \ {0} : Takes(n)
    <3>1. PICK n \in Nat \ {0} : Takes(n)
      BY <2>2
    <3>2. PICK v \in Nat : v = r + n
      OBVIOUS
    <3>3. MovesTo(v)
      <4>1. shared' = [shared EXCEPT !.read = Cursor(v)]
        BY <3>1, <3>2
      <4> QED BY <1>1, <4>1, Zenon DEF MovesTo, SharedType
    <3>4. r <= v /\ v <= e
      BY <3>1, <3>2
    <3> HIDE DEF Kept
    <3>5. Kept
      BY <1>4, <1>5, <3>1
    <3> QED BY <3>3, <3>4, <3>5
  <2>3. (pump' = SegmentDone(pump, TRUE) /\ shared' = shared) \/ \E n \in Nat \ {0} : Takes(n)
    BY ConvertParts, Zenon
  <2> QED BY <2>1, <2>2, <2>3
<1>7. PICK v \in Nat : r <= v /\ v <= e /\ MovesTo(v)
  BY <1>6
<1>8. /\ shared'.gen = shared.gen /\ shared'.spurt = shared.spurt /\ shared'.rate = shared.rate
  BY <1>7 DEF MovesTo
<1>9. /\ (Changing' <=> Changing) /\ (NewSpurt' <=> NewSpurt)
      /\ (AtSpurt' <=> AtSpurt) /\ (AtGeneration' <=> AtGeneration) /\ (NewRate' <=> NewRate)
  BY <1>1, <1>6, <1>8 DEF Changing, NewSpurt, AtGeneration, AtSpurt, NewRate
<1>10. /\ pump'.pc \in {"segment", "underrun", "generation", "more"}
       /\ (pump'.pc = "generation" => ~Taking') /\ (pump'.pc = "more" => pump'.converting)
  BY <1>6 DEF Taking
<1>11. Ordered(v, w, f, s, g, t)' /\ Queued(v, w, g, t)'
  <2>1. v <= w
    BY <1>2, <1>7
  <2> QED BY <1>7, <2>1, FlightType, ReaderMoves DEF Sound
<1>12. Generations(v, g, t)'
  <2>1. (pump.seen = shared.spurt => t <= v) /\ (pump.applied = shared.gen => g <= v)
    BY <1>7 DEF Sound, Generations
  <2> QED BY <1>1, <1>6, <1>8, <1>9, <1>10, <2>1 DEF Sound, Generations
<1>13. BehindFormat(v, f)'
  <2>1. Changing => v <= f
    BY <1>3, <1>7
  <2> QED BY <1>9, <1>10, <2>1, Sizes DEF BehindFormat
<1>14. BehindSpurt(v, s)'
  <2>1. NewSpurt => v <= s
    BY <1>3, <1>7
  <2> QED BY <1>9, <1>10, <2>1, Sizes DEF BehindSpurt
<1>15. Converting(v, w, f, s, e)'
  BY <1>10 DEF Converting
<1>16. Fading'
  BY <1>6 DEF Fading
<1>17. RateKnown'
  BY <1>3, <1>6, <1>10 DEF RateKnown
<1>18. Sound(v, w, f, s, g, t, e)'
  BY <1>11, <1>12, <1>13, <1>14, <1>15, <1>16, <1>17 DEF Sound
<1> QED BY <1>18

-----------------------------------------------------------------------------
(* The invariant, and what it says of what is heard *)

\* Nothing is queued at first, and every cursor stands for 0.
LEMMA InitIInv == Init => IInv
<1> SUFFICES ASSUME Init PROVE IInv
  OBVIOUS
<1>1. Types
  <2>1. shared \in SharedType
    BY Values, Sizes DEF Init, SharedType
  <2>2. ring \in [0..(Capacity - 1) -> FrameType]
    BY Values DEF Init, FrameType, NoFrame
  <2>3. producer \in WorkerType
    BY Values DEF Init, WorkerType
  <2>4. pump \in PumpType
    BY Values DEF Init, PumpType
  <2> QED BY <2>1, <2>2, <2>3, <2>4 DEF Init, Types
<1>2. Cursor(0) = 0
  <2>1. Remainder(0, Wrap) = 0
    BY Sizes, Small
  <2> QED BY <2>1 DEF Cursor, Remainder
<1>3. Sound(0, 0, 0, 0, 0, 0, 0)
  <2>1. /\ Flight = 0 /\ ~AtGeneration /\ ~AtSpurt /\ ~NewRate /\ ~Changing /\ ~NewSpurt
        /\ ~Again /\ ~Taking
    BY DEF Init, Flight, AtGeneration, AtSpurt, NewRate, Changing, NewSpurt, Again, Taking
  <2>2. Ordered(0, 0, 0, 0, 0, 0)
    BY <1>2, <2>1, Sizes DEF Init, Ordered
  <2>3. Queued(0, 0, 0, 0)
    BY <2>1 DEF Queued
  <2>4. Generations(0, 0, 0)
    BY DEF Init, Generations
  <2>5. BehindFormat(0, 0) /\ BehindSpurt(0, 0)
    BY <2>1 DEF Init, BehindFormat, BehindSpurt
  <2>6. Converting(0, 0, 0, 0, 0)
    BY <2>1 DEF Init, Converting
  <2>7. Fading /\ RateKnown
    BY <2>1 DEF Init, Fading, RateKnown
  <2> QED BY <2>2, <2>3, <2>4, <2>5, <2>6, <2>7 DEF Sound
<1> QED BY <1>1, <1>3 DEF IInv

\* Every step keeps the invariant.
LEMMA StepIInv == IInv /\ [Next]_vars => IInv'
<1> SUFFICES ASSUME IInv, [Next]_vars PROVE IInv'
  OBVIOUS
<1>1. Types
  BY DEF IInv
<1>2. PICK r, w, f, s, g, t, e \in Nat : Sound(r, w, f, s, g, t, e)
  BY DEF IInv
<1>3. CASE UNCHANGED vars
  <2>1. Types'
    BY <1>1, <1>3 DEF vars, Types
  <2>2. /\ Ordered(r, w, f, s, g, t)' /\ Queued(r, w, g, t)' /\ Generations(r, g, t)'
        /\ BehindFormat(r, f)' /\ BehindSpurt(r, s)' /\ Converting(r, w, f, s, e)'
        /\ Fading' /\ RateKnown'
    BY <1>2, <1>3
    DEF vars, Sound, Ordered, Queued, Generations, BehindFormat, BehindSpurt, Converting, Fading,
        RateKnown, Flight, AtGeneration, AtSpurt, NewRate, Changing, NewSpurt, Again, Taking
  <2>3. Sound(r, w, f, s, g, t, e)'
    BY <2>2 DEF Sound
  <2> QED BY <2>1, <2>3 DEF IInv
<1>4. CASE Render
  <2>1. Types'
    BY <1>1, <1>4, PumpTypes
  <2>2. \E v, d \in Nat : Sound(v, w, f, s, g, t, d)'
    <3>1. CASE LoadGeneration \/ LoadRate \/ LoadTalkspurt \/ Underrun
      <4>1. Sound(r, w, f, s, g, t, e)'
        BY <1>1, <1>2, <3>1, LoadGenerationStep, LoadRateStep, LoadTalkspurtStep, UnderrunStep
      <4> QED BY <4>1
    <3>2. CASE ApplyGeneration \/ ApplyTalkspurt \/ Prepare \/ Convert
      <4>1. \E v \in Nat : Sound(v, w, f, s, g, t, e)'
        BY <1>1, <1>2, <3>2, ApplyGenerationStep, ApplyTalkspurtStep, PrepareStep, ConvertStep
      <4> QED BY <4>1
    <3>3. CASE LoadWrite
      <4>1. \E v \in Nat : Sound(v, w, f, s, g, t, w)'
        BY <1>1, <1>2, <3>3, LoadWriteStep
      <4> QED BY <4>1
    <3> QED BY <1>4, <3>1, <3>2, <3>3 DEF Render
  <2> QED BY <2>1, <2>2 DEF IInv
<1> DEFINE Quiet ==
      \/ \E rate \in limits.rates : SetFormat(rate)
      \/ Close \/ FormatOpen
      \/ \E frames \in PushSizes, target \in TargetMin..limits.most : BeginPush(frames, target)
      \/ Tick
<1>5. CASE Quiet \/ FormatCall \/ PushCall
  <2>1. Types'
    BY <1>1, <1>5, WorkerTypes DEF FormatCall
  <2>2. CASE Quiet
    <3>1. Sound(r, w, f, s, g, t, e)'
      BY <1>1, <1>2, <2>2, QuietSteps
    <3> QED BY <2>1, <3>1 DEF IInv
  <2>3. CASE FormatReset \/ CloseReset
    <3>1. Sound(r, w, w, s, g, t, e)'
      BY <1>1, <1>2, <2>3, ResetSteps
    <3> QED BY <2>1, <3>1 DEF IInv
  <2>4. CASE FormatGeneration \/ CloseGeneration
    <3>1. Sound(r, w, f, s, f, t, e)'
      BY <1>1, <1>2, <2>4, GenerationSteps
    <3> QED BY <2>1, <3>1 DEF IInv
  <2>5. CASE SpurtCursor
    <3>1. Sound(r, w, f, w, g, t, e)'
      BY <1>1, <1>2, <2>5, SpurtCursorStep
    <3> QED BY <2>1, <3>1 DEF IInv
  <2>6. CASE SpurtGeneration
    <3>1. Sound(r, w, f, s, g, s, e)'
      BY <1>1, <1>2, <2>6, SpurtGenerationStep
    <3> QED BY <2>1, <3>1 DEF IInv
  <2>7. CASE PushRead
    <3>1. Sound(r, w, f, s, g, t, e)'
      BY <1>1, <1>2, <2>7, PushReadStep
    <3> QED BY <2>1, <3>1 DEF IInv
  <2>8. CASE Publish
    <3>1. \E v \in Nat : Sound(r, v, f, s, g, t, e)'
      BY <1>1, <1>2, <2>8, PublishStep
    <3> QED BY <2>1, <3>1 DEF IInv
  <2>9. Quiet \/ FormatCall \/ PushCall
        => Quiet \/ FormatReset \/ CloseReset \/ FormatGeneration \/ CloseGeneration
           \/ SpurtCursor \/ SpurtGeneration \/ PushRead \/ Publish
    BY DEF FormatCall, PushCall
  <2> QED BY <1>5, <2>2, <2>3, <2>4, <2>5, <2>6, <2>7, <2>8, <2>9
<1>6. Next => Quiet \/ FormatCall \/ PushCall \/ Render
  BY DEF Next
<1> QED BY <1>3, <1>4, <1>5, <1>6

\* Every frame heard in this step is the one of its place in the queue that begins at r, before e.
HeardBetween(r, e) ==
    \A i \in DOMAIN heard' :
        i \in Nat /\ \E p \in Nat : /\ r <= p /\ p < e /\ p = r + i - 1
                                  /\ heard'[i] = ring[Slot(p)]

\* What is heard was in the ring, between the reader and what the converter had seen.
LEMMA HeardFromRing ==
    ASSUME Types, NEW r \in Nat, NEW w \in Nat, NEW f \in Nat, NEW s \in Nat, NEW g \in Nat,
           NEW t \in Nat, NEW e \in Nat, Sound(r, w, f, s, g, t, e), Convert
    PROVE  HeardBetween(r, e)
<1> SUFFICES ASSUME NEW i \in DOMAIN heard'
             PROVE  i \in Nat /\ \E p \in Nat : /\ r <= p /\ p < e /\ p = r + i - 1
                                              /\ heard'[i] = ring[Slot(p)]
  BY DEF HeardBetween
<1>1. heard' # <<>>
  OBVIOUS
<1>2. PICK n \in Nat \ {0} : /\ r + n <= e /\ n <= Capacity - Slot(r)
                             /\ heard' = [j \in 1..n |-> ring[Slot(r) + j - 1]]
  BY <1>1, ConvertParts, Zenon
<1>3. i \in 1..n /\ heard'[i] = ring[Slot(r) + i - 1]
  BY <1>2
<1>4. PICK k \in Nat : k = i - 1 /\ k < n
  BY <1>3
<1>5. Slot(r) \in Int
  <2>1. Slot(r) = Remainder(r, Capacity) /\ r \in Int
    BY DEF Slot, Remainder
  <2> QED BY <2>1, Sizes, CongruentRemainder
<1>6. Slot(r) + k < Capacity /\ Slot(r) + k = Slot(r) + i - 1
  BY <1>2, <1>3, <1>4, <1>5, Sizes
<1>7. Slot(r + k) = Slot(r) + k
  BY <1>6, NextPlaces
<1>8. r + k \in Nat /\ r <= r + k /\ r + k < e /\ r + k = r + i - 1
  BY <1>2, <1>3, <1>4
<1>9. heard'[i] = ring[Slot(r + k)]
  BY <1>3, <1>6, <1>7
<1> QED BY <1>3, <1>8, <1>9

\* Only converting makes anything heard.
LEMMA OnlyConvert == ASSUME Next PROVE Convert \/ heard' = <<>>
BY DEF Next, SetFormat, Close, BeginPush, FormatCall, FormatReset, FormatGeneration, FormatOpen,
       CloseReset, CloseGeneration, PushCall, SpurtCursor, SpurtGeneration, PushRead, Publish,
       Render, LoadGeneration, LoadRate, ApplyGeneration, LoadTalkspurt, ApplyTalkspurt, Prepare,
       LoadWrite, Underrun, Tick, ReaderIdle, Silent

\* A frame that is heard is of the generation and the talkspurt the converter is set up for, and
\* at its rate unless a format is being changed.
LEMMA HeardStep ==
    ASSUME IInv, Next
    PROVE  /\ HeardIsCurrent'
           /\ \A i \in DOMAIN heard' : heard'[i].at = (shared.read + i - 1) % Wrap
<1>1. CASE heard' = <<>>
  BY <1>1 DEF HeardIsCurrent
<1>2. CASE Convert
  <2>1. Types
    BY DEF IInv
  <2>2. PICK r, w, f, s, g, t, e \in Nat : Sound(r, w, f, s, g, t, e)
    BY DEF IInv
  <2>3. /\ pump.pc = "convert" /\ Taking /\ r <= e /\ e <= w
    BY <1>2, <2>1, <2>2, ConvertParts
  <2>4. /\ pump'.applied = pump.applied /\ pump'.seen = pump.seen /\ pump'.rate = pump.rate
        /\ shared'.gen = shared.gen /\ producer' = producer
    <3>1. pump \in PumpType /\ shared \in SharedType
      BY <2>1 DEF Types
    <3>2. CASE pump' = SegmentDone(pump, TRUE) /\ shared' = shared
      BY <1>2, <3>1, <3>2, SegmentFacts DEF Convert, WriterIdle
    <3> DEFINE Takes(n) == /\ shared' = [shared EXCEPT !.read = Cursor(r + n)]
                           /\ pump' = IF n = pump.segment
                                        THEN SegmentDone(pump, FALSE)
                                        ELSE [pump EXCEPT !.pc = "more", !.segment = @ - n,
                                                          !.left = @ - n, !.write = 0,
                                                          !.fade = IF @ > n THEN @ - n ELSE 0]
    <3>3. CASE \E n \in Nat \ {0} : Takes(n)
      <4>1. PICK n \in Nat \ {0} : Takes(n)
        BY <3>3
      <4>2. shared'.gen = shared.gen
        BY <3>1, <4>1, Zenon DEF SharedType
      <4>3. CASE pump' = SegmentDone(pump, FALSE)
        BY <1>2, <3>1, <4>2, <4>3, SegmentFacts DEF Convert, WriterIdle
      <4> DEFINE segment == pump.segment - n
                 left == pump.left - n
                 fade == IF pump.fade > n THEN pump.fade - n ELSE 0
      <4>4. CASE pump' = [pump EXCEPT !.pc = "more", !.segment = segment, !.left = left,
                                      !.write = 0, !.fade = fade]
        <5> HIDE DEF segment, left, fade
        <5>1. pump'.applied = pump.applied /\ pump'.seen = pump.seen /\ pump'.rate = pump.rate
          BY <3>1, <4>4, Zenon DEF PumpType
        <5> QED BY <1>2, <4>2, <5>1 DEF Convert, WriterIdle
      <4> QED BY <4>1, <4>3, <4>4
    <3>4. (pump' = SegmentDone(pump, TRUE) /\ shared' = shared) \/ \E n \in Nat \ {0} : Takes(n)
      BY <1>2, <2>1, <2>2, ConvertParts, Zenon
    <3> QED BY <3>2, <3>3, <3>4
  <2>5. ASSUME NEW i \in DOMAIN heard'
        PROVE  /\ heard'[i].at = (shared.read + i - 1) % Wrap
               /\ heard'[i].gen = pump.applied /\ heard'[i].spurt = pump.seen
               /\ shared.gen = pump.applied /\ ~NewRate => heard'[i].rate = pump.rate
    <3>1. i \in Nat /\ \E p \in Nat : /\ r <= p /\ p < e /\ p = r + i - 1
                                      /\ heard'[i] = ring[Slot(p)]
      <4>1. HeardBetween(r, e)
        BY <1>2, <2>1, <2>2, HeardFromRing
      <4> QED BY <4>1 DEF HeardBetween
    <3>2. PICK p \in Nat : r <= p /\ p < e /\ p = r + i - 1 /\ heard'[i] = ring[Slot(p)]
      BY <3>1
    <3>3. p < w + Flight
      BY <2>1, <2>3, <3>2, FlightType
    <3>4. ring[Slot(p)].at = Cursor(p)
      BY <2>2, <3>2, <3>3 DEF Sound, Queued
    <3>5. Cursor(p) = (shared.read + i - 1) % Wrap
      <4>1. PICK k \in Int : k = i - 1
        BY <3>1
      <4>2. shared.read = Cursor(r) /\ Cursor(r) \in Int
        BY <2>2, CursorCongruent DEF Sound, Ordered
      <4>3. (Cursor(r) + k) % Wrap = (r + k) % Wrap
        BY GoesOn
      <4>4. r + k = p /\ shared.read + i - 1 = Cursor(r) + k
        BY <3>1, <3>2, <4>1, <4>2
      <4> QED BY <4>3, <4>4 DEF Cursor
    <3>6. ring[Slot(p)].gen = pump.applied /\ ring[Slot(p)].spurt = pump.seen
      BY <2>2, <2>3, <3>2 DEF Sound, Converting
    <3>7. shared.gen = pump.applied /\ ~NewRate => ring[Slot(p)].rate = pump.rate
      <4>1. shared.gen = pump.applied => p >= g
        BY <2>2, <3>2 DEF Sound, Generations
      <4>2. shared.gen = pump.applied /\ ~NewRate => pump.rate = shared.rate
        BY <2>2 DEF Sound, Generations
      <4> QED BY <2>2, <3>2, <3>3, <4>1, <4>2 DEF Sound, Queued
    <3> QED BY <3>2, <3>4, <3>5, <3>6, <3>7
  <2>6. HeardIsCurrent'
    BY <2>4, <2>5 DEF HeardIsCurrent, NewRate
  <2> QED BY <2>5, <2>6
<1> QED BY <1>1, <1>2, OnlyConvert

\* The positions exist in every state the ring and its two sides can reach, for any capacity, wrap,
\* packets, rates and targets.
THEOREM Invariance == Spec => []IInv
<1>1. IInv /\ [Next]_vars => IInv'
  BY StepIInv
<1> QED BY <1>1, InitIInv, PTL DEF Spec

\* The cursors, frames and places are of the types the code gives them.
THEOREM TypeCorrect == Spec => []Types
<1>1. IInv => Types
  BY DEF IInv
<1> QED BY <1>1, Invariance, PTL

\* No frame queued before a change of format or a long gap is played after the converter has been
\* set up for what follows, and each is converted at the rate it was pushed with unless a format is
\* being changed.
THEOREM HeardCurrent == Spec => []HeardIsCurrent
<1>1. Init => HeardIsCurrent
  BY DEF Init, HeardIsCurrent
<1>2. IInv /\ HeardIsCurrent /\ [Next]_vars => HeardIsCurrent'
  <2>1. IInv /\ Next => HeardIsCurrent'
    BY HeardStep
  <2>2. HeardIsCurrent /\ UNCHANGED vars => HeardIsCurrent'
    BY DEF HeardIsCurrent, vars
  <2> QED BY <2>1, <2>2
<1> QED BY <1>1, <1>2, Invariance, PTL DEF Spec

\* Whatever the pump takes is what the worker pushed there: nothing in the queue is written over,
\* and nothing that is not published is taken, across trims, drops, overflows and the wrap.
THEOREM HeardPushed == Spec => HeardAsPushed
<1>1. IInv /\ [Next]_vars
        => [\A i \in DOMAIN heard' : heard'[i].at = (shared.read + i - 1) % Wrap]_vars
  BY HeardStep
<1> QED BY <1>1, Invariance, PTL DEF Spec, HeardAsPushed

=============================================================================
