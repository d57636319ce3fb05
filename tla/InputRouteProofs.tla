--------------------------- MODULE InputRouteProofs ---------------------------
(***************************************************************************)
(* Theorems about InputRoute, for any set of slots, any capacity of the    *)
(* queue and any scenario: what a server holds down is tracked, the grab   *)
(* is held for the stream only, events are routed in the order of their    *)
(* times, and the panel waits for no button that nobody holds.             *)
(***************************************************************************)
EXTENDS InputRoute, SequenceTheorems, FiniteSetTheorems, WellFoundedInduction, TLAPS

-----------------------------------------------------------------------------
(* Sequences of SDL events.                                                *)

\* What SDL queues: a button has the code of a button, a colour key that of a slot.
Signal == {e \in SdlEvent : /\ e.kind = "button" => e.code \in Buttons
                            /\ e.kind = "colour" => e.code \in Slots}

\* An event that says whether b is down: a loss of focus says that no button is.
Mentions(e, b) == e.kind = "lost" \/ (e.kind = "button" /\ e.code = b)
Presses(e, b)  == e.kind = "button" /\ e.down /\ e.code = b

LossIn(s)    == \E i \in DOMAIN s : s[i].kind = "lost"
Silent(s, b) == \A i \in DOMAIN s : ~Mentions(s[i], b)

\* The last word about b is that it is down.
LeavesDown(s, b) ==
    \E i \in DOMAIN s : Presses(s[i], b) /\ \A j \in DOMAIN s : Mentions(s[j], b) => j <= i

\* Every notice that the focus is back has a later loss behind it.
LostAgain(s) ==
    \A i \in DOMAIN s : s[i].kind \in {"gained", "back"}
        => \E j \in DOMAIN s : i < j /\ s[j].kind = "lost"

\* r is s without its i-th event.
Without(s, i, r) ==
    /\ r \in Seq(Signal) /\ Len(r) + 1 = Len(s)
    /\ \A k \in 1..Len(r) : r[k] = IF k < i THEN s[k] ELSE s[k + 1]

LEMMA TailIsWithout ==
    ASSUME NEW s \in Seq(Signal), s # <<>>
    PROVE  Without(s, 1, Tail(s)) /\ 1 \in DOMAIN s /\ Head(s) = s[1] /\ Head(s) \in Signal
<1>1. /\ Tail(s) \in Seq(Signal) /\ Len(Tail(s)) = Len(s) - 1 /\ Len(s) \in Nat
      /\ \A k \in 1..Len(Tail(s)) : Tail(s)[k] = s[k + 1]
      /\ Head(s) \in Signal
  BY HeadTailProperties, LenProperties
<1>2. \A k \in 1..Len(Tail(s)) : ~(k < 1)
  OBVIOUS
<1>3. Len(Tail(s)) + 1 = Len(s) /\ Len(s) >= 1
  BY <1>1
<1> QED
  BY <1>1, <1>2, <1>3 DEF Without

LEMMA RemoveAtIsWithout ==
    ASSUME NEW s \in Seq(Signal), NEW i \in DOMAIN s
    PROVE  Without(s, i, RemoveAt(s, i))
<1>1. Len(s) \in Nat /\ DOMAIN s = 1..Len(s) /\ \A k \in 1..Len(s) : s[k] \in Signal
  BY LenProperties
<1> DEFINE a == SubSeq(s, 1, i - 1)
           b == SubSeq(s, i + 1, Len(s))
<1>2. i \in Int /\ 1 <= i /\ i <= Len(s)
  BY <1>1
<1>3. /\ a \in Seq(Signal) /\ Len(a) = i - 1
      /\ \A k \in 1..(i - 1) : a[k] = s[k]
  <2>1. \A k \in 1..(i - 1) : s[k] \in Signal
    BY <1>1, <1>2
  <2>2. /\ a \in Seq(Signal) /\ Len(a) = IF 1 <= i - 1 THEN (i - 1) - 1 + 1 ELSE 0
        /\ \A k \in 1..((i - 1) - 1 + 1) : a[k] = s[1 + k - 1]
    BY <1>2, <2>1, SubSeqProperties
  <2> QED
    BY <1>2, <2>2
<1>4. /\ b \in Seq(Signal) /\ Len(b) = Len(s) - i
      /\ \A k \in 1..(Len(s) - i) : b[k] = s[i + k]
  <2>1. \A k \in (i + 1)..Len(s) : s[k] \in Signal
    BY <1>1, <1>2
  <2>2. /\ b \in Seq(Signal) /\ Len(b) = IF i + 1 <= Len(s) THEN Len(s) - (i + 1) + 1 ELSE 0
        /\ \A k \in 1..(Len(s) - (i + 1) + 1) : b[k] = s[(i + 1) + k - 1]
    BY <1>1, <1>2, <2>1, SubSeqProperties
  <2> HIDE DEF b
  <2>3. Len(s) - (i + 1) + 1 = Len(s) - i /\ (i + 1 <= Len(s) <=> i < Len(s))
    BY <1>1, <1>2
  <2>4. Len(b) = Len(s) - i
    BY <1>1, <1>2, <2>2, <2>3
  <2>5. ASSUME NEW k \in 1..(Len(s) - i) PROVE b[k] = s[i + k]
    <3>1. b[k] = s[(i + 1) + k - 1]
      BY <2>2, <2>3
    <3>2. (i + 1) + k - 1 = i + k
      BY <1>1, <1>2
    <3> QED
      BY <3>1, <3>2
  <2> QED
    BY <2>2, <2>4, <2>5
<1> HIDE DEF a, b
<1>5. /\ a \o b \in Seq(Signal) /\ Len(a \o b) = Len(a) + Len(b)
      /\ \A k \in 1..(Len(a) + Len(b)) : (a \o b)[k] = IF k <= Len(a) THEN a[k] ELSE b[k - Len(a)]
  BY <1>3, <1>4, ConcatProperties
<1> DEFINE r == a \o b
<1>6. Len(r) + 1 = Len(s) /\ Len(r) = Len(s) - 1
  <2>1. Len(r) = Len(a) + Len(b)
    BY <1>5
  <2>2. Len(a) = i - 1 /\ Len(b) = Len(s) - i /\ Len(s) \in Nat
    BY <1>1, <1>3, <1>4
  <2>3. Len(r) = (i - 1) + (Len(s) - i)
    BY <2>1, <2>2, Zenon
  <2>4. (i - 1) + (Len(s) - i) = Len(s) - 1 /\ (Len(s) - 1) + 1 = Len(s)
    BY <1>2, <2>2
  <2> HIDE DEF r
  <2> QED
    BY <2>3, <2>4, Zenon
<1>7. ASSUME NEW k \in 1..Len(r) PROVE r[k] = IF k < i THEN s[k] ELSE s[k + 1]
  <2>1. r[k] = IF k <= i - 1 THEN a[k] ELSE b[k - (i - 1)]
    BY <1>3, <1>4, <1>5
  <2>2. CASE k < i
    BY <1>2, <1>3, <2>1, <2>2
  <2>3. CASE ~(k < i)
    <3>1. k - (i - 1) \in 1..(Len(s) - i) /\ i + (k - (i - 1)) = k + 1 /\ ~(k <= i - 1)
      BY <1>1, <1>2, <1>6, <2>3
    <3> QED
      BY <1>4, <2>1, <2>3, <3>1
  <2> QED
    BY <2>2, <2>3
<1>8. RemoveAt(s, i) = r
  BY DEF RemoveAt, a, b
<1> QED
  BY <1>5, <1>6, <1>7, <1>8 DEF Without

\* What is left of the news when one event is taken out.
LEMMA NewsWithout ==
    ASSUME NEW s \in Seq(Signal), NEW i \in DOMAIN s, NEW r, Without(s, i, r)
    PROVE  /\ LossIn(r) => LossIn(s)
           /\ LossIn(s) => s[i].kind = "lost" \/ LossIn(r)
           /\ LostAgain(s) /\ (\/ s[i].kind # "lost"
                               \/ \A k \in DOMAIN s : k < i => s[k].kind \notin {"gained", "back"})
                  => LostAgain(r)
           /\ LostAgain(s) /\ s[i].kind \in {"gained", "back"} => LossIn(r)
<1>1. /\ DOMAIN s = 1..Len(s) /\ DOMAIN r = 1..Len(r) /\ Len(s) \in Nat /\ Len(r) \in Nat
      /\ Len(s) = Len(r) + 1 /\ i \in 1..Len(s)
      /\ \A k \in 1..Len(r) : r[k] = IF k < i THEN s[k] ELSE s[k + 1]
  BY LenProperties DEF Without
<1> DEFINE At(k) == IF k < i THEN k ELSE k + 1
           From(k) == IF k < i THEN k ELSE k - 1
<1>2. \A k \in DOMAIN r : At(k) \in DOMAIN s /\ r[k] = s[At(k)] /\ At(k) # i
  BY <1>1
<1>3. \A k \in DOMAIN s : k # i => From(k) \in DOMAIN r /\ r[From(k)] = s[k]
  <2> SUFFICES ASSUME NEW k \in 1..Len(s), k # i
               PROVE  From(k) \in 1..Len(r) /\ r[From(k)] = s[k]
    BY <1>1
  <2>1. CASE k < i
    BY <1>1, <2>1
  <2>2. CASE k > i
    <3>1. k - 1 \in 1..Len(r) /\ ~(k - 1 < i) /\ (k - 1) + 1 = k
      BY <1>1, <2>2
    <3> QED
      BY <1>1, <2>2, <3>1
  <2> QED
    BY <1>1, <2>1, <2>2
<1>4. \A k, m \in DOMAIN s : k # i /\ m # i /\ k < m => From(k) < From(m)
  BY <1>1
<1>5. \A k, m \in DOMAIN r : At(k) < At(m) => k < m
  BY <1>1
<1> HIDE DEF At, From
<1>6. LossIn(r) => LossIn(s)
  BY <1>2 DEF LossIn
<1>7. LossIn(s) => s[i].kind = "lost" \/ LossIn(r)
  BY <1>3 DEF LossIn
<1>8. ASSUME LostAgain(s), \/ s[i].kind # "lost"
                           \/ \A k \in DOMAIN s : k < i => s[k].kind \notin {"gained", "back"}
      PROVE  LostAgain(r)
  <2> SUFFICES ASSUME NEW k \in DOMAIN r, r[k].kind \in {"gained", "back"}
               PROVE  \E m \in DOMAIN r : k < m /\ r[m].kind = "lost"
    BY DEF LostAgain
  <2>1. At(k) \in DOMAIN s /\ s[At(k)].kind \in {"gained", "back"} /\ At(k) # i
    BY <1>2
  <2>2. PICK j \in DOMAIN s : At(k) < j /\ s[j].kind = "lost"
    BY <1>8, <2>1 DEF LostAgain
  <2>3. j # i
    <3>1. CASE s[i].kind # "lost"
      BY <2>2, <3>1
    <3>2. CASE \A q \in DOMAIN s : q < i => s[q].kind \notin {"gained", "back"}
      BY <2>1, <2>2, <3>2
    <3> QED
      BY <1>8, <3>1, <3>2
  <2>4. From(j) \in DOMAIN r /\ r[From(j)].kind = "lost"
    BY <1>3, <2>2, <2>3
  <2>5. k < From(j)
    BY <1>1, <2>1, <2>2, <2>3 DEF At, From
  <2> QED
    BY <2>4, <2>5
<1>9. ASSUME LostAgain(s), s[i].kind \in {"gained", "back"} PROVE LossIn(r)
  <2>1. PICK j \in DOMAIN s : i < j /\ s[j].kind = "lost"
    BY <1>9 DEF LostAgain
  <2>2. j # i
    BY <1>1, <2>1
  <2> QED
    BY <1>3, <2>1, <2>2 DEF LossIn
<1> QED
  BY <1>6, <1>7, <1>8, <1>9

\* What is left of a button.
LEMMA ButtonWithout ==
    ASSUME NEW s \in Seq(Signal), NEW i \in DOMAIN s, NEW r, Without(s, i, r), NEW b
    PROVE  /\ Silent(r, b) /\ ~Mentions(s[i], b) => Silent(s, b)
           /\ Silent(r, b) /\ Presses(s[i], b) => LeavesDown(s, b)
           /\ LeavesDown(r, b) /\ ~Mentions(s[i], b) => LeavesDown(s, b)
           /\ LeavesDown(r, b) /\ i = 1 => LeavesDown(s, b)
           /\ LeavesDown(r, b) => \/ LeavesDown(s, b)
                                  \/ \E k \in DOMAIN s : k < i /\ Presses(s[k], b)
<1>1. /\ DOMAIN s = 1..Len(s) /\ DOMAIN r = 1..Len(r) /\ Len(s) \in Nat /\ Len(r) \in Nat
      /\ Len(s) = Len(r) + 1 /\ i \in 1..Len(s)
      /\ \A k \in 1..Len(r) : r[k] = IF k < i THEN s[k] ELSE s[k + 1]
  BY LenProperties DEF Without
<1> DEFINE At(k) == IF k < i THEN k ELSE k + 1
           From(k) == IF k < i THEN k ELSE k - 1
<1>2. \A k \in DOMAIN r : At(k) \in DOMAIN s /\ r[k] = s[At(k)] /\ At(k) # i
  BY <1>1
<1>3. \A k \in DOMAIN s : k # i => From(k) \in DOMAIN r /\ r[From(k)] = s[k]
  <2> SUFFICES ASSUME NEW k \in 1..Len(s), k # i
               PROVE  From(k) \in 1..Len(r) /\ r[From(k)] = s[k]
    BY <1>1
  <2>1. CASE k < i
    BY <1>1, <2>1
  <2>2. CASE k > i
    <3>1. k - 1 \in 1..Len(r) /\ ~(k - 1 < i) /\ (k - 1) + 1 = k
      BY <1>1, <2>2
    <3> QED
      BY <1>1, <2>2, <3>1
  <2> QED
    BY <1>1, <2>1, <2>2
<1>4. \A k \in DOMAIN r, m \in DOMAIN s : m # i /\ From(m) <= k => m <= At(k)
  BY <1>1
<1>5. \A k \in DOMAIN r : At(k) < i \/ i < At(k)
  BY <1>1
<1> HIDE DEF At, From
<1>6. Silent(r, b) => \A k \in DOMAIN s : k # i => ~Mentions(s[k], b)
  BY <1>3 DEF Silent
<1>7. Silent(r, b) /\ ~Mentions(s[i], b) => Silent(s, b)
  BY <1>6 DEF Silent
<1>8. ASSUME Silent(r, b), Presses(s[i], b) PROVE LeavesDown(s, b)
  <2>1. \A j \in DOMAIN s : Mentions(s[j], b) => j <= i
    <3>1. i <= i
      BY <1>1
    <3> QED
      BY <1>6, <1>8, <3>1
  <2> QED
    BY <1>8, <2>1 DEF LeavesDown
<1>9. ASSUME LeavesDown(r, b)
      PROVE  \E k \in DOMAIN r : /\ Presses(s[At(k)], b) /\ At(k) \in DOMAIN s
                                 /\ \A j \in DOMAIN s : j # i /\ Mentions(s[j], b) => j <= At(k)
  <2>1. PICK k \in DOMAIN r : /\ Presses(r[k], b)
                              /\ \A j \in DOMAIN r : Mentions(r[j], b) => j <= k
    BY <1>9 DEF LeavesDown
  <2>2. ASSUME NEW j \in DOMAIN s, j # i, Mentions(s[j], b) PROVE j <= At(k)
    <3>1. From(j) \in DOMAIN r /\ Mentions(r[From(j)], b)
      BY <1>3, <2>2
    <3>2. From(j) <= k
      BY <2>1, <3>1
    <3> QED
      BY <1>4, <2>2, <3>2
  <2> QED
    BY <1>2, <2>1, <2>2
<1>10. LeavesDown(r, b) /\ ~Mentions(s[i], b) => LeavesDown(s, b)
  BY <1>9 DEF LeavesDown
<1>11. ASSUME LeavesDown(r, b)
       PROVE  LeavesDown(s, b) \/ \E k \in DOMAIN s : k < i /\ Presses(s[k], b)
  <2>1. PICK k \in DOMAIN r : /\ Presses(s[At(k)], b) /\ At(k) \in DOMAIN s
                              /\ \A j \in DOMAIN s : j # i /\ Mentions(s[j], b) => j <= At(k)
    BY <1>9, <1>11
  <2>2. CASE At(k) < i
    BY <2>1, <2>2
  <2>3. CASE i < At(k)
    <3>1. \A j \in DOMAIN s : Mentions(s[j], b) => j <= At(k)
      <4>1. i <= At(k)
        BY <1>1, <2>1, <2>3
      <4> QED
        BY <2>1, <4>1
    <3> QED
      BY <2>1, <3>1 DEF LeavesDown
  <2> QED
    BY <1>5, <2>2, <2>3
<1>12. i = 1 => ~ \E k \in DOMAIN s : k < i
  BY <1>1
<1> QED
  BY <1>7, <1>8, <1>10, <1>11, <1>12

\* One event more at the end.
LEMMA NewsAppended ==
    ASSUME NEW s \in Seq(Signal), NEW e \in Signal
    PROVE  /\ Append(s, e) \in Seq(Signal)
           /\ LossIn(Append(s, e)) <=> LossIn(s) \/ e.kind = "lost"
           /\ e.kind = "lost" => LostAgain(Append(s, e))
           /\ e.kind \notin {"gained", "back"} /\ LostAgain(s) => LostAgain(Append(s, e))
           /\ \A b : /\ Silent(Append(s, e), b) => Silent(s, b) /\ ~Mentions(e, b)
                     /\ LeavesDown(Append(s, e), b)
                            => Presses(e, b) \/ (~Mentions(e, b) /\ LeavesDown(s, b))
<1> DEFINE r == Append(s, e)
           n == Len(s)
<1>1. /\ r \in Seq(Signal) /\ DOMAIN r = 1..(n + 1) /\ DOMAIN s = 1..n /\ n \in Nat
      /\ r[n + 1] = e /\ \A k \in 1..n : r[k] = s[k]
  BY AppendProperties, LenProperties
<1> HIDE DEF r, n
<1>2. /\ \A k \in DOMAIN r : k = n + 1 \/ k \in DOMAIN s
      /\ \A k \in DOMAIN s : k \in DOMAIN r /\ r[k] = s[k] /\ k < n + 1
      /\ n + 1 \in DOMAIN r
  BY <1>1
<1>3. LossIn(r) <=> LossIn(s) \/ e.kind = "lost"
  BY <1>1, <1>2 DEF LossIn
<1>4. ASSUME e.kind = "lost" PROVE LostAgain(r)
  BY <1>1, <1>2, <1>4 DEF LostAgain
<1>5. ASSUME e.kind \notin {"gained", "back"}, LostAgain(s) PROVE LostAgain(r)
  BY <1>1, <1>2, <1>5 DEF LostAgain
<1>6. ASSUME NEW b
      PROVE  /\ Silent(r, b) => Silent(s, b) /\ ~Mentions(e, b)
             /\ LeavesDown(r, b) => Presses(e, b) \/ (~Mentions(e, b) /\ LeavesDown(s, b))
  <2>1. Silent(r, b) => Silent(s, b) /\ ~Mentions(e, b)
    BY <1>1, <1>2 DEF Silent
  <2>2. ASSUME LeavesDown(r, b), ~Presses(e, b) PROVE ~Mentions(e, b) /\ LeavesDown(s, b)
    <3>1. PICK k \in DOMAIN r : /\ Presses(r[k], b)
                                /\ \A j \in DOMAIN r : Mentions(r[j], b) => j <= k
      BY <2>2 DEF LeavesDown
    <3>2. k \in DOMAIN s
      BY <1>1, <1>2, <2>2, <3>1
    <3>3. ~Mentions(e, b)
      <4>1. ~(n + 1 <= k)
        BY <1>1, <3>2
      <4> QED
        BY <1>1, <1>2, <3>1, <4>1
    <3>4. \A j \in DOMAIN s : Mentions(s[j], b) => j <= k
      BY <1>2, <3>1
    <3> QED
      BY <1>2, <3>1, <3>2, <3>3, <3>4 DEF LeavesDown
  <2> QED
    BY <2>1, <2>2
<1> QED
  BY <1>1, <1>3, <1>4, <1>5, <1>6 DEF r

\* The releases the compositor makes of what a device that went held down.
LEMMA ReleasesAdded ==
    ASSUME NEW s \in Seq(Signal), NEW u \in Seq(Signal),
           \A i \in DOMAIN u : u[i].kind = "button" /\ ~u[i].down
    PROVE  /\ s \o u \in Seq(Signal)
           /\ LossIn(s \o u) <=> LossIn(s)
           /\ \A b : /\ Silent(s \o u, b) => Silent(s, b) /\ \A i \in DOMAIN u : u[i].code # b
                     /\ LeavesDown(s \o u, b)
                            => LeavesDown(s, b) /\ \A i \in DOMAIN u : u[i].code # b
<1> DEFINE r == s \o u
           m == Len(s)
           n == Len(u)
<1>1. /\ r \in Seq(Signal) /\ m \in Nat /\ n \in Nat /\ DOMAIN s = 1..m /\ DOMAIN u = 1..n
      /\ DOMAIN r = 1..(m + n)
      /\ \A k \in 1..(m + n) : r[k] = IF k <= m THEN s[k] ELSE u[k - m]
  BY ConcatProperties, LenProperties
<1> HIDE DEF r, m, n
<1>2. \A k \in DOMAIN s : k \in DOMAIN r /\ r[k] = s[k] /\ k <= m
  BY <1>1
<1>3. \A k \in DOMAIN u : m + k \in DOMAIN r /\ r[m + k] = u[k] /\ m < m + k
  <2> SUFFICES ASSUME NEW k \in 1..n
               PROVE  m + k \in 1..(m + n) /\ r[m + k] = u[k] /\ m < m + k
    BY <1>1
  <2>1. m + k \in 1..(m + n) /\ ~(m + k <= m) /\ (m + k) - m = k
    BY <1>1
  <2>2. r[m + k] = u[(m + k) - m]
    BY <1>1, <2>1
  <2> QED
    BY <1>1, <2>1, <2>2
<1>4. \A k \in DOMAIN r : k \in DOMAIN s \/ (k - m \in DOMAIN u /\ r[k] = u[k - m])
  BY <1>1
<1>5. LossIn(r) <=> LossIn(s)
  <2>1. LossIn(s) => LossIn(r)
    BY <1>2 DEF LossIn
  <2>2. LossIn(r) => LossIn(s)
    BY <1>2, <1>4 DEF LossIn
  <2> QED
    BY <2>1, <2>2
<1>6. ASSUME NEW b
      PROVE  /\ Silent(r, b) => Silent(s, b) /\ \A i \in DOMAIN u : u[i].code # b
             /\ LeavesDown(r, b) => LeavesDown(s, b) /\ \A i \in DOMAIN u : u[i].code # b
  <2>1. Silent(r, b) => Silent(s, b) /\ \A i \in DOMAIN u : u[i].code # b
    BY <1>2, <1>3 DEF Silent, Mentions
  <2>2. ASSUME LeavesDown(r, b) PROVE LeavesDown(s, b) /\ \A i \in DOMAIN u : u[i].code # b
    <3>1. PICK k \in DOMAIN r : /\ Presses(r[k], b)
                                /\ \A j \in DOMAIN r : Mentions(r[j], b) => j <= k
      BY <2>2 DEF LeavesDown
    <3>2. k \in DOMAIN s
      BY <1>4, <3>1 DEF Presses
    <3>3. \A i \in DOMAIN u : u[i].code # b
      <4> SUFFICES ASSUME NEW i \in DOMAIN u, u[i].code = b PROVE FALSE
        OBVIOUS
      <4>1. m + i <= k
        BY <1>3, <3>1 DEF Mentions
      <4>2. k <= m /\ m < m + i /\ i \in Nat /\ k \in Nat
        BY <1>1, <1>2, <1>3, <3>2
      <4> QED
        BY <1>1, <4>1, <4>2
    <3>4. Presses(s[k], b) /\ \A j \in DOMAIN s : Mentions(s[j], b) => j <= k
      BY <1>2, <3>1, <3>2
    <3> QED
      BY <3>2, <3>3, <3>4 DEF LeavesDown
  <2> QED
    BY <2>1, <2>2
<1> QED
  BY <1>1, <1>5, <1>6 DEF r

\* SetToSeq lists a set of buttons, every one of them.
LEMMA ButtonsListed ==
    ASSUME NEW S \in SUBSET Buttons
    PROVE  /\ SetToSeq(S) \in Seq(S)
           /\ \A b \in S : \E i \in DOMAIN SetToSeq(S) : SetToSeq(S)[i] = b
<1>1. IsFiniteSet(S)
  <2>1. IsFiniteSet(({} \cup {"left"} \cup {"extra"}) \cup {"side"})
    <3>1. IsFiniteSet({} \cup {"left"})
      BY FS_EmptySet, FS_AddElement
    <3>2. IsFiniteSet(({} \cup {"left"}) \cup {"extra"})
      BY <3>1, FS_AddElement
    <3> QED
      BY <3>2, FS_AddElement
  <2>2. ({} \cup {"left"} \cup {"extra"}) \cup {"side"} = Buttons
    BY DEF Buttons
  <2> QED
    BY <2>1, <2>2, FS_Subset
<1> DEFINE n == Cardinality(S)
           f == SetToSeq(S)
<1>2. n \in Nat /\ ExistsBijection(1..n, S)
  BY <1>1, FS_CardinalityType
<1>3. f \in [1..n -> S] /\ IsInjective(f)
  <2>1. \E g \in [1..n -> S] : IsInjective(g)
    BY <1>2 DEF ExistsBijection, Bijection, Injection
  <2> QED
    BY <2>1 DEF SetToSeq
<1> HIDE DEF f
<1>4. f \in Injection(1..n, S)
  BY <1>3 DEF Injection
<1>5. Cardinality(1..n) = n
  <2>1. Cardinality(1..n) = IF 1 > n THEN 0 ELSE n - 1 + 1
    BY <1>2, FS_Interval
  <2> HIDE DEF n
  <2> QED
    BY <1>2, <2>1
<1>6. f \in Surjection(1..n, S)
  BY <1>1, <1>4, <1>5, FS_Injection
<1> HIDE DEF n
<1>7. f \in Seq(S) /\ DOMAIN f = 1..n
  BY <1>2, <1>3
<1> QED
  BY <1>6, <1>7 DEF Surjection, f

-----------------------------------------------------------------------------
(* The queue.                                                              *)

Sorted(s)       == \A i, j \in DOMAIN s : i < j => s[i].time <= s[j].time
NotBefore(s, t) == \A i \in DOMAIN s : t <= s[i].time
NotAfter(s, t)  == \A i \in DOMAIN s : s[i].time <= t

\* Every element of r is one of s.
Among(r, s) == \A i \in DOMAIN r : \E j \in DOMAIN s : r[i] = s[j]

LEMMA LeastNumber ==
    ASSUME NEW S \in SUBSET Nat, S # {}
    PROVE  \E n \in S : \A m \in S : n <= m
<1> DEFINE R == OpToRel(<, Nat)
<1>1. \A x, y \in Nat : x < y => <<x, y>> \in R
  BY DEF OpToRel
<1>2. IsWellFoundedOn(R, Nat)
  BY NatLessThanWellFounded
<1> HIDE DEF R
<1>3. PICK x \in S : \A y \in S : ~ (<<y, x>> \in R)
  BY <1>2, WFMin
<1>4. ASSUME NEW y \in S PROVE x <= y
  <2>1. x \in Nat /\ y \in Nat
    OBVIOUS
  <2>2. ~(y < x)
    BY <1>1, <1>3, <2>1, Zenon
  <2> QED
    BY <2>1, <2>2
<1> QED
  BY <1>4

\* The place an event is inserted at.
LEMMA PlaceByTime ==
    ASSUME NEW S, \A x \in S : x.time \in Nat, NEW s \in Seq(S), NEW e \in S
    PROVE  /\ LastNotNewer(s, e) \in 0..Len(s)
           /\ LastNotNewer(s, e) = 0 \/ s[LastNotNewer(s, e)].time <= e.time
           /\ \A i \in (LastNotNewer(s, e) + 1)..Len(s) : s[i].time > e.time
<1>1. Len(s) \in Nat /\ \A i \in 1..Len(s) : s[i].time \in Nat
  BY LenProperties
<1>2. e.time \in Nat
  OBVIOUS
<1> DEFINE Newer(n) == \A i \in (n + 1)..Len(s) : s[i].time > e.time
           T == {n \in 0..Len(s) : Newer(n)}
<1>3. T \in SUBSET Nat /\ Len(s) \in T
  BY <1>1
<1>4. PICK n \in T : \A m \in T : n <= m
  BY <1>3, LeastNumber
<1>5. n \in 0..Len(s) /\ Newer(n)
  OBVIOUS
<1>6. n = 0 \/ s[n].time <= e.time
  <2> SUFFICES ASSUME n # 0, s[n].time > e.time PROVE FALSE
    BY <1>1, <1>2, <1>5
  <2>1. n - 1 \in 0..Len(s) /\ ~(n <= n - 1) /\ (n - 1) + 1 = n
    BY <1>1, <1>5
  <2>2. \A i \in n..Len(s) : i = n \/ i \in (n + 1)..Len(s)
    BY <1>1, <1>5
  <2>3. Newer(n - 1)
    BY <1>5, <2>1, <2>2
  <2> HIDE DEF Newer
  <2>4. n - 1 \in T
    BY <2>1, <2>3
  <2> QED
    BY <1>4, <2>1, <2>4
<1>7. \E k \in 0..Len(s) : /\ k = 0 \/ s[k].time <= e.time
                           /\ \A i \in (k + 1)..Len(s) : s[i].time > e.time
  BY <1>5, <1>6
<1> QED
  BY <1>7 DEF LastNotNewer

\* Insertion keeps the order of the times.
LEMMA InsertedInOrder ==
    ASSUME NEW S, \A x \in S : x.time \in Nat, NEW s \in Seq(S), NEW e \in S
    PROVE  /\ Inserted(s, e) \in Seq(S)
           /\ \A k \in DOMAIN Inserted(s, e) :
                  Inserted(s, e)[k] = e \/ \E j \in DOMAIN s : Inserted(s, e)[k] = s[j]
           /\ Sorted(s) => Sorted(Inserted(s, e))
<1> DEFINE n == LastNotNewer(s, e)
           m == Len(s)
           a == SubSeq(s, 1, n)
           b == SubSeq(s, n + 1, m)
<1>1. /\ n \in 0..m /\ m \in Nat /\ DOMAIN s = 1..m /\ e.time \in Nat
      /\ n = 0 \/ s[n].time <= e.time
      /\ \A i \in (n + 1)..m : s[i].time > e.time
      /\ \A i \in 1..m : s[i] \in S /\ s[i].time \in Nat
  BY PlaceByTime, LenProperties
<1> HIDE DEF n, m
<1>2. /\ a \in Seq(S) /\ Len(a) = n
      /\ \A k \in 1..n : a[k] = s[k]
  <2>1. \A k \in 1..n : s[k] \in S
    BY <1>1
  <2>2. /\ a \in Seq(S) /\ Len(a) = IF 1 <= n THEN n - 1 + 1 ELSE 0
        /\ \A k \in 1..(n - 1 + 1) : a[k] = s[1 + k - 1]
    BY <1>1, <2>1, SubSeqProperties
  <2>3. n - 1 + 1 = n /\ (1 <= n \/ n = 0)
    BY <1>1
  <2> HIDE DEF a
  <2> QED
    BY <2>2, <2>3
<1>3. /\ b \in Seq(S) /\ Len(b) = m - n
      /\ \A k \in 1..(m - n) : b[k] = s[n + k]
  <2>1. \A k \in (n + 1)..m : s[k] \in S
    BY <1>1
  <2>2. /\ b \in Seq(S) /\ Len(b) = IF n + 1 <= m THEN m - (n + 1) + 1 ELSE 0
        /\ \A k \in 1..(m - (n + 1) + 1) : b[k] = s[(n + 1) + k - 1]
    BY <1>1, <2>1, SubSeqProperties
  <2> HIDE DEF b
  <2>3. m - (n + 1) + 1 = m - n /\ (n + 1 <= m \/ m - n = 0)
    BY <1>1
  <2>4. ASSUME NEW k \in 1..(m - n) PROVE b[k] = s[n + k]
    <3>1. (n + 1) + k - 1 = n + k
      BY <1>1
    <3> QED
      BY <2>2, <2>3, <3>1
  <2> QED
    BY <2>2, <2>3, <2>4
<1> HIDE DEF a, b
<1> DEFINE c == a \o <<e>>
           r == c \o b
<1>4. <<e>> \in Seq(S) /\ Len(<<e>>) = 1 /\ <<e>>[1] = e
  OBVIOUS
<1>5. /\ c \in Seq(S) /\ Len(c) = n + 1
      /\ \A k \in 1..n : c[k] = s[k]
      /\ c[n + 1] = e
  <2> DEFINE o == <<e>>
  <2>1. o \in Seq(S) /\ Len(o) = 1 /\ o[1] = e
    BY <1>4
  <2> HIDE DEF o
  <2>2. /\ a \o o \in Seq(S) /\ Len(a \o o) = Len(a) + Len(o)
        /\ \A k \in 1..(Len(a) + Len(o)) : (a \o o)[k] = IF k <= Len(a) THEN a[k] ELSE o[k - Len(a)]
    BY <1>2, <2>1, ConcatProperties
  <2>3. Len(a) + Len(o) = n + 1 /\ n \in Nat
    BY <1>1, <1>2, <2>1
  <2>4. c = a \o o
    BY DEF o
  <2> HIDE DEF c
  <2>5. ASSUME NEW k \in 1..n PROVE c[k] = s[k]
    <3>1. k \in 1..(n + 1) /\ k <= n
      BY <2>3
    <3> QED
      BY <1>2, <2>2, <2>3, <2>4, <3>1
  <2>6. c[n + 1] = e
    <3>1. n + 1 \in 1..(n + 1) /\ ~(n + 1 <= n) /\ (n + 1) - n = 1
      BY <2>3
    <3> QED
      BY <1>2, <2>1, <2>2, <2>3, <2>4, <3>1
  <2> QED
    BY <2>2, <2>3, <2>4, <2>5, <2>6
<1> HIDE DEF c
<1>6. /\ r \in Seq(S) /\ Len(r) = m + 1 /\ DOMAIN r = 1..(m + 1)
      /\ \A k \in 1..n : r[k] = s[k]
      /\ r[n + 1] = e
      /\ \A k \in (n + 2)..(m + 1) : r[k] = s[k - 1]
  <2>1. /\ r \in Seq(S) /\ Len(r) = Len(c) + Len(b)
        /\ \A k \in 1..(Len(c) + Len(b)) : r[k] = IF k <= Len(c) THEN c[k] ELSE b[k - Len(c)]
    BY <1>3, <1>5, ConcatProperties
  <2> HIDE DEF r
  <2>2. Len(c) + Len(b) = m + 1 /\ n \in Nat /\ n <= m
    <3>1. (n + 1) + (m - n) = m + 1 /\ n \in Nat /\ n <= m
      BY <1>1
    <3> QED
      BY <1>3, <1>5, <3>1
  <2>3. DOMAIN r = 1..(m + 1)
    BY <2>1, <2>2, LenProperties
  <2>4. ASSUME NEW k \in 1..(n + 1) PROVE r[k] = c[k]
    <3>1. k \in 1..(m + 1) /\ k <= n + 1
      BY <1>1, <2>2
    <3> QED
      BY <1>5, <2>1, <2>2, <3>1
  <2>5. ASSUME NEW k \in (n + 2)..(m + 1) PROVE r[k] = s[k - 1]
    <3>1. k \in 1..(m + 1) /\ ~(k <= n + 1) /\ k - (n + 1) \in 1..(m - n)
      BY <1>1, <2>2
    <3>2. n + (k - (n + 1)) = k - 1
      BY <1>1, <2>2
    <3> QED
      BY <1>3, <1>5, <2>1, <2>2, <3>1, <3>2
  <2>6. \A k \in 1..n : k \in 1..(n + 1)
    BY <2>2
  <2>7. n + 1 \in 1..(n + 1)
    BY <2>2
  <2> QED
    BY <1>5, <2>1, <2>2, <2>3, <2>4, <2>5, <2>6, <2>7
<1> HIDE DEF r
<1>7. Inserted(s, e) = r
  BY DEF Inserted, r, c, a, b, n, m
<1>8. ASSUME NEW k \in 1..(m + 1)
      PROVE  \/ k \in 1..n \/ k = n + 1 \/ k \in (n + 2)..(m + 1)
  BY <1>1
<1>9. ASSUME NEW k \in 1..(m + 1) PROVE r[k] = e \/ \E j \in DOMAIN s : r[k] = s[j]
  <2>1. CASE k \in 1..n
    <3>1. k \in DOMAIN s
      BY <1>1, <2>1
    <3> QED
      BY <1>6, <2>1, <3>1
  <2>2. CASE k = n + 1
    BY <1>6, <2>2
  <2>3. CASE k \in (n + 2)..(m + 1)
    <3>1. k - 1 \in DOMAIN s
      BY <1>1, <2>3
    <3> QED
      BY <1>6, <2>3, <3>1
  <2> QED
    BY <1>8, <2>1, <2>2, <2>3
<1>10. ASSUME Sorted(s) PROVE Sorted(r)
  <2> DEFINE before(k) == k \in 1..n => s[k].time <= e.time
  <2>1. \A k \in 1..n : s[k].time <= e.time
    <3> SUFFICES ASSUME NEW k \in 1..n PROVE s[k].time <= e.time
      OBVIOUS
    <3>1. k = n \/ k < n
      BY <1>1
    <3>2. s[n].time <= e.time /\ n \in 1..m /\ k \in 1..m
      BY <1>1
    <3>3. k < n => s[k].time <= s[n].time
      BY <1>1, <1>10, <3>2 DEF Sorted
    <3> QED
      BY <1>1, <3>1, <3>2, <3>3
  <2>2. \A k \in (n + 2)..(m + 1) : s[k - 1].time >= e.time /\ k - 1 \in 1..m
    BY <1>1
  <2> SUFFICES ASSUME NEW i \in 1..(m + 1), NEW j \in 1..(m + 1), i < j
               PROVE  r[i].time <= r[j].time
    BY <1>6 DEF Sorted
  <2>3. CASE j \in 1..n
    <3>1. i \in 1..n /\ i \in 1..m /\ j \in 1..m
      BY <1>1, <2>3
    <3> QED
      BY <1>1, <1>6, <1>10, <2>3, <3>1 DEF Sorted
  <2>4. CASE j = n + 1
    <3>1. i \in 1..n
      BY <1>1, <2>4
    <3> QED
      BY <1>6, <2>1, <2>4, <3>1
  <2>5. CASE j \in (n + 2)..(m + 1) /\ i \in 1..n
    <3>1. r[i].time <= e.time /\ e.time <= r[j].time
      BY <1>1, <1>6, <2>1, <2>2, <2>5
    <3>2. r[i].time \in Nat /\ r[j].time \in Nat
      BY <1>1, <1>6, <2>2, <2>5
    <3> QED
      BY <1>1, <3>1, <3>2
  <2>6. CASE j \in (n + 2)..(m + 1) /\ i = n + 1
    BY <1>1, <1>6, <2>2, <2>6
  <2>7. CASE j \in (n + 2)..(m + 1) /\ i \in (n + 2)..(m + 1)
    <3>1. i - 1 < j - 1 /\ i - 1 \in 1..m /\ j - 1 \in 1..m
      BY <1>1, <2>7
    <3> QED
      BY <1>1, <1>6, <1>10, <2>7, <3>1 DEF Sorted
  <2> QED
    BY <1>8, <2>3, <2>4, <2>5, <2>6, <2>7
<1> QED
  BY <1>6, <1>7, <1>9, <1>10

\* The run of one kind that is published is taken from the front.
LEMMA BatchIsRun ==
    ASSUME NEW S, \A x \in S : x.time \in Nat, NEW q, q.events \in Seq(S), ~q.reset
    PROVE  /\ RunLength(q) \in 0..Len(q.events)
           /\ \A i \in 1..RunLength(q) : /\ q.events[i].kind = NextKind(q)
                                         /\ q.events[i].time < q.before
<1> DEFINE s == q.events
           InRun(n) == \A i \in 1..n : s[i].kind = NextKind(q) /\ s[i].time < q.before
           T == {n \in 0..Len(s) : n = Len(s) \/ ~InRun(n + 1)}
<1>1. Len(s) \in Nat
  BY LenProperties
<1>2. T \in SUBSET Nat /\ Len(s) \in T
  BY <1>1
<1>3. PICK n \in T : \A m \in T : n <= m
  BY <1>2, LeastNumber
<1>4. n \in 0..Len(s) /\ (n = Len(s) \/ ~InRun(n + 1))
  OBVIOUS
<1>5. InRun(n)
  <2>1. CASE n = 0
    BY <2>1
  <2>2. CASE n # 0
    <3>1. n - 1 \in 0..Len(s) /\ ~(n <= n - 1) /\ (n - 1) + 1 = n
      BY <1>1, <1>4, <2>2
    <3> HIDE DEF InRun
    <3>2. n - 1 \notin T
      BY <1>3, <3>1
    <3> QED
      BY <3>1, <3>2
  <2> QED
    BY <2>1, <2>2
<1>6. \E k \in 0..Len(s) : InRun(k) /\ (k = Len(s) \/ ~InRun(k + 1))
  BY <1>4, <1>5
<1> QED
  BY <1>6 DEF RunLength

LEMMA BatchTaken ==
    ASSUME NEW S, \A x \in S : x.time \in Nat, NEW q, q.events \in Seq(S), ~q.reset
    PROVE  /\ Batch(q) \in Seq(S)
           /\ \A i \in DOMAIN Batch(q) :
                  Batch(q)[i].kind = NextKind(q) /\ Batch(q)[i].time < q.before
           /\ Among(Batch(q), q.events)
           /\ SubSeq(q.events, Len(Batch(q)) + 1, Len(q.events)) \in Seq(S)
           /\ Among(SubSeq(q.events, Len(Batch(q)) + 1, Len(q.events)), q.events)
           /\ Sorted(q.events) =>
                /\ Sorted(Batch(q)) /\ Sorted(SubSeq(q.events, Len(Batch(q)) + 1, Len(q.events)))
                /\ \A i \in DOMAIN Batch(q) :
                     NotBefore(SubSeq(q.events, Len(Batch(q)) + 1, Len(q.events)), Batch(q)[i].time)
<1> DEFINE s == q.events
           n == RunLength(q)
           m == Len(s)
           a == SubSeq(s, 1, n)
           b == SubSeq(s, n + 1, m)
<1>1. /\ n \in 0..m /\ m \in Nat /\ DOMAIN s = 1..m
      /\ \A i \in 1..n : s[i].kind = NextKind(q) /\ s[i].time < q.before
      /\ \A i \in 1..m : s[i] \in S /\ s[i].time \in Nat
  BY BatchIsRun, LenProperties
<1> HIDE DEF n, m, s
<1>2. /\ a \in Seq(S) /\ Len(a) = n /\ DOMAIN a = 1..n
      /\ \A k \in 1..n : a[k] = s[k]
  <2>1. \A k \in 1..n : s[k] \in S
    BY <1>1
  <2>2. /\ a \in Seq(S) /\ Len(a) = IF 1 <= n THEN n - 1 + 1 ELSE 0
        /\ \A k \in 1..(n - 1 + 1) : a[k] = s[1 + k - 1]
    BY <1>1, <2>1, SubSeqProperties
  <2>3. n - 1 + 1 = n /\ (1 <= n \/ n = 0)
    BY <1>1
  <2> HIDE DEF a
  <2> QED
    BY <2>2, <2>3, LenProperties
<1>3. /\ b \in Seq(S) /\ DOMAIN b = 1..(m - n)
      /\ \A k \in 1..(m - n) : b[k] = s[n + k]
  <2>1. \A k \in (n + 1)..m : s[k] \in S
    BY <1>1
  <2>2. /\ b \in Seq(S) /\ Len(b) = IF n + 1 <= m THEN m - (n + 1) + 1 ELSE 0
        /\ \A k \in 1..(m - (n + 1) + 1) : b[k] = s[(n + 1) + k - 1]
    BY <1>1, <2>1, SubSeqProperties
  <2> HIDE DEF b
  <2>3. m - (n + 1) + 1 = m - n /\ (n + 1 <= m \/ m - n = 0)
    BY <1>1
  <2>4. ASSUME NEW k \in 1..(m - n) PROVE b[k] = s[n + k]
    <3>1. (n + 1) + k - 1 = n + k
      BY <1>1
    <3> QED
      BY <2>2, <2>3, <3>1
  <2> QED
    BY <2>2, <2>3, <2>4, LenProperties
<1> HIDE DEF a, b
<1>4. Batch(q) = a
  BY DEF Batch, a, s, n
<1>5. SubSeq(q.events, Len(Batch(q)) + 1, Len(q.events)) = b
  BY <1>2, <1>4 DEF b, s, m
<1>6. /\ \A k \in 1..n : k \in 1..m
      /\ \A k \in 1..(m - n) : n + k \in 1..m
  BY <1>1
<1>7. /\ \A k \in 1..n : a[k].kind = NextKind(q) /\ a[k].time < q.before
      /\ Among(a, s) /\ Among(b, s)
  BY <1>1, <1>2, <1>3, <1>6 DEF Among
<1>8. ASSUME Sorted(s)
      PROVE  Sorted(a) /\ Sorted(b) /\ \A i \in DOMAIN a : NotBefore(b, a[i].time)
  <2>1. Sorted(a)
    BY <1>1, <1>2, <1>6, <1>8 DEF Sorted
  <2>2. Sorted(b)
    <3> SUFFICES ASSUME NEW i \in 1..(m - n), NEW j \in 1..(m - n), i < j
                 PROVE  b[i].time <= b[j].time
      BY <1>3 DEF Sorted
    <3>1. n + i < n + j
      BY <1>1
    <3> QED
      BY <1>1, <1>3, <1>6, <1>8, <3>1 DEF Sorted
  <2>3. ASSUME NEW i \in 1..n, NEW j \in 1..(m - n) PROVE a[i].time <= b[j].time
    <3>1. i < n + j
      BY <1>1
    <3> QED
      BY <1>1, <1>2, <1>3, <1>6, <1>8, <3>1 DEF Sorted
  <2> QED
    BY <1>2, <1>3, <2>1, <2>2, <2>3 DEF NotBefore
<1> QED
  BY <1>2, <1>3, <1>4, <1>5, <1>7, <1>8 DEF s

-----------------------------------------------------------------------------
(* The invariant, in parts, each of a world.                               *)

UsbEvent(d) == {e \in Event : e.kind = d /\ e.code \in Has[d]}
AnyEvent    == UsbEvent("mouse") \cup UsbEvent("keyboard")

Worlds == [app: App, evdev: Evdev, tv: Tv, server: [Slots -> Server]]

Typed(w) ==
    /\ w \in Worlds
    /\ w.app.batch \in Seq(AnyEvent) /\ w.evdev.queue.events \in Seq(AnyEvent)
    /\ \A d \in Usb : w.tv.fd[d] \in Seq(UsbEvent(d))
    /\ w.tv.sdl \in Seq(Signal)

\* Nothing is read while the grab is not held.
IdleOK(w) ==
    ~w.evdev.started => /\ ~w.evdev.running /\ w.evdev.grabbed = {}
                        /\ w.evdev.queue = EmptyQueue /\ w.tv.fd = [d \in Usb |-> <<>>]

\* The reader sweeps what it holds, and a mouse it has lost left nothing but a reset.
ReaderOK(w) ==
    /\ w.evdev.sweeping => w.evdev.running /\ w.evdev.todo \subseteq w.evdev.grabbed
    /\ \A d \in Usb \ w.evdev.grabbed : w.tv.fd[d] = <<>>
    /\ w.evdev.queue.reset => w.evdev.queue.events = <<>>
    /\ \/ "mouse" \in w.evdev.grabbed \/ w.evdev.queue.reset
       \/ \A i \in DOMAIN w.evdev.queue.events : w.evdev.queue.events[i].kind # "mouse"

\* A batch is of one kind; a mouse's is routed while the reader has the mouse or
\* has asked for the release of everything.
BatchOK(w) ==
    /\ w.app.batch # <<>> => w.app.phase = "drain"
    /\ \A i, j \in DOMAIN w.app.batch : w.app.batch[i].kind = w.app.batch[j].kind
    /\ (\E i \in DOMAIN w.app.batch : w.app.batch[i].kind = "mouse") =>
           w.evdev.started /\ ("mouse" \in w.evdev.grabbed \/ w.evdev.queue.reset)

\* Every event still to come is no older than those before it on the way.
TimesOK(w) ==
    /\ Sorted(w.app.batch) /\ Sorted(w.evdev.queue.events)
    /\ NotBefore(w.app.batch, w.app.last) /\ NotBefore(w.evdev.queue.events, w.app.last)
    /\ \A i \in DOMAIN w.app.batch : NotBefore(w.evdev.queue.events, w.app.batch[i].time)
    /\ w.app.last <= w.tv.now /\ NotAfter(w.app.batch, w.tv.now)
    /\ w.evdev.queue.before <= w.tv.now + 1
    /\ w.evdev.sweeping => w.evdev.cutoff <= w.tv.now + 1
    /\ \A d \in Usb :
          /\ Sorted(w.tv.fd[d]) /\ NotAfter(w.tv.fd[d], w.tv.now)
          /\ NotBefore(w.tv.fd[d], w.app.last) /\ NotBefore(w.tv.fd[d], w.evdev.queue.before)
          /\ \A i \in DOMAIN w.app.batch : NotBefore(w.tv.fd[d], w.app.batch[i].time)
          /\ w.evdev.sweeping /\ d \notin w.evdev.todo => NotBefore(w.tv.fd[d], w.evdev.cutoff)

\* The grab is the stream's.
GrabOK(w) ==
    w.evdev.started => w.app.streaming /\ ~w.app.panel /\ (Focused(w) \/ LossIn(w.tv.sdl))

PanelOK(w) ==
    /\ w.app.panel => w.app.streaming
    /\ w.app.streaming => w.server[w.app.slot].state # "gone"
    /\ w.app.sampling => w.app.panel

\* A window without the focus knows, or will know and not be told otherwise.
FocusOK(w) ==
    w.tv.focus # "ours" => /\ LostAgain(w.tv.sdl)
                           /\ w.app.unfocused \/ LossIn(w.tv.sdl)
                           /\ w.app.sampling => LossIn(w.tv.sdl)

ArmedOK(w) ==
    w.app.armed => /\ w.app.streaming /\ ~w.app.panel
                   /\ Focused(w) \/ (w.app.phase \in {"sdl", "pump"} /\ LossIn(w.tv.sdl))

\* Only the session input drives holds anything, and what it holds is tracked.
HeldOK(w) ==
    \A s \in Slots : w.server[s].down # {} =>
        /\ s = w.app.slot /\ w.server[s].down \subseteq w.app.held
        /\ w.app.armed /\ w.server[s].state = "active"

\* b is down on a device whose events SDL is given.
OpenOn(w, b) ==
    \/ <<"pointer", b>> \in w.tv.pressed
    \/ /\ <<"mouse", b>> \in w.tv.pressed
       /\ "mouse" \in w.evdev.grabbed => "mouse" \in w.tv.hung

DownOn(w, b)  == <<"pointer", b>> \in w.tv.pressed \/ <<"mouse", b>> \in w.tv.pressed
Excused(w, b) == b \in w.tv.stale \/ (w.tv.focus = "ours" /\ DownOn(w, b))

\* A button the queued events leave down is down, or its release is excused.
QueuedOK(w) ==
    \A b \in Buttons : LeavesDown(w.tv.sdl, b)
        => b \in w.tv.stale \/ (w.tv.focus = "ours" /\ OpenOn(w, b))

MaskOK(w) ==
    w.app.panel /\ ~w.app.sampling
        => \A b \in w.app.mask : Silent(w.tv.sdl, b) => Excused(w, b)

Clicks(w) == w.app.held \cap Buttons

\* A click that is held, with no mouse grabbed, is a click of the pointer's.
ClicksOK(w) ==
    /\ ~w.app.panel /\ "mouse" \notin w.evdev.grabbed /\ ~w.evdev.queue.reset =>
           \A b \in Clicks(w) : Silent(w.tv.sdl, b) => Excused(w, b)
    /\ ~w.app.streaming => Clicks(w) \subseteq w.tv.stale
    /\ w.app.panel => Clicks(w) = {}
    /\ w.app.unfocused => LossIn(w.tv.sdl) \/ Clicks(w) \subseteq w.tv.stale

\* What every operator of the SDL thread keeps.
Core(w) ==
    /\ w \in Worlds /\ w.tv.sdl \in Seq(Signal)
    /\ IdleOK(w) /\ GrabOK(w) /\ PanelOK(w) /\ FocusOK(w) /\ ArmedOK(w) /\ HeldOK(w)
    /\ QueuedOK(w) /\ MaskOK(w) /\ ClicksOK(w)

Good(w) == Typed(w) /\ ReaderOK(w) /\ BatchOK(w) /\ TimesOK(w) /\ Core(w)

IInv == Good(World) /\ scenario \in Scenarios

-----------------------------------------------------------------------------
(* What the SDL thread's operators do to a world.                          *)

SameScreen(w, v) ==
    /\ v.app.slot = w.app.slot /\ v.app.streaming = w.app.streaming
    /\ v.app.panel = w.app.panel
    /\ v.app.unfocused = w.app.unfocused /\ v.app.away = w.app.away

\* The thread's place, the time and the user's hands are not its operators' to change.
SamePlace(w, v) ==
    /\ v.app.batch = w.app.batch /\ v.app.last = w.app.last /\ v.app.phase = w.app.phase
    /\ v.tv.now = w.tv.now /\ v.tv.pressed = w.tv.pressed /\ v.tv.focus = w.tv.focus
    /\ v.tv.sdl = w.tv.sdl

SameReader(w, v) == v.evdev = w.evdev /\ v.tv.fd = w.tv.fd /\ v.tv.hung = w.tv.hung

SameStates(w, v) == \A s \in Slots : v.server[s].state = w.server[s].state

\* Nothing read and nothing asked for, as after a start and after a stop.
Emptied(v) ==
    /\ v.evdev.queue = EmptyQueue /\ v.tv.fd = [d \in Usb |-> <<>>]
    /\ ~v.evdev.sweeping

\* The queues are left alone or emptied.
Within(w, v) ==
    /\ SamePlace(w, v)
    /\ (v.evdev = w.evdev /\ v.tv.fd = w.tv.fd) \/ Emptied(v)

\* Nothing is taken up: inputs are released, buttons forgotten or excused.
Eases(w, v) ==
    /\ v \in Worlds /\ SameScreen(w, v) /\ SamePlace(w, v) /\ SameReader(w, v)
    /\ SameStates(w, v) /\ v.app.sampling = w.app.sampling
    /\ v.app.mask \subseteq w.app.mask /\ v.app.held \subseteq w.app.held
    /\ w.tv.stale \subseteq v.tv.stale
    /\ v.app.armed => w.app.armed
    /\ HeldOK(v)

LEMMA EasesKeeps ==
    ASSUME NEW w, NEW v, Core(w), Eases(w, v)
    PROVE  Core(v) /\ Within(w, v)
<1> USE DEF Eases
<1>1. IdleOK(v)
  BY DEF Core, IdleOK, SameReader
<1>2. GrabOK(v)
  BY DEF Core, GrabOK, SameReader, SameScreen, SamePlace, Focused
<1>3. PanelOK(v)
  <2>1. w.app.slot \in Slots
    BY DEF Core, Worlds, App
  <2> QED
    BY <2>1 DEF Core, PanelOK, SameScreen, SameStates
<1>4. FocusOK(v)
  BY DEF Core, FocusOK, SameScreen, SamePlace
<1>5. ArmedOK(v)
  BY DEF Core, ArmedOK, SameScreen, SamePlace, Focused
<1>6. \A b : Excused(w, b) => Excused(v, b)
  BY DEF Excused, DownOn, SamePlace
<1>7. QueuedOK(v)
  BY DEF Core, QueuedOK, OpenOn, SameReader, SamePlace
<1>8. MaskOK(v)
  BY <1>6 DEF Core, MaskOK, SameScreen, SamePlace
<1>9. ClicksOK(v)
  <2>1. Clicks(v) \subseteq Clicks(w)
    BY DEF Clicks
  <2> QED
    BY <1>6, <2>1 DEF Core, ClicksOK, SameScreen, SamePlace, SameReader
<1> QED
  BY <1>1, <1>2, <1>3, <1>4, <1>5, <1>7, <1>8, <1>9 DEF Core, Within, SameReader, SamePlace

LEMMA WithinTwice ==
    ASSUME NEW u, NEW v, NEW w, Within(u, v), Within(v, w)
    PROVE  Within(u, w)
<1>1. SamePlace(u, w)
  BY DEF Within, SamePlace
<1>2. Emptied(v) /\ w.evdev = v.evdev /\ w.tv.fd = v.tv.fd => Emptied(w)
  BY DEF Emptied
<1> QED
  BY <1>1, <1>2 DEF Within

LEMMA WithinItself ==
    ASSUME NEW w PROVE Within(w, w)
BY DEF Within, SamePlace

\* What a flush leaves.
Flushed(w, v) ==
    /\ v \in Worlds /\ v.app = [w.app EXCEPT !.held = {}]
    /\ v.evdev = w.evdev /\ v.tv = w.tv
    /\ v.server = [s \in Slots |-> [state |-> w.server[s].state, down |-> {}]]

LEMMA FlushFlushes ==
    ASSUME NEW w \in Worlds, HeldOK(w)
    PROVE  Flushed(w, Flush(w))
<1> DEFINE s0 == w.app.slot
           Empty == [s \in Slots |-> [state |-> w.server[s].state, down |-> {}]]
<1>1. s0 \in Slots /\ w.server \in [Slots -> Server] /\ w.app \in App
  BY DEF Worlds, App
<1>2. Empty \in [Slots -> Server]
  BY <1>1 DEF Server
<1>3. \A r \in Server : [r EXCEPT !.down = {}] = [state |-> r.state, down |-> {}]
  BY DEF Server
<1>4. \A r \in Server : r.down = {} => r = [state |-> r.state, down |-> {}]
  BY DEF Server
<1>5. \A s \in Slots : w.server[s] \in Server
  BY <1>1
<1>6. [[w EXCEPT !.server = Empty] EXCEPT !.app.held = {}] \in Worlds
  <2> HIDE DEF Empty
  <2> QED
    BY <1>1, <1>2 DEF Worlds, App
<1>7. Flushed(w, [[w EXCEPT !.server = Empty] EXCEPT !.app.held = {}])
  <2> DEFINE E == Empty
             v == [[w EXCEPT !.server = E] EXCEPT !.app.held = {}]
  <2> HIDE DEF E
  <2>1. v.app = [w.app EXCEPT !.held = {}] /\ v.evdev = w.evdev /\ v.tv = w.tv /\ v.server = E
    BY DEF Worlds
  <2> QED
    BY <1>6, <2>1 DEF Flushed, E
<1>8. CASE Ready(w) /\ Connected(w)
  <2>1. w.server[s0].down \ w.app.held = {}
    BY <1>1 DEF HeldOK
  <2>2. \A s \in Slots : s # s0 => w.server[s].down = {}
    BY DEF HeldOK
  <2>3. [w.server EXCEPT ![s0].down = @ \ w.app.held] = Empty
    <3> DEFINE f == [w.server EXCEPT ![s0].down = @ \ w.app.held]
    <3>1. f[s0] = [w.server[s0] EXCEPT !.down = {}]
      BY <1>1, <2>1
    <3>2. \A s \in Slots : s # s0 => f[s] = w.server[s]
      BY <1>1
    <3>3. DOMAIN f = Slots
      BY <1>1
    <3>4. f = [s \in Slots |-> f[s]]
      BY <1>1
    <3>5. \A s \in Slots : f[s] = [state |-> w.server[s].state, down |-> {}]
      <4> HIDE DEF f
      <4> QED
        BY <1>1, <1>3, <1>4, <1>5, <2>2, <3>1, <3>2
    <3> HIDE DEF f
    <3>6. f = Empty
      BY <3>4, <3>5, Zenon
    <3> QED
      BY <3>6 DEF f
  <2>4. [w EXCEPT !.server[s0].down = @ \ w.app.held] = [w EXCEPT !.server = Empty]
    BY <2>3
  <2>5. Flush(w) = [[w EXCEPT !.server = Empty] EXCEPT !.app.held = {}]
    BY <1>8, <2>4 DEF Flush
  <2> QED
    BY <1>7, <2>5, Zenon
<1>9. CASE ~(Ready(w) /\ Connected(w))
  <2>1. \A s \in Slots : w.server[s].down = {}
    BY <1>9 DEF HeldOK, Ready, Connected
  <2>2. w.server = Empty
    <3>1. \A s \in Slots : w.server[s] = [state |-> w.server[s].state, down |-> {}]
      BY <1>4, <1>5, <2>1
    <3>2. w.server = [s \in Slots |-> w.server[s]]
      BY <1>1
    <3> QED
      BY <3>1, <3>2, Zenon
  <2>3. Flush(w) = [w EXCEPT !.app.held = {}]
    BY <1>9 DEF Flush
  <2>4. [w EXCEPT !.server = Empty] = w
    <3> HIDE DEF Empty
    <3> QED
      BY <2>2 DEF Worlds
  <2>5. Flush(w) = [[w EXCEPT !.server = Empty] EXCEPT !.app.held = {}]
    BY <2>3, <2>4, Zenon
  <2> QED
    BY <1>7, <2>5, Zenon
<1> QED
  BY <1>8, <1>9

-----------------------------------------------------------------------------
(* A stop and a start of the grab.                                         *)

Idle(v) == ~v.evdev.started /\ ~v.evdev.running /\ v.evdev.grabbed = {} /\ Emptied(v)

\* Nothing is driven and nothing is held.
Quiet(v) == ~v.app.armed /\ v.app.held = {} /\ \A s \in Slots : v.server[s].down = {}

Stopped(w, v) ==
    /\ v \in Worlds /\ SameScreen(w, v) /\ SamePlace(w, v) /\ SameStates(w, v)
    /\ Idle(v) /\ Quiet(v)
    /\ v.app.mask = w.app.mask /\ v.app.dismiss = w.app.dismiss
    /\ v.tv.stale = w.tv.stale
    /\ v.app.sampling = IF w.evdev.started THEN w.app.panel /\ "mouse" \in w.evdev.grabbed
                        ELSE w.app.sampling

LEMMA StopStops ==
    ASSUME NEW w \in Worlds, IdleOK(w), HeldOK(w), ~w.evdev.sweeping
    PROVE  Stopped(w, Stop(w))
<1> DEFINE f == Flush(w)
           off == [f EXCEPT !.app.armed = FALSE, !.app.side = FALSE]
<1>1. Flushed(w, f)
  BY FlushFlushes
<1> HIDE DEF f
<1>2. /\ off \in Worlds /\ off.evdev = w.evdev /\ off.tv = w.tv /\ off.server = f.server
      /\ off.app = [w.app EXCEPT !.held = {}, !.armed = FALSE, !.side = FALSE]
  <2>1. f.app \in App /\ f \in Worlds
    BY <1>1 DEF Flushed, Worlds
  <2>2. off.evdev = f.evdev /\ off.tv = f.tv /\ off.server = f.server
    BY <2>1 DEF Worlds
  <2>3. off.app = [f.app EXCEPT !.armed = FALSE, !.side = FALSE]
    BY <2>1 DEF Worlds
  <2>4. off \in Worlds
    BY <2>1 DEF Worlds, App
  <2> QED
    BY <1>1, <2>2, <2>3, <2>4 DEF Flushed
<1> HIDE DEF off
<1>3. w.app \in App /\ w.evdev \in Evdev /\ w.tv \in Tv
  BY DEF Worlds
<1>4. \A s \in Slots : off.server[s].down = {} /\ off.server[s].state = w.server[s].state
  BY <1>1, <1>2 DEF Flushed
<1>5. CASE ~w.evdev.started
  <2>1. Stop(w) = off
    BY <1>2, <1>5 DEF Stop, off, f
  <2>2. Idle(off)
    BY <1>2, <1>5 DEF IdleOK, Idle, Emptied
  <2>3. Quiet(off)
    BY <1>2, <1>3, <1>4 DEF Quiet, App
  <2>4. /\ SameScreen(w, off) /\ off.app.mask = w.app.mask /\ off.app.dismiss = w.app.dismiss
        /\ off.app.sampling = w.app.sampling
    BY <1>2, <1>3 DEF App, SameScreen
  <2>5. SamePlace(w, off)
    BY <1>2, <1>3 DEF App, SamePlace
  <2>6. SameStates(w, off)
    BY <1>4 DEF SameStates
  <2> QED
    BY <1>2, <1>5, <2>1, <2>2, <2>3, <2>4, <2>5, <2>6 DEF Stopped
<1>6. CASE w.evdev.started
  <2> DEFINE sampled == w.app.panel /\ "mouse" \in w.evdev.grabbed
             r == Release(off)
             v == [r EXCEPT !.app.sampling = sampled]
  <2>1. Stop(w) = v
    BY <1>2, <1>6 DEF Stop, off, f
  <2>2. off.app \in App /\ off.evdev \in Evdev /\ off.tv \in Tv /\ EmptyQueue \in
            [events: Seq(Event), reset: BOOLEAN, before: Nat]
    BY <1>2 DEF Worlds, EmptyQueue
  <2>3. r.evdev = [off.evdev EXCEPT !.started = FALSE, !.running = FALSE, !.grabbed = {},
                                    !.queue = EmptyQueue, !.queued = FALSE]
    BY <1>2 DEF Release, Worlds
  <2>4. r.tv = [off.tv EXCEPT !.fd = [d \in Usb |-> <<>>], !.news = FALSE,
                              !.ready = {}, !.hung = {}]
    BY <1>2 DEF Release, Worlds
  <2>5. r.app = off.app /\ r.server = off.server
    BY <1>2 DEF Release, Worlds
  <2>6. r.evdev \in Evdev
    BY <2>2, <2>3 DEF Evdev
  <2>7. [d \in Usb |-> <<>>] \in [Usb -> Seq(Event)]
    OBVIOUS
  <2>8. r.tv \in Tv
    BY <2>2, <2>4, <2>7 DEF Tv
  <2>9. r \in Worlds
    <3> DEFINE x == [off.evdev EXCEPT !.started = FALSE, !.running = FALSE, !.grabbed = {},
                                      !.queue = EmptyQueue, !.queued = FALSE]
               y == [off.tv EXCEPT !.fd = [d \in Usb |-> <<>>], !.news = FALSE,
                                   !.ready = {}, !.hung = {}]
    <3>1. r = [off EXCEPT !.evdev = x, !.tv = y]
      BY DEF Release
    <3>2. x \in Evdev /\ y \in Tv
      BY <2>3, <2>4, <2>6, <2>8, Zenon
    <3> HIDE DEF x, y, r
    <3> QED
      BY <1>2, <3>1, <3>2 DEF Worlds
  <2> HIDE DEF r
  <2>10. v \in Worlds /\ v.app = [off.app EXCEPT !.sampling = sampled] /\ v.evdev = r.evdev
         /\ v.tv = r.tv /\ v.server = off.server
    <3>1. sampled \in BOOLEAN
      BY <1>3 DEF App
    <3>2. v.app = [off.app EXCEPT !.sampling = sampled] /\ v.evdev = r.evdev
          /\ v.tv = r.tv /\ v.server = off.server
      BY <2>5, <2>9 DEF Worlds
    <3> HIDE DEF sampled
    <3>3. v \in Worlds
      BY <2>9, <3>1 DEF Worlds, App
    <3> QED
      BY <3>2, <3>3
  <2> HIDE DEF v, sampled
  <2>11. v.app = [w.app EXCEPT !.held = {}, !.armed = FALSE, !.side = FALSE, !.sampling = sampled]
    BY <1>2, <2>10
  <2>12. Idle(v)
    BY <1>2, <2>2, <2>3, <2>4, <2>10 DEF Idle, Emptied, Evdev, Tv
  <2>13. Quiet(v)
    BY <1>3, <1>4, <2>10, <2>11 DEF Quiet, App
  <2>14. /\ SameScreen(w, v) /\ v.app.mask = w.app.mask /\ v.app.dismiss = w.app.dismiss
         /\ v.app.sampling = sampled
    BY <1>3, <2>11 DEF App, SameScreen
  <2>15. v.tv.now = w.tv.now /\ v.tv.pressed = w.tv.pressed /\ v.tv.focus = w.tv.focus
         /\ v.tv.sdl = w.tv.sdl /\ v.tv.stale = w.tv.stale
    BY <1>2, <1>3, <2>4, <2>10 DEF Tv
  <2>16. SamePlace(w, v)
    BY <1>3, <2>11, <2>15 DEF App, SamePlace
  <2>17. SameStates(w, v)
    BY <1>4, <2>10 DEF SameStates
  <2> QED
    BY <1>6, <2>1, <2>10, <2>12, <2>13, <2>14, <2>15, <2>16, <2>17 DEF Stopped, sampled
<1> QED
  BY <1>5, <1>6

\* With the grab gone and nothing held, little else matters.
LEMMA QuietIsCore ==
    ASSUME NEW v \in Worlds, v.tv.sdl \in Seq(Signal), Idle(v), Quiet(v),
           PanelOK(v), FocusOK(v), QueuedOK(v), MaskOK(v)
    PROVE  Core(v)
<1>1. IdleOK(v) /\ GrabOK(v)
  BY DEF Idle, Emptied, IdleOK, GrabOK
<1>2. ArmedOK(v) /\ HeldOK(v) /\ ClicksOK(v)
  BY DEF Quiet, ArmedOK, HeldOK, ClicksOK, Clicks
<1> QED
  BY <1>1, <1>2 DEF Core

\* What a stop asks of a world, and what it leaves of it.
StopReady(w) ==
    /\ w \in Worlds /\ w.tv.sdl \in Seq(Signal) /\ ~w.evdev.sweeping
    /\ IdleOK(w) /\ HeldOK(w) /\ PanelOK(w) /\ FocusOK(w) /\ QueuedOK(w) /\ MaskOK(w)
    /\ w.evdev.started => ~w.app.panel

LEMMA CoreIsStopReady ==
    ASSUME NEW w, Core(w), ~w.evdev.sweeping
    PROVE  StopReady(w)
BY DEF Core, StopReady, GrabOK

LEMMA StopKeeps ==
    ASSUME NEW w, StopReady(w)
    PROVE  /\ Core(Stop(w)) /\ Within(w, Stop(w)) /\ Stopped(w, Stop(w))
           /\ ~w.app.sampling => ~Stop(w).app.sampling
<1> DEFINE v == Stop(w)
<1>1. Stopped(w, v)
  BY StopStops DEF StopReady
<1> HIDE DEF v
<1>2. v.app.sampling => w.app.sampling
  BY <1>1 DEF Stopped, StopReady
<1>3. PanelOK(v)
  <2>1. w.app.slot \in Slots
    BY DEF StopReady, Worlds, App
  <2> QED
    BY <1>1, <1>2, <2>1 DEF StopReady, PanelOK, Stopped, SameScreen, SameStates
<1>4. FocusOK(v)
  BY <1>1, <1>2 DEF StopReady, FocusOK, Stopped, SameScreen, SamePlace
<1>5. QueuedOK(v)
  BY <1>1 DEF StopReady, QueuedOK, OpenOn, Stopped, SamePlace, Idle
<1>6. MaskOK(v)
  <2>1. CASE v.app.panel
    <3>1. v.app.sampling = w.app.sampling
      BY <1>1, <2>1 DEF Stopped, StopReady, SameScreen
    <3> QED
      BY <1>1, <3>1 DEF StopReady, MaskOK, Excused, DownOn, Stopped, SameScreen, SamePlace
  <2> QED
    BY <2>1 DEF MaskOK
<1>7. v \in Worlds /\ v.tv.sdl \in Seq(Signal) /\ Idle(v) /\ Quiet(v)
  BY <1>1 DEF Stopped, StopReady, SamePlace
<1>8. Core(v)
  BY <1>3, <1>4, <1>5, <1>6, <1>7, QuietIsCore
<1>9. Within(w, v)
  BY <1>1 DEF Within, Stopped, Idle
<1> QED
  BY <1>1, <1>2, <1>8, <1>9 DEF v

\* The grab a live stream takes: nothing was read from it, and the presses SDL has
\* queued from before it are excused.
LEMMA StartKeeps ==
    ASSUME NEW w, Core(w), ~w.evdev.sweeping, ~w.app.panel, w.app.streaming
    PROVE  /\ Core(Start(w)) /\ Within(w, Start(w))
           /\ Start(w).app = w.app /\ Start(w).server = w.server
<1>1. CASE ~Focused(w) \/ w.evdev.started
  <2>1. Start(w) = w
    BY <1>1 DEF Start
  <2> QED
    BY <2>1, WithinItself
<1>2. CASE Focused(w) /\ ~w.evdev.started
  <2> DEFINE x == [w.evdev EXCEPT !.started = TRUE, !.running = TRUE, !.grabbed = w.tv.plugged]
             S == (w.tv.stale \cap w.app.held) \cup Queued(w, Len(w.tv.sdl))
             y == [w.tv EXCEPT !.stale = S]
             v == Start(w)
  <2>1. v = [w EXCEPT !.evdev = x, !.tv = y]
    BY <1>2 DEF Start
  <2>2. w \in Worlds /\ w.evdev \in Evdev /\ w.tv \in Tv /\ w.app \in App
    BY DEF Core, Worlds
  <2>3. S \in SUBSET Buttons
    BY <2>2 DEF Tv, Queued
  <2>4. x \in Evdev
    BY <2>2 DEF Evdev, Tv
  <2> HIDE DEF S
  <2>5. y \in Tv /\ y.stale = S /\ y.pressed = w.tv.pressed /\ y.focus = w.tv.focus
        /\ y.sdl = w.tv.sdl /\ y.now = w.tv.now /\ y.fd = w.tv.fd
    BY <2>2, <2>3 DEF Tv
  <2>6. x.started /\ x.queue = w.evdev.queue /\ x.sweeping = w.evdev.sweeping
    BY <2>2 DEF Evdev
  <2> HIDE DEF x, y, v
  <2>7. v \in Worlds /\ v.evdev = x /\ v.tv = y /\ v.app = w.app /\ v.server = w.server
    BY <2>1, <2>2, <2>4, <2>5 DEF Worlds
  <2>8. w.evdev.queue = EmptyQueue /\ w.tv.fd = [d \in Usb |-> <<>>] /\ w.evdev.grabbed = {}
    BY <1>2 DEF Core, IdleOK
  <2>9. IdleOK(v)
    BY <2>6, <2>7 DEF IdleOK
  <2>10. GrabOK(v)
    BY <1>2, <2>7 DEF GrabOK, Focused
  <2>11. PanelOK(v) /\ FocusOK(v) /\ ArmedOK(v) /\ HeldOK(v)
    BY <2>5, <2>7 DEF Core, PanelOK, FocusOK, ArmedOK, HeldOK, Focused
  <2>12. QueuedOK(v)
    <3>1. ASSUME NEW b \in Buttons, LeavesDown(w.tv.sdl, b) PROVE b \in Queued(w, Len(w.tv.sdl))
      <4>1. DOMAIN w.tv.sdl = 1..Len(w.tv.sdl)
        BY LenProperties DEF Core
      <4> QED
        BY <3>1, <4>1 DEF LeavesDown, Presses, Queued
    <3> QED
      BY <2>5, <2>7, <3>1 DEF QueuedOK, S
  <2>13. MaskOK(v)
    BY <2>7 DEF MaskOK
  <2>14. ClicksOK(v)
    <3>1. Clicks(v) = Clicks(w)
      BY <2>7 DEF Clicks
    <3>2. \A b \in Clicks(w) : Excused(w, b) => Excused(v, b)
      BY <2>5, <2>7 DEF Excused, DownOn, S, Clicks
    <3>3. ~w.evdev.queue.reset
      BY <2>8 DEF EmptyQueue
    <3>4. \A b \in Clicks(w) : Silent(w.tv.sdl, b) => Excused(w, b)
      BY <2>8, <3>3 DEF Core, ClicksOK
    <3>5. ~v.app.unfocused
      BY <1>2, <2>7 DEF Focused
    <3> QED
      BY <2>5, <2>7, <3>1, <3>2, <3>4, <3>5 DEF ClicksOK
  <2>15. Within(w, v)
    BY <2>5, <2>6, <2>7, <2>8 DEF Within, SamePlace, Emptied
  <2>16. Core(v)
    BY <2>5, <2>7, <2>9, <2>10, <2>11, <2>12, <2>13, <2>14 DEF Core
  <2> QED
    BY <2>7, <2>15, <2>16 DEF v
<1> QED
  BY <1>1, <1>2

\* What hiding the panel leaves as it was.
Hidden(w, v) ==
    /\ v.server = w.server
    /\ v.app.slot = w.app.slot /\ v.app.streaming = w.app.streaming
    /\ v.app.unfocused = w.app.unfocused /\ v.app.away = w.app.away
    /\ v.app.held = w.app.held /\ v.app.armed = w.app.armed
    /\ v.app.sampling = w.app.sampling

LEMMA HideKeeps ==
    ASSUME NEW w, Core(w), ~w.evdev.sweeping, ~w.app.sampling
    PROVE  Core(Hide(w)) /\ Within(w, Hide(w)) /\ Hidden(w, Hide(w))
<1>1. w \in Worlds /\ w.app \in App
  BY DEF Core, Worlds
<1>2. CASE ~w.app.panel
  <2>1. Hide(w) = w
    BY <1>2 DEF Hide
  <2> QED
    BY <2>1, WithinItself DEF Hidden
<1>3. CASE w.app.panel /\ (w.app.dismiss # None \/ w.app.mask # {})
  <2> DEFINE v == [w EXCEPT !.app.closing = TRUE]
  <2>1. Hide(w) = v
    BY <1>3 DEF Hide
  <2>2. v \in Worlds /\ v.evdev = w.evdev /\ v.tv = w.tv /\ v.server = w.server
        /\ v.app = [w.app EXCEPT !.closing = TRUE]
    BY <1>1 DEF Worlds, App
  <2> HIDE DEF v
  <2>3. /\ SameScreen(w, v) /\ SamePlace(w, v) /\ v.app.sampling = w.app.sampling
        /\ v.app.mask = w.app.mask /\ v.app.held = w.app.held /\ v.app.armed = w.app.armed
    BY <1>1, <2>2 DEF App, SameScreen, SamePlace
  <2>4. HeldOK(v)
    BY <2>2, <2>3 DEF Core, HeldOK, SameScreen
  <2>5. Eases(w, v)
    BY <2>2, <2>3, <2>4 DEF Eases, SameReader, SameStates
  <2>6. Core(v) /\ Within(w, v)
    BY <2>5, EasesKeeps
  <2> QED
    BY <2>1, <2>2, <2>3, <2>6 DEF Hidden, SameScreen
<1>4. CASE w.app.panel /\ w.app.dismiss = None /\ w.app.mask = {}
  <2> DEFINE v == [w EXCEPT !.app.panel = FALSE, !.app.drag = FALSE, !.app.closing = FALSE]
  <2>1. Hide(w) = IF w.app.streaming /\ ~w.app.unfocused /\ Connected(w) THEN Start(v) ELSE v
    BY <1>4 DEF Hide
  <2>2. v \in Worlds /\ v.evdev = w.evdev /\ v.tv = w.tv /\ v.server = w.server
        /\ v.app = [w.app EXCEPT !.panel = FALSE, !.drag = FALSE, !.closing = FALSE]
    BY <1>1 DEF Worlds, App
  <2> HIDE DEF v
  <2>3. /\ SamePlace(w, v) /\ Hidden(w, v) /\ ~v.app.panel
    BY <1>1, <2>2 DEF App, Hidden, SamePlace
  <2>4. ~w.evdev.started /\ ~w.app.armed /\ Clicks(v) = {}
    BY <1>4, <2>3 DEF Core, GrabOK, ArmedOK, ClicksOK, Clicks, Hidden
  <2>5. IdleOK(v) /\ GrabOK(v) /\ PanelOK(v) /\ FocusOK(v) /\ ArmedOK(v) /\ HeldOK(v)
    BY <2>2, <2>3, <2>4 DEF Core, IdleOK, GrabOK, PanelOK, FocusOK, ArmedOK, HeldOK, Hidden
  <2>6. QueuedOK(v) /\ MaskOK(v) /\ ClicksOK(v)
    BY <2>2, <2>3, <2>4 DEF Core, QueuedOK, OpenOn, MaskOK, ClicksOK
  <2>7. Core(v)
    BY <2>2, <2>5, <2>6 DEF Core
  <2>8. Within(w, v)
    BY <2>2, <2>3 DEF Within
  <2>9. CASE w.app.streaming /\ ~w.app.unfocused /\ Connected(w)
    <3>1. Core(Start(v)) /\ Within(v, Start(v)) /\ Start(v).app = v.app
          /\ Start(v).server = v.server
      BY <2>2, <2>3, <2>7, <2>9, StartKeeps DEF Hidden
    <3>2. Within(w, Start(v))
      BY <2>8, <3>1, WithinTwice
    <3> QED
      BY <2>1, <2>3, <2>9, <3>1, <3>2 DEF Hidden
  <2>10. CASE ~(w.app.streaming /\ ~w.app.unfocused /\ Connected(w))
    BY <2>1, <2>3, <2>7, <2>8, <2>10
  <2> QED
    BY <2>9, <2>10
<1> QED
  BY <1>2, <1>3, <1>4

LEMMA DisarmedIsSame ==
    ASSUME NEW w \in Worlds, ~w.app.armed
    PROVE  [w EXCEPT !.app.armed = FALSE] = w
<1>1. w.app \in App /\ w.app.armed = FALSE
  BY DEF Worlds, App
<1>2. [w.app EXCEPT !.armed = FALSE] = w.app
  BY <1>1 DEF App
<1> DEFINE x == [w.app EXCEPT !.armed = FALSE]
<1>3. [w EXCEPT !.app.armed = FALSE] = [w EXCEPT !.app = x]
  OBVIOUS
<1> HIDE DEF x
<1>4. x = w.app
  BY <1>2 DEF x
<1> QED
  BY <1>3, <1>4 DEF Worlds

\* The panel takes the buttons over: those the reader knew to be down until they are
\* sampled, those SDL gave out as they are.
LEMMA ShowPanelKeeps ==
    ASSUME NEW w, Core(w), ~w.evdev.sweeping, ~w.app.sampling, ~w.app.panel, w.app.streaming
    PROVE  Core(ShowPanel(w)) /\ Within(w, ShowPanel(w))
<1> DEFINE a == [w.app EXCEPT !.panel = TRUE, !.drag = FALSE, !.dismiss = None,
                              !.closing = FALSE, !.mask = w.app.held \cap Buttons]
           S == IF w.evdev.queue.reset THEN w.tv.stale \cup (w.app.held \cap Buttons)
                ELSE w.tv.stale
           y == [w.tv EXCEPT !.stale = S]
           up == [w EXCEPT !.app = a, !.tv = y]
           v == Stop(up)
<1>1. w \in Worlds /\ w.app \in App /\ w.tv \in Tv /\ w.evdev \in Evdev
  BY DEF Core, Worlds
<1>2. S \in SUBSET Buttons /\ w.tv.stale \subseteq S
      /\ (w.evdev.queue.reset => Clicks(w) \subseteq S)
  BY <1>1 DEF Tv, Clicks
<1>3. ShowPanel(w) = [v EXCEPT !.app.armed = FALSE]
  BY DEF ShowPanel
<1> HIDE DEF S
<1>4. /\ a \in App /\ a.panel /\ a.mask = Clicks(w) /\ a.slot = w.app.slot
      /\ a.streaming = w.app.streaming /\ a.unfocused = w.app.unfocused /\ a.away = w.app.away
      /\ a.sampling = w.app.sampling /\ a.held = w.app.held /\ a.armed = w.app.armed
      /\ a.batch = w.app.batch /\ a.last = w.app.last /\ a.phase = w.app.phase
  BY <1>1 DEF App, Clicks
<1>5. /\ y \in Tv /\ y.stale = S /\ y.now = w.tv.now /\ y.pressed = w.tv.pressed
      /\ y.focus = w.tv.focus /\ y.sdl = w.tv.sdl /\ y.fd = w.tv.fd
  BY <1>1, <1>2 DEF Tv
<1> HIDE DEF a, y
<1>6. up \in Worlds /\ up.app = a /\ up.tv = y /\ up.evdev = w.evdev /\ up.server = w.server
  BY <1>1, <1>4, <1>5 DEF Worlds
<1> HIDE DEF up
<1>7. IdleOK(up) /\ HeldOK(up) /\ ~up.evdev.sweeping
  BY <1>4, <1>5, <1>6 DEF Core, IdleOK, HeldOK
<1>8. Stopped(up, v)
  BY <1>6, <1>7, StopStops
<1> HIDE DEF v
<1>9. /\ v \in Worlds /\ Idle(v) /\ Quiet(v) /\ v.app.panel
      /\ v.app.mask = Clicks(w) /\ v.tv.stale = S
      /\ v.tv.pressed = w.tv.pressed /\ v.tv.focus = w.tv.focus /\ v.tv.sdl = w.tv.sdl
      /\ v.app.slot = w.app.slot /\ v.app.streaming /\ v.app.unfocused = w.app.unfocused
      /\ SameStates(w, v)
      /\ v.app.sampling = (w.evdev.started /\ "mouse" \in w.evdev.grabbed)
  BY <1>1, <1>4, <1>5, <1>6, <1>8 DEF Stopped, SameScreen, SamePlace, SameStates, App
<1>10. ShowPanel(w) = v
  BY <1>3, <1>9, DisarmedIsSame DEF Quiet
<1>11. PanelOK(v)
  <2>1. w.app.slot \in Slots
    BY <1>1 DEF App
  <2> QED
    BY <1>9, <2>1 DEF Core, PanelOK, SameStates
<1>12. FocusOK(v)
  BY <1>9 DEF Core, FocusOK, GrabOK, Focused
<1>13. QueuedOK(v)
  BY <1>2, <1>9 DEF Core, QueuedOK, OpenOn, Idle
<1>14. MaskOK(v)
  <2>1. CASE w.evdev.queue.reset
    BY <1>2, <1>9, <2>1 DEF MaskOK, Excused
  <2>2. ASSUME ~w.evdev.queue.reset, ~v.app.sampling
        PROVE  \A b \in Clicks(w) : Silent(w.tv.sdl, b) => Excused(w, b)
    <3>1. "mouse" \notin w.evdev.grabbed
      BY <1>9, <2>2 DEF Core, IdleOK
    <3> QED
      BY <2>2, <3>1 DEF Core, ClicksOK
  <2>3. \A b : Excused(w, b) => Excused(v, b)
    BY <1>2, <1>9 DEF Excused, DownOn
  <2> QED
    BY <1>9, <2>1, <2>2, <2>3 DEF MaskOK
<1>15. Core(v)
  <2>1. v.tv.sdl \in Seq(Signal)
    BY <1>9 DEF Core
  <2> QED
    BY <1>9, <1>11, <1>12, <1>13, <1>14, <2>1, QuietIsCore
<1>16. Within(w, v)
  BY <1>4, <1>5, <1>6, <1>8 DEF Within, Stopped, SamePlace, Idle
<1> QED
  BY <1>10, <1>15, <1>16

\* With nothing driven or held the slot may change and the stream leave the screen.
LEMMA QuietRetarget ==
    ASSUME NEW w, Core(w), Quiet(w), NEW v, v \in Worlds,
           v.evdev = w.evdev, v.tv = w.tv, Quiet(v),
           v.app.panel = w.app.panel, v.app.mask = w.app.mask,
           v.app.unfocused = w.app.unfocused, v.app.away = w.app.away,
           v.app.sampling = w.app.sampling,
           v.app.streaming = w.app.streaming \/ (~w.evdev.started /\ ~w.app.panel),
           PanelOK(v),
           v.app.batch = w.app.batch, v.app.last = w.app.last, v.app.phase = w.app.phase
    PROVE  Core(v) /\ Within(w, v)
<1>1. IdleOK(v)
  BY DEF Core, IdleOK
<1>2. GrabOK(v)
  BY DEF Core, GrabOK, Focused
<1>3. FocusOK(v)
  BY DEF Core, FocusOK
<1>4. ArmedOK(v) /\ HeldOK(v) /\ ClicksOK(v)
  BY DEF Quiet, ArmedOK, HeldOK, ClicksOK, Clicks
<1>5. QueuedOK(v) /\ MaskOK(v)
  BY DEF Core, QueuedOK, OpenOn, MaskOK, Excused, DownOn
<1>6. Within(w, v)
  BY DEF Within, SamePlace
<1> QED
  BY <1>1, <1>2, <1>3, <1>4, <1>5, <1>6 DEF Core

LEMMA ShowHubKeeps ==
    ASSUME NEW w, Core(w), ~w.evdev.sweeping, ~w.app.sampling
    PROVE  Core(ShowHub(w)) /\ Within(w, ShowHub(w))
<1>1. CASE ~w.app.streaming \/ w.app.panel
  <2>1. ShowHub(w) = w
    BY <1>1 DEF ShowHub
  <2> QED
    BY <2>1, WithinItself
<1>2. CASE w.app.streaming /\ ~w.app.panel
  <2> DEFINE x == Stop(w)
             v == [x EXCEPT !.app.streaming = FALSE, !.app.hub = TRUE]
  <2>1. ShowHub(w) = v
    BY <1>2 DEF ShowHub
  <2>2. Core(x) /\ Within(w, x) /\ Stopped(w, x) /\ ~x.app.sampling
    BY CoreIsStopReady, StopKeeps
  <2> HIDE DEF x
  <2>3. x.app \in App /\ x \in Worlds
    BY <2>2 DEF Core, Worlds
  <2>4. v \in Worlds /\ v.app = [x.app EXCEPT !.streaming = FALSE, !.hub = TRUE]
        /\ v.evdev = x.evdev /\ v.tv = x.tv /\ v.server = x.server
    BY <2>3 DEF Worlds, App
  <2> HIDE DEF v
  <2>5. /\ ~v.app.streaming /\ v.app.panel = x.app.panel /\ v.app.mask = x.app.mask
        /\ v.app.unfocused = x.app.unfocused /\ v.app.away = x.app.away
        /\ v.app.sampling = x.app.sampling /\ v.app.held = x.app.held
        /\ v.app.armed = x.app.armed
        /\ v.app.batch = x.app.batch /\ v.app.last = x.app.last /\ v.app.phase = x.app.phase
    BY <2>3, <2>4 DEF App
  <2>6. Quiet(x) /\ ~x.evdev.started /\ ~x.app.panel
    BY <1>2, <2>2 DEF Stopped, SameScreen, Idle
  <2>7. Quiet(v)
    BY <2>4, <2>5, <2>6 DEF Quiet
  <2>8. PanelOK(v)
    BY <2>2, <2>5, <2>6 DEF PanelOK
  <2>9. Core(v) /\ Within(x, v)
    <3>1. v.app.streaming = x.app.streaming \/ (~x.evdev.started /\ ~x.app.panel)
      BY <2>6
    <3> QED
      BY <2>2, <2>4, <2>5, <2>6, <2>7, <2>8, <3>1, QuietRetarget
  <2> QED
    BY <2>1, <2>2, <2>9, WithinTwice
<1> QED
  BY <1>1, <1>2

LEMMA HandoffKeeps ==
    ASSUME NEW w, Core(w), ~w.evdev.sweeping, ~w.app.sampling,
           NEW t \in Slots, w.server[t].state # "gone"
    PROVE  Core(Handoff(w, t)) /\ Within(w, Handoff(w, t)) /\ SameStates(w, Handoff(w, t))
           /\ Handoff(w, t).app.slot = t /\ ~Handoff(w, t).app.sampling
<1>1. CASE t = w.app.slot
  <2>1. Handoff(w, t) = w
    BY <1>1 DEF Handoff
  <2> QED
    BY <1>1, <2>1, WithinItself DEF SameStates
<1>2. CASE t # w.app.slot
  <2> DEFINE h == Hide(w)
             f == Flush(h)
             v == [f EXCEPT !.app.armed = FALSE, !.app.slot = t]
  <2>1. Handoff(w, t) = v
    BY <1>2 DEF Handoff
  <2>2. Core(h) /\ Within(w, h) /\ Hidden(w, h)
    BY HideKeeps
  <2> HIDE DEF h
  <2>3. Flushed(h, f)
    BY <2>2, FlushFlushes DEF Core
  <2> HIDE DEF f
  <2>4. h.app \in App /\ f \in Worlds /\ f.app \in App
    BY <2>2, <2>3 DEF Core, Flushed, Worlds
  <2>5. v \in Worlds /\ v.app = [f.app EXCEPT !.armed = FALSE, !.slot = t]
        /\ v.evdev = f.evdev /\ v.tv = f.tv /\ v.server = f.server
    BY <2>4 DEF Worlds, App
  <2> HIDE DEF v
  <2>6. /\ v.evdev = h.evdev /\ v.tv = h.tv
        /\ v.app = [h.app EXCEPT !.held = {}, !.armed = FALSE, !.slot = t]
        /\ \A s \in Slots : v.server[s].down = {} /\ v.server[s].state = h.server[s].state
    BY <2>3, <2>5 DEF Flushed
  <2>7. /\ v.app.slot = t /\ ~v.app.armed /\ v.app.held = {}
        /\ v.app.streaming = h.app.streaming
        /\ v.app.panel = h.app.panel /\ v.app.mask = h.app.mask
        /\ v.app.unfocused = h.app.unfocused /\ v.app.away = h.app.away
        /\ v.app.sampling = h.app.sampling
        /\ v.app.batch = h.app.batch /\ v.app.last = h.app.last /\ v.app.phase = h.app.phase
    BY <2>4, <2>6 DEF App
  <2>8. Quiet(v) /\ SameStates(w, v)
    BY <2>2, <2>6, <2>7 DEF Quiet, SameStates, Hidden
  <2>9. PanelOK(v)
    BY <2>2, <2>7, <2>8 DEF Core, PanelOK, SameStates
  <2>10. ~v.app.sampling
    BY <2>2, <2>7 DEF Hidden
  <2>11. IdleOK(v) /\ GrabOK(v) /\ FocusOK(v)
    BY <2>2, <2>6, <2>7 DEF Core, IdleOK, GrabOK, FocusOK, Focused
  <2>12. ArmedOK(v) /\ HeldOK(v) /\ ClicksOK(v)
    BY <2>8 DEF Quiet, ArmedOK, HeldOK, ClicksOK, Clicks
  <2>13. QueuedOK(v) /\ MaskOK(v)
    BY <2>2, <2>6, <2>7 DEF Core, QueuedOK, OpenOn, MaskOK, Excused, DownOn
  <2>14. Core(v)
    BY <2>2, <2>5, <2>6, <2>9, <2>11, <2>12, <2>13 DEF Core
  <2>15. Within(h, v)
    BY <2>6, <2>7 DEF Within, SamePlace
  <2>16. Within(w, v)
    BY <2>2, <2>15, WithinTwice
  <2> QED
    BY <2>1, <2>7, <2>8, <2>10, <2>14, <2>16
<1> QED
  BY <1>1, <1>2

LEMMA ResumeKeeps ==
    ASSUME NEW w, Core(w), ~w.evdev.sweeping
    PROVE  Core(Resume(w)) /\ Within(w, Resume(w))
<1>1. CASE ~Focused(w) \/ ~w.app.streaming \/ ~Connected(w) \/ w.app.panel
  BY <1>1, WithinItself DEF Resume
<1>2. CASE ~(~Focused(w) \/ ~w.app.streaming \/ ~Connected(w) \/ w.app.panel)
  BY <1>2, StartKeeps DEF Resume
<1> QED
  BY <1>1, <1>2

LEMMA RequestSwitchKeeps ==
    ASSUME NEW w, Core(w), ~w.evdev.sweeping, ~w.app.sampling, NEW t \in Slots
    PROVE  Core(RequestSwitch(w, t)) /\ Within(w, RequestSwitch(w, t))
<1> DEFINE out == [w EXCEPT !.app.hub = FALSE]
           x == Stop(w)
<1>1. w \in Worlds /\ w.app \in App
  BY DEF Core, Worlds
<1>2. /\ out \in Worlds /\ out.app = [w.app EXCEPT !.hub = FALSE]
      /\ out.evdev = w.evdev /\ out.tv = w.tv /\ out.server = w.server
  BY <1>1 DEF Worlds, App
<1> HIDE DEF out
<1>3. /\ SameScreen(w, out) /\ SamePlace(w, out) /\ out.app.sampling = w.app.sampling
      /\ out.app.mask = w.app.mask /\ out.app.held = w.app.held /\ out.app.armed = w.app.armed
  BY <1>1, <1>2 DEF App, SameScreen, SamePlace
<1>4. Core(out) /\ Within(w, out)
  <2>1. HeldOK(out)
    BY <1>2, <1>3 DEF Core, HeldOK, SameScreen
  <2>2. Eases(w, out)
    BY <1>2, <1>3, <2>1 DEF Eases, SameReader, SameStates
  <2> QED
    BY <2>2, EasesKeeps
<1>5. CASE w.app.panel
  BY <1>5, HideKeeps, WithinItself DEF RequestSwitch
<1>6. CASE ~w.app.panel /\ w.server[t].state = "active"
  <2>1. CASE t = w.app.slot /\ w.app.streaming
    <3>1. RequestSwitch(w, t) = ShowPanel(out)
      BY <1>6, <2>1 DEF RequestSwitch, out
    <3>2. Core(ShowPanel(out)) /\ Within(out, ShowPanel(out))
      BY <1>2, <1>3, <1>4, <1>6, <2>1, ShowPanelKeeps DEF SameScreen
    <3> QED
      BY <1>4, <3>1, <3>2, WithinTwice
  <2>2. CASE ~(t = w.app.slot /\ w.app.streaming)
    <3>1. RequestSwitch(w, t) = Handoff(out, t)
      BY <1>6, <2>2 DEF RequestSwitch, out
    <3>2. Core(Handoff(out, t)) /\ Within(out, Handoff(out, t))
      BY <1>2, <1>3, <1>4, <1>6, HandoffKeeps
    <3> QED
      BY <1>4, <3>1, <3>2, WithinTwice
  <2> QED
    BY <2>1, <2>2
<1>7. CASE ~w.app.panel /\ w.server[t].state = "gone" /\ t # w.app.slot
  <2> DEFINE v == [x EXCEPT !.app.slot = t, !.app.streaming = FALSE]
  <2>1. RequestSwitch(w, t) = v
    BY <1>7 DEF RequestSwitch
  <2>2. Core(x) /\ Within(w, x) /\ Stopped(w, x) /\ ~x.app.sampling
    BY CoreIsStopReady, StopKeeps
  <2> HIDE DEF x
  <2>3. x.app \in App /\ x \in Worlds
    BY <2>2 DEF Core, Worlds
  <2>4. v \in Worlds /\ v.app = [x.app EXCEPT !.slot = t, !.streaming = FALSE]
        /\ v.evdev = x.evdev /\ v.tv = x.tv /\ v.server = x.server
    BY <2>3 DEF Worlds, App
  <2> HIDE DEF v
  <2>5. /\ ~v.app.streaming /\ v.app.panel = x.app.panel /\ v.app.mask = x.app.mask
        /\ v.app.unfocused = x.app.unfocused /\ v.app.away = x.app.away
        /\ v.app.sampling = x.app.sampling /\ v.app.held = x.app.held
        /\ v.app.armed = x.app.armed
        /\ v.app.batch = x.app.batch /\ v.app.last = x.app.last /\ v.app.phase = x.app.phase
    BY <2>3, <2>4 DEF App
  <2>6. Quiet(x) /\ ~x.evdev.started /\ ~x.app.panel
    BY <1>7, <2>2 DEF Stopped, SameScreen, Idle
  <2>7. Quiet(v)
    BY <2>4, <2>5, <2>6 DEF Quiet
  <2>8. PanelOK(v)
    BY <2>2, <2>5, <2>6 DEF PanelOK
  <2>9. Core(v) /\ Within(x, v)
    <3>1. v.app.streaming = x.app.streaming \/ (~x.evdev.started /\ ~x.app.panel)
      BY <2>6
    <3> QED
      BY <2>2, <2>4, <2>5, <2>6, <2>7, <2>8, <3>1, QuietRetarget
  <2> QED
    BY <2>1, <2>2, <2>9, WithinTwice
<1>8. CASE ~w.app.panel /\ w.server[t].state = "gone" /\ t = w.app.slot
  <2> DEFINE v == [w EXCEPT !.app.slot = t, !.app.streaming = FALSE]
  <2>1. RequestSwitch(w, t) = v
    BY <1>8 DEF RequestSwitch
  <2>2. w.app.streaming = FALSE
    BY <1>1, <1>8 DEF Core, PanelOK, App
  <2>3. v \in Worlds /\ v.app = [w.app EXCEPT !.slot = t, !.streaming = FALSE]
        /\ v.evdev = w.evdev /\ v.tv = w.tv /\ v.server = w.server
    BY <1>1 DEF Worlds, App
  <2> HIDE DEF v
  <2>4. /\ SameScreen(w, v) /\ SamePlace(w, v) /\ v.app.sampling = w.app.sampling
        /\ v.app.mask = w.app.mask /\ v.app.held = w.app.held /\ v.app.armed = w.app.armed
    BY <1>1, <1>8, <2>2, <2>3 DEF App, SameScreen, SamePlace
  <2>5. HeldOK(v)
    BY <2>3, <2>4 DEF Core, HeldOK, SameScreen
  <2>6. Eases(w, v)
    BY <2>3, <2>4, <2>5 DEF Eases, SameReader, SameStates
  <2> QED
    BY <2>1, <2>6, EasesKeeps
<1>9. CASE ~w.app.panel /\ w.server[t].state \notin {"active", "gone"}
  BY <1>9, WithinItself DEF RequestSwitch
<1> QED
  BY <1>5, <1>6, <1>7, <1>8, <1>9

-----------------------------------------------------------------------------
(* What is sent and tracked.                                               *)

Sent(w, v, c, d) ==
    /\ v \in Worlds /\ v.tv = w.tv /\ v.evdev = w.evdev
    /\ SameScreen(w, v) /\ SamePlace(w, v) /\ SameStates(w, v)
    /\ v.app.sampling = w.app.sampling /\ v.app.mask = w.app.mask
    /\ v.app.armed = w.app.armed
    /\ v.app.held = IF d THEN w.app.held \cup {c} ELSE w.app.held \ {c}
    /\ HeldOK(v)

LEMMA SentIsTracked ==
    ASSUME NEW w \in Worlds, HeldOK(w), NEW c \in Forwarded, NEW d
    PROVE  Sent(w, Track(Send(w, c, d), c, d), c, d)
<1> DEFINE s0 == w.app.slot
           Apply(S) == IF d THEN S \cup {c} ELSE S \ {c}
           u == Send(w, c, d)
           v == Track(u, c, d)
<1>1. s0 \in Slots /\ w.server \in [Slots -> Server] /\ w.app \in App
  BY DEF Worlds, App
<1>2. \A S \in SUBSET Forwarded : Apply(S) \in SUBSET Forwarded
  OBVIOUS
<1> HIDE DEF Apply
<1>3. /\ u \in Worlds /\ u.app = w.app /\ u.evdev = w.evdev /\ u.tv = w.tv
      /\ SameStates(w, u)
      /\ \A s \in Slots : s # s0 => u.server[s].down = w.server[s].down
      /\ \/ u.server[s0].down = {}
         \/ /\ u.server[s0].down = Apply(w.server[s0].down)
            /\ w.app.armed /\ w.server[s0].state = "active"
  <2>1. CASE ~(Ready(w) /\ Connected(w))
    <3>1. u = w
      BY <2>1 DEF Send
    <3>2. w.server[s0].down = {}
      BY <1>1, <2>1 DEF HeldOK, Ready, Connected
    <3> QED
      BY <3>1, <3>2 DEF SameStates
  <2>2. CASE Ready(w) /\ Connected(w)
    <3> DEFINE r == [w.server[s0] EXCEPT !.down = Apply(w.server[s0].down)]
               f == [w.server EXCEPT ![s0] = r]
    <3>1. u = [w EXCEPT !.server = f]
      BY <2>2 DEF Send, Apply
    <3>2. w.server[s0] \in Server
      BY <1>1
    <3>3. /\ r \in Server /\ r.state = w.server[s0].state
          /\ r.down = Apply(w.server[s0].down)
      BY <1>2, <3>2 DEF Server
    <3> HIDE DEF r
    <3>4. f \in [Slots -> Server] /\ f[s0] = r /\ \A s \in Slots : s # s0 => f[s] = w.server[s]
      BY <1>1, <3>3
    <3> HIDE DEF f, u
    <3>5. u \in Worlds /\ u.app = w.app /\ u.evdev = w.evdev /\ u.tv = w.tv /\ u.server = f
      BY <3>1, <3>4 DEF Worlds
    <3>6. SameStates(w, u)
      BY <1>1, <3>3, <3>4, <3>5 DEF SameStates
    <3> QED
      BY <2>2, <3>3, <3>4, <3>5, <3>6 DEF Ready, Connected
  <2> QED
    BY <2>1, <2>2
<1> HIDE DEF u
<1>4. v = [u EXCEPT !.app.held = Apply(w.app.held)]
  BY <1>3 DEF Track, Apply
<1>5. w.app.held \in SUBSET Forwarded
  BY <1>1 DEF App
<1> HIDE DEF v
<1>6. Apply(w.app.held) \in SUBSET Forwarded
  BY <1>2, <1>5
<1>7. /\ v \in Worlds /\ v.app = [w.app EXCEPT !.held = Apply(w.app.held)]
      /\ v.evdev = w.evdev /\ v.tv = w.tv /\ v.server = u.server
  <2>1. v.app = [u.app EXCEPT !.held = Apply(w.app.held)] /\ v.evdev = u.evdev /\ v.tv = u.tv
        /\ v.server = u.server
    BY <1>3, <1>4 DEF Worlds
  <2>2. [u.app EXCEPT !.held = Apply(w.app.held)] \in App
    BY <1>1, <1>3, <1>6 DEF App
  <2>3. v \in Worlds
    BY <1>3, <1>4, <2>2 DEF Worlds
  <2> QED
    BY <1>3, <2>1, <2>3
<1>8. /\ SameScreen(w, v) /\ SamePlace(w, v) /\ v.app.sampling = w.app.sampling
      /\ v.app.mask = w.app.mask /\ v.app.armed = w.app.armed
      /\ v.app.held = Apply(w.app.held)
  BY <1>1, <1>7 DEF App, SameScreen, SamePlace
<1>9. SameStates(w, v)
  BY <1>3, <1>7 DEF SameStates
<1>10. HeldOK(v)
  <2>1. \A S, T : S \subseteq T => Apply(S) \subseteq Apply(T)
    BY DEF Apply
  <2>2. ASSUME NEW s \in Slots, v.server[s].down # {}, s # s0 PROVE FALSE
    BY <1>3, <1>7, <2>2 DEF HeldOK
  <2>3. ASSUME v.server[s0].down # {}
        PROVE  v.server[s0].down \subseteq v.app.held /\ v.app.armed
               /\ v.server[s0].state = "active"
    <3>1. CASE u.server[s0].down = {}
      BY <1>7, <2>3, <3>1
    <3>2. CASE /\ u.server[s0].down = Apply(w.server[s0].down)
               /\ w.app.armed /\ w.server[s0].state = "active"
      <4>1. w.server[s0].down \subseteq w.app.held
        BY <1>1 DEF HeldOK
      <4> QED
        BY <1>1, <1>7, <1>8, <1>9, <2>1, <3>2, <4>1 DEF SameStates
    <3> QED
      BY <1>3, <3>1, <3>2
  <2> QED
    BY <1>8, <2>2, <2>3 DEF HeldOK, SameScreen
<1> QED
  BY <1>7, <1>8, <1>9, <1>10 DEF Sent, Apply, u, v

-----------------------------------------------------------------------------
(* The operators of the tick.                                              *)

LEMMA BuriedKeeps ==
    ASSUME NEW w, Core(w), ~w.evdev.sweeping, NEW s \in Slots,
           w.server[s].state # "active", s # w.app.slot \/ ~w.app.streaming
    PROVE  /\ Core(Buried(w, s)) /\ Within(w, Buried(w, s))
           /\ Buried(w, s).app.sampling = w.app.sampling
<1> DEFINE off == IF s = w.app.slot THEN [w EXCEPT !.app.armed = FALSE] ELSE w
           gone == [state |-> "gone", down |-> {}]
           f == [w.server EXCEPT ![s] = gone]
           v == Buried(w, s)
<1>1. w \in Worlds /\ w.app \in App /\ w.server \in [Slots -> Server] /\ w.app.slot \in Slots
  BY DEF Core, Worlds, App
<1>2. /\ off \in Worlds /\ off.evdev = w.evdev /\ off.tv = w.tv /\ off.server = w.server
      /\ off.app = [w.app EXCEPT !.armed = off.app.armed]
      /\ off.app.armed => w.app.armed /\ s # w.app.slot
      /\ s # w.app.slot => off.app.armed = w.app.armed
  <2>1. CASE s # w.app.slot
    <3>1. off = w
      BY <2>1
    <3> HIDE DEF off
    <3>2. w.app = [w.app EXCEPT !.armed = w.app.armed]
      BY <1>1 DEF App
    <3> QED
      BY <1>1, <2>1, <3>1, <3>2
  <2>2. CASE s = w.app.slot
    <3>1. off = [w EXCEPT !.app.armed = FALSE]
      BY <2>2
    <3> HIDE DEF off
    <3>2. off \in Worlds /\ off.evdev = w.evdev /\ off.tv = w.tv /\ off.server = w.server
          /\ off.app = [w.app EXCEPT !.armed = FALSE]
      BY <1>1, <3>1 DEF Worlds, App
    <3>3. off.app.armed = FALSE
      BY <1>1, <3>2 DEF App
    <3> QED
      BY <2>2, <3>2, <3>3
  <2> QED
    BY <2>1, <2>2
<1>3. v = [off EXCEPT !.server = f]
  BY <1>2 DEF Buried
<1> HIDE DEF off
<1>4. /\ f \in [Slots -> Server] /\ f[s] = gone
      /\ \A z \in Slots : z # s => f[z] = w.server[z]
  BY <1>1 DEF Server
<1> HIDE DEF f, v
<1>5. v \in Worlds /\ v.app = off.app /\ v.evdev = w.evdev /\ v.tv = w.tv /\ v.server = f
  BY <1>2, <1>3, <1>4 DEF Worlds
<1>6. /\ SameScreen(w, v) /\ SamePlace(w, v) /\ v.app.sampling = w.app.sampling
      /\ v.app.mask = w.app.mask /\ v.app.held = w.app.held
  <2>1. v.app = [w.app EXCEPT !.armed = v.app.armed]
    BY <1>2, <1>5
  <2> QED
    BY <1>1, <1>5, <2>1 DEF App, SameScreen, SamePlace
<1>7. HeldOK(v)
  BY <1>2, <1>4, <1>5, <1>6 DEF Core, HeldOK, SameScreen
<1>8. PanelOK(v)
  BY <1>1, <1>4, <1>5, <1>6 DEF Core, PanelOK, SameScreen
<1>9. IdleOK(v) /\ GrabOK(v) /\ FocusOK(v) /\ ArmedOK(v)
  BY <1>2, <1>5, <1>6 DEF Core, IdleOK, GrabOK, FocusOK, ArmedOK, Focused, SameScreen, SamePlace
<1>10. QueuedOK(v) /\ MaskOK(v)
  BY <1>5, <1>6 DEF Core, QueuedOK, OpenOn, MaskOK, Excused, DownOn, SameScreen
<1>11. ClicksOK(v)
  BY <1>5, <1>6 DEF Core, ClicksOK, Clicks, Excused, DownOn, SameScreen
<1>12. Core(v)
  BY <1>5, <1>7, <1>8, <1>9, <1>10, <1>11 DEF Core
<1>13. Within(w, v)
  BY <1>5, <1>6 DEF Within
<1> QED
  BY <1>6, <1>12, <1>13 DEF v

\* The session on screen ends with no other to show: the stream is stopped, the slot
\* buried and the panel closed, whatever it was waiting for.
LEMMA LastBuriedKeeps ==
    ASSUME NEW w, Core(w), ~w.evdev.sweeping, ~w.app.sampling
    PROVE  LET v == ForceHide([Buried(Stop(w), w.app.slot) EXCEPT !.app.streaming = FALSE])
           IN  Core(v) /\ Within(w, v) /\ ~v.app.sampling
<1> DEFINE x == Stop(w)
           s == w.app.slot
           gone == [state |-> "gone", down |-> {}]
           f == [x.server EXCEPT ![s] = gone]
           b == Buried(x, s)
           c == [b EXCEPT !.app.streaming = FALSE]
           d == [c EXCEPT !.app.dismiss = None, !.app.closing = FALSE, !.app.mask = {}]
           v == ForceHide(c)
<1>1. Core(x) /\ Within(w, x) /\ Stopped(w, x) /\ ~x.app.sampling
  BY CoreIsStopReady, StopKeeps
<1> HIDE DEF x
<1>2. /\ x \in Worlds /\ x.app \in App /\ x.server \in [Slots -> Server] /\ x.app.slot = s
      /\ x.app.armed = FALSE /\ s \in Slots /\ Quiet(x) /\ Idle(x)
  BY <1>1 DEF Core, Worlds, App, Stopped, SameScreen, Quiet
<1>3. b = [x EXCEPT !.server = f]
  BY <1>2, DisarmedIsSame DEF Buried
<1>4. f \in [Slots -> Server] /\ \A z \in Slots : f[z].down = {}
  BY <1>2 DEF Server, Quiet
<1> HIDE DEF f, b, s
<1>5. b \in Worlds /\ b.app = x.app /\ b.evdev = x.evdev /\ b.tv = x.tv /\ b.server = f
  BY <1>2, <1>3, <1>4 DEF Worlds
<1>6. c \in Worlds /\ c.app = [x.app EXCEPT !.streaming = FALSE]
      /\ c.evdev = x.evdev /\ c.tv = x.tv /\ c.server = f
  BY <1>2, <1>5 DEF Worlds, App
<1> HIDE DEF c
<1>7. /\ d \in Worlds /\ d.evdev = x.evdev /\ d.tv = x.tv /\ d.server = f
      /\ d.app = [x.app EXCEPT !.streaming = FALSE, !.dismiss = None, !.closing = FALSE,
                               !.mask = {}]
  <2>1. d.app = [c.app EXCEPT !.dismiss = None, !.closing = FALSE, !.mask = {}]
        /\ d.evdev = c.evdev /\ d.tv = c.tv /\ d.server = c.server
    BY <1>6 DEF Worlds
  <2>2. d.app \in App
    BY <1>6, <2>1 DEF Worlds, App
  <2>3. d \in Worlds
    BY <1>6 DEF Worlds, App
  <2> QED
    BY <1>6, <2>1, <2>3
<1>8. v = Hide(d)
  BY DEF ForceHide
<1> HIDE DEF d
<1>9. ~d.app.streaming /\ d.app.dismiss = None /\ d.app.mask = {}
  BY <1>2, <1>7 DEF App
<1> DEFINE e == [d EXCEPT !.app.panel = FALSE, !.app.drag = FALSE, !.app.closing = FALSE]
<1>10. v = IF ~d.app.panel THEN d ELSE e
  BY <1>8, <1>9 DEF Hide
<1>11. e \in Worlds /\ e.evdev = x.evdev /\ e.tv = x.tv /\ e.server = f
       /\ e.app = [d.app EXCEPT !.panel = FALSE, !.drag = FALSE, !.closing = FALSE]
  BY <1>7 DEF Worlds, App
<1> HIDE DEF e, v
<1>12. /\ ~d.app.armed /\ d.app.held = {} /\ ~d.app.sampling
       /\ d.app.unfocused = x.app.unfocused
       /\ d.app.batch = x.app.batch /\ d.app.last = x.app.last /\ d.app.phase = x.app.phase
  BY <1>1, <1>2, <1>7 DEF App, Quiet
<1>13. /\ ~e.app.armed /\ e.app.held = {} /\ ~e.app.sampling /\ ~e.app.streaming /\ ~e.app.panel
       /\ e.app.unfocused = x.app.unfocused
       /\ e.app.batch = x.app.batch /\ e.app.last = x.app.last /\ e.app.phase = x.app.phase
  <2>1. d.app \in App
    BY <1>7 DEF Worlds
  <2> QED
    BY <1>9, <1>11, <1>12, <2>1 DEF App
<1>14. /\ v \in Worlds /\ v.evdev = x.evdev /\ v.tv = x.tv /\ v.server = f
       /\ ~v.app.armed /\ v.app.held = {} /\ ~v.app.sampling /\ ~v.app.streaming /\ ~v.app.panel
       /\ v.app.unfocused = x.app.unfocused
       /\ v.app.batch = x.app.batch /\ v.app.last = x.app.last /\ v.app.phase = x.app.phase
  BY <1>7, <1>9, <1>10, <1>11, <1>12, <1>13
<1>15. Idle(v) /\ Quiet(v)
  BY <1>2, <1>4, <1>14 DEF Idle, Emptied, Quiet
<1>16. PanelOK(v) /\ FocusOK(v) /\ MaskOK(v)
  BY <1>1, <1>14 DEF Core, PanelOK, FocusOK, MaskOK
<1>17. QueuedOK(v) /\ v.tv.sdl \in Seq(Signal)
  BY <1>1, <1>14 DEF Core, QueuedOK, OpenOn
<1>18. Core(v)
  BY <1>14, <1>15, <1>16, <1>17, QuietIsCore
<1>19. Within(x, v)
  BY <1>14 DEF Within, SamePlace
<1>20. Within(w, v)
  BY <1>1, <1>19, WithinTwice
<1> QED
  BY <1>14, <1>18, <1>20 DEF v, c, b, x, s

LEMMA SupervisedKeeps ==
    ASSUME NEW w, Core(w), ~w.evdev.sweeping, ~w.app.sampling
    PROVE  /\ Core(Supervised(w)) /\ Within(w, Supervised(w))
           /\ ~Supervised(w).app.sampling
<1> DEFINE ended == {s \in Slots : w.server[s].state = "ended"}
           s == CHOOSE x \in ended : TRUE
<1>1. CASE ended = {}
  <2>1. Supervised(w) = w
    BY <1>1 DEF Supervised
  <2> QED
    BY <2>1, WithinItself
<1>2. CASE ended # {}
  <2>1. s \in Slots /\ w.server[s].state = "ended"
    BY <1>2
  <2>2. Supervised(w) =
            IF s # w.app.slot \/ (Survivors(w) # {} /\ ~w.app.streaming) THEN Buried(w, s)
            ELSE IF Survivors(w) # {}
            THEN Buried(Handoff(w, CHOOSE x \in Survivors(w) : TRUE), s)
            ELSE ForceHide([Buried(Stop(w), s) EXCEPT !.app.streaming = FALSE])
    BY <1>2 DEF Supervised
  <2> HIDE DEF s, ended
  <2>3. CASE s # w.app.slot \/ (Survivors(w) # {} /\ ~w.app.streaming)
    <3>1. /\ Core(Buried(w, s)) /\ Within(w, Buried(w, s))
          /\ Buried(w, s).app.sampling = w.app.sampling
      BY <2>1, <2>3, BuriedKeeps
    <3> QED
      BY <2>2, <2>3, <3>1
  <2>4. CASE s = w.app.slot /\ Survivors(w) # {} /\ w.app.streaming
    <3> DEFINE t == CHOOSE x \in Survivors(w) : TRUE
               h == Handoff(w, t)
    <3>1. t \in Slots /\ t # w.app.slot /\ w.server[t].state = "active"
      BY <2>4 DEF Survivors
    <3>2. Supervised(w) = Buried(h, s)
      BY <2>2, <2>4
    <3> HIDE DEF t
    <3>3. Core(h) /\ Within(w, h) /\ SameStates(w, h) /\ h.app.slot = t /\ ~h.app.sampling
      BY <3>1, HandoffKeeps
    <3>4. ~h.evdev.sweeping
      BY <3>3 DEF Within, Emptied
    <3> HIDE DEF h
    <3>5. h.server[s].state # "active" /\ s # h.app.slot
      BY <2>1, <2>4, <3>1, <3>3 DEF SameStates
    <3>6. /\ Core(Buried(h, s)) /\ Within(h, Buried(h, s))
          /\ Buried(h, s).app.sampling = h.app.sampling
      BY <2>1, <3>3, <3>4, <3>5, BuriedKeeps
    <3> QED
      BY <3>2, <3>3, <3>6, WithinTwice
  <2>5. CASE s = w.app.slot /\ Survivors(w) = {}
    <3>1. Supervised(w) = ForceHide([Buried(Stop(w), w.app.slot) EXCEPT !.app.streaming = FALSE])
      BY <2>2, <2>5
    <3> QED
      BY <3>1, LastBuriedKeeps
  <2> QED
    BY <2>3, <2>4, <2>5
<1> QED
  BY <1>1, <1>2

LEMMA ArmedKeeps ==
    ASSUME NEW w, Core(w), ~w.evdev.sweeping, w.app.phase \notin {"sdl", "pump"}
    PROVE  /\ Core(Armed(w)) /\ Within(w, Armed(w))
           /\ Armed(w).app.sampling = w.app.sampling
           /\ Armed(w).app.armed => Focused(Armed(w))
<1> DEFINE A == w.app.streaming /\ Connected(w) /\ ~w.app.panel /\ Focused(w)
           v == [w EXCEPT !.app.armed = A]
<1>1. w \in Worlds /\ w.app \in App
  BY DEF Core, Worlds
<1>2. A \in BOOLEAN
  BY <1>1 DEF App
<1>3. Armed(w) = v
  BY DEF Armed
<1> HIDE DEF A
<1>4. v \in Worlds /\ v.app = [w.app EXCEPT !.armed = A]
      /\ v.evdev = w.evdev /\ v.tv = w.tv /\ v.server = w.server
  BY <1>1, <1>2 DEF Worlds, App
<1> HIDE DEF v
<1>5. /\ SameScreen(w, v) /\ SamePlace(w, v) /\ v.app.sampling = w.app.sampling
      /\ v.app.mask = w.app.mask /\ v.app.held = w.app.held /\ v.app.armed = A
  BY <1>1, <1>4 DEF App, SameScreen, SamePlace
<1>6. HeldOK(v)
  BY <1>4, <1>5 DEF Core, HeldOK, ArmedOK, SameScreen, A, Connected
<1>7. ArmedOK(v) /\ (v.app.armed => Focused(v))
  BY <1>5 DEF ArmedOK, Focused, SameScreen, A
<1>8. IdleOK(v) /\ GrabOK(v) /\ FocusOK(v) /\ PanelOK(v)
  BY <1>4, <1>5 DEF Core, IdleOK, GrabOK, FocusOK, PanelOK, Focused, SameScreen
<1>9. QueuedOK(v) /\ MaskOK(v)
  BY <1>4, <1>5 DEF Core, QueuedOK, OpenOn, MaskOK, Excused, DownOn, SameScreen
<1>10. ClicksOK(v)
  BY <1>4, <1>5 DEF Core, ClicksOK, Clicks, Excused, DownOn, SameScreen
<1>11. Core(v) /\ Within(w, v)
  BY <1>4, <1>5, <1>6, <1>7, <1>8, <1>9, <1>10 DEF Core, Within
<1> QED
  BY <1>3, <1>5, <1>7, <1>11

LEMMA EnteredKeeps ==
    ASSUME NEW w, Core(w), ~w.evdev.sweeping, ~w.app.sampling
    PROVE  /\ Core(Entered(w)) /\ Within(w, Entered(w))
           /\ Entered(w).app.sampling = w.app.sampling
           /\ Entered(w).app.armed = w.app.armed
           /\ Focused(w) => Focused(Entered(w))
<1>1. CASE ~Connected(w) \/ w.app.streaming \/ w.app.hub
  <2>1. Entered(w) = w
    BY <1>1 DEF Entered
  <2> QED
    BY <2>1, WithinItself
<1>2. CASE Connected(w) /\ ~w.app.streaming /\ ~w.app.hub
  <2> DEFINE y == [w EXCEPT !.app.streaming = TRUE]
  <2>1. w \in Worlds /\ w.app \in App
    BY DEF Core, Worlds
  <2>2. y \in Worlds /\ y.app = [w.app EXCEPT !.streaming = TRUE]
        /\ y.evdev = w.evdev /\ y.tv = w.tv /\ y.server = w.server
    BY <2>1 DEF Worlds, App
  <2>3. Entered(w) = Start(y)
    <3> DEFINE e == [w.evdev EXCEPT !.started = TRUE, !.running = TRUE,
                                    !.grabbed = w.tv.plugged]
               t == [w.tv EXCEPT !.stale = (w.tv.stale \cap w.app.held)
                                               \cup Queued(w, Len(w.tv.sdl))]
    <3>1. Focused(y) = Focused(w) /\ Queued(y, Len(y.tv.sdl)) = Queued(w, Len(w.tv.sdl))
          /\ y.app.held = w.app.held
      BY <2>1, <2>2 DEF App, Focused, Queued
    <3>2. Start(w) = IF ~Focused(w) \/ w.evdev.started THEN w
                     ELSE [w EXCEPT !.evdev = e, !.tv = t]
      BY DEF Start
    <3>3. Start(y) = IF ~Focused(w) \/ w.evdev.started THEN y
                     ELSE [y EXCEPT !.evdev = e, !.tv = t]
      <4> DEFINE e1 == [y.evdev EXCEPT !.started = TRUE, !.running = TRUE,
                                       !.grabbed = y.tv.plugged]
                 t1 == [y.tv EXCEPT !.stale = (y.tv.stale \cap y.app.held)
                                                  \cup Queued(y, Len(y.tv.sdl))]
      <4> HIDE DEF y
      <4>1. Start(y) = IF ~Focused(y) \/ y.evdev.started THEN y
                       ELSE [y EXCEPT !.evdev = e1, !.tv = t1]
        BY DEF Start
      <4>2. e1 = e /\ t1 = t
        BY <2>2, <3>1
      <4> HIDE DEF e1, t1, e, t
      <4>3. Focused(y) = Focused(w) /\ y.evdev.started = w.evdev.started
        BY <2>2, <3>1
      <4> QED
        BY <4>1, <4>2, <4>3
    <3>4. Entered(w) = [Start(w) EXCEPT !.app.streaming = TRUE]
      BY <1>2 DEF Entered
    <3> HIDE DEF e, t
    <3>5. [[w EXCEPT !.evdev = e, !.tv = t] EXCEPT !.app.streaming = TRUE]
              = [y EXCEPT !.evdev = e, !.tv = t]
      BY <2>1 DEF Worlds
    <3> QED
      BY <3>2, <3>3, <3>4, <3>5
  <2> HIDE DEF y
  <2>4. /\ SamePlace(w, y) /\ y.app.sampling = w.app.sampling
        /\ y.app.streaming /\ y.app.panel = w.app.panel /\ y.app.slot = w.app.slot
        /\ y.app.unfocused = w.app.unfocused /\ y.app.away = w.app.away
        /\ y.app.mask = w.app.mask /\ y.app.held = w.app.held /\ y.app.armed = w.app.armed
    BY <2>1, <2>2 DEF App, SamePlace
  <2>5. ~w.app.panel /\ ~w.evdev.started /\ ~w.app.armed
    BY <1>2 DEF Core, PanelOK, GrabOK, ArmedOK
  <2>6. IdleOK(y) /\ GrabOK(y) /\ FocusOK(y) /\ PanelOK(y) /\ ArmedOK(y) /\ HeldOK(y)
    BY <1>2, <2>2, <2>4, <2>5 DEF Core, IdleOK, GrabOK, FocusOK, PanelOK, ArmedOK, HeldOK, Connected
  <2>7. QueuedOK(y) /\ MaskOK(y)
    BY <2>2, <2>4, <2>5 DEF Core, QueuedOK, OpenOn, MaskOK
  <2>8. ClicksOK(y)
    BY <2>2, <2>4 DEF Core, ClicksOK, Clicks, Excused, DownOn
  <2>9. Core(y) /\ Within(w, y)
    BY <2>2, <2>4, <2>6, <2>7, <2>8 DEF Core, Within
  <2>10. Core(Start(y)) /\ Within(y, Start(y)) /\ Start(y).app = y.app
    BY <2>2, <2>4, <2>5, <2>9, StartKeeps
  <2>11. Within(w, Start(y))
    BY <2>9, <2>10, WithinTwice
  <2> QED
    BY <2>3, <2>4, <2>10, <2>11 DEF Focused
<1> QED
  BY <1>1, <1>2

-----------------------------------------------------------------------------
(* The events SDL gives out: o is the world before the i-th is taken, v after. *)

Popped(o, v, i) ==
    /\ v \in Worlds /\ v.app = o.app /\ v.evdev = o.evdev /\ v.server = o.server
    /\ v.tv.pressed = o.tv.pressed /\ v.tv.focus = o.tv.focus /\ v.tv.now = o.tv.now
    /\ v.tv.fd = o.tv.fd /\ v.tv.hung = o.tv.hung
    /\ o.tv.stale \subseteq v.tv.stale
    /\ i \in DOMAIN o.tv.sdl /\ Without(o.tv.sdl, i, v.tv.sdl)

\* What is the same whatever was taken.
LEMMA PoppedKeepsScreen ==
    ASSUME NEW o, Core(o), NEW v, NEW i, Popped(o, v, i)
    PROVE  /\ v.tv.sdl \in Seq(Signal) /\ IdleOK(v) /\ PanelOK(v) /\ HeldOK(v)
           /\ v.evdev.started => ~v.app.panel
           /\ v.app.panel => ~v.app.armed /\ Clicks(v) = {}
<1>1. v.tv.sdl \in Seq(Signal)
  BY DEF Popped, Without
<1>2. IdleOK(v)
  BY DEF Core, Popped, IdleOK
<1>3. PanelOK(v) /\ HeldOK(v)
  BY DEF Core, Popped, PanelOK, HeldOK
<1>4. /\ v.evdev.started => ~v.app.panel
      /\ v.app.panel => ~v.app.armed /\ Clicks(v) = {}
  BY DEF Core, Popped, GrabOK, ArmedOK, ClicksOK, Clicks
<1> QED
  BY <1>1, <1>2, <1>3, <1>4

LEMMA OtherPopped ==
    ASSUME NEW o, Core(o), NEW v, NEW i, Popped(o, v, i),
           o.tv.sdl[i].kind \notin {"lost", "button"}
    PROVE  /\ Core(v)
           /\ o.tv.sdl[i].kind \in {"gained", "back"} /\ v.tv.focus # "ours" => LossIn(v.tv.sdl)
<1> DEFINE s == o.tv.sdl
           r == v.tv.sdl
<1>1. s \in Seq(Signal) /\ i \in DOMAIN s /\ Without(s, i, r)
  BY DEF Core, Popped
<1>2. /\ LossIn(s) => LossIn(r)
      /\ LostAgain(s) => LostAgain(r)
      /\ LostAgain(s) /\ s[i].kind \in {"gained", "back"} => LossIn(r)
  BY <1>1, NewsWithout
<1>3. \A b : ~Mentions(s[i], b)
  BY DEF Mentions
<1>4. \A b : (Silent(r, b) => Silent(s, b)) /\ (LeavesDown(r, b) => LeavesDown(s, b))
  BY <1>1, <1>3, ButtonWithout
<1> HIDE DEF s, r
<1>5. GrabOK(v) /\ FocusOK(v) /\ ArmedOK(v)
  BY <1>2 DEF Core, Popped, GrabOK, FocusOK, ArmedOK, Focused, s, r
<1>6. \A b : Excused(o, b) => Excused(v, b)
  BY DEF Popped, Excused, DownOn
<1>7. QueuedOK(v)
  BY <1>4 DEF Core, Popped, QueuedOK, OpenOn, s, r
<1>8. MaskOK(v)
  BY <1>4, <1>6 DEF Core, Popped, MaskOK, s, r
<1>9. ClicksOK(v)
  <2>1. Clicks(v) = Clicks(o)
    BY DEF Popped, Clicks
  <2>2. ~v.app.panel /\ "mouse" \notin v.evdev.grabbed /\ ~v.evdev.queue.reset =>
            \A b \in Clicks(v) : Silent(r, b) => Excused(v, b)
    BY <1>4, <1>6, <2>1 DEF Core, Popped, ClicksOK, s
  <2>3. v.app.unfocused => LossIn(r) \/ Clicks(v) \subseteq v.tv.stale
    BY <1>2, <2>1 DEF Core, Popped, ClicksOK, s
  <2>4. /\ ~v.app.streaming => Clicks(v) \subseteq v.tv.stale
        /\ v.app.panel => Clicks(v) = {}
    BY <2>1 DEF Core, Popped, ClicksOK
  <2> QED
    BY <2>2, <2>3, <2>4 DEF ClicksOK, r
<1>10. v \in Worlds
  BY DEF Popped
<1>11. Core(v)
  BY <1>5, <1>7, <1>8, <1>9, <1>10, PoppedKeepsScreen DEF Core
<1>12. s[i].kind \in {"gained", "back"} /\ v.tv.focus # "ours" => LossIn(r)
  BY <1>2 DEF Core, FocusOK, Popped, s
<1> QED
  BY <1>11, <1>12 DEF s, r

\* The focus is where SDL says it is now.
LEMMA RefocusedKeeps ==
    ASSUME NEW v, Core(v), v.app.phase \in {"sdl", "pump"},
           v.tv.focus # "ours" => LossIn(v.tv.sdl),
           NEW a \in BOOLEAN, a => v.app.away
    PROVE  LET w == [v EXCEPT !.app.away = a, !.app.unfocused = (v.tv.focus # "ours")]
           IN  Core(w) /\ Within(v, w) /\ w.evdev = v.evdev
<1>1. v \in Worlds /\ v.app \in App
  BY DEF Core, Worlds
<1> DEFINE u == (v.tv.focus # "ours")
           w == [v EXCEPT !.app.away = a, !.app.unfocused = u]
<1>2. u \in BOOLEAN
  OBVIOUS
<1> HIDE DEF u
<1>3. w = [v EXCEPT !.app.away = a, !.app.unfocused = u]
  OBVIOUS
<1> HIDE DEF w
<1>4. w \in Worlds /\ w.app = [v.app EXCEPT !.away = a, !.unfocused = u]
      /\ w.evdev = v.evdev /\ w.tv = v.tv /\ w.server = v.server
  BY <1>1, <1>2, <1>3 DEF Worlds, App
<1>5. /\ SamePlace(v, w) /\ w.app.unfocused = u /\ w.app.away = a
      /\ w.app.slot = v.app.slot /\ w.app.streaming = v.app.streaming
      /\ w.app.panel = v.app.panel /\ w.app.mask = v.app.mask /\ w.app.held = v.app.held
      /\ w.app.armed = v.app.armed /\ w.app.sampling = v.app.sampling
  BY <1>1, <1>4 DEF App, SamePlace
<1>6. Focused(v) => Focused(w) \/ LossIn(v.tv.sdl)
  BY <1>5 DEF Focused, u
<1>7. GrabOK(w) /\ FocusOK(w)
  BY <1>4, <1>5, <1>6 DEF Core, GrabOK, FocusOK, u
<1>8. IdleOK(w) /\ PanelOK(w) /\ HeldOK(w)
  BY <1>4, <1>5 DEF Core, IdleOK, PanelOK, HeldOK
<1>9. ArmedOK(w)
  BY <1>4, <1>5, <1>6 DEF Core, ArmedOK, SamePlace
<1>10. QueuedOK(w) /\ MaskOK(w)
  BY <1>4, <1>5 DEF Core, QueuedOK, OpenOn, MaskOK, Excused, DownOn
<1>11. ClicksOK(w)
  BY <1>4, <1>5 DEF Core, ClicksOK, Clicks, Excused, DownOn, u
<1>12. Core(w) /\ Within(v, w) /\ w.evdev = v.evdev
  BY <1>4, <1>5, <1>7, <1>8, <1>9, <1>10, <1>11 DEF Core, Within
<1> QED
  BY <1>12 DEF w, u

\* The application goes to the background: the grab is given up before anything says so.
LEMMA AwayKeeps ==
    ASSUME NEW v, Core(v), ~v.evdev.sweeping
    PROVE  LET w == [v EXCEPT !.app.away = TRUE, !.app.drag = FALSE]
           IN  Core(Stop(w)) /\ Within(v, Stop(w))
<1> DEFINE w == [v EXCEPT !.app.away = TRUE, !.app.drag = FALSE]
<1>1. v \in Worlds /\ v.app \in App
  BY DEF Core, Worlds
<1>2. w \in Worlds /\ w.app = [v.app EXCEPT !.away = TRUE, !.drag = FALSE]
      /\ w.evdev = v.evdev /\ w.tv = v.tv /\ w.server = v.server
  BY <1>1 DEF Worlds, App
<1> HIDE DEF w
<1>3. /\ SamePlace(v, w) /\ w.app.unfocused = v.app.unfocused
      /\ w.app.slot = v.app.slot /\ w.app.streaming = v.app.streaming
      /\ w.app.panel = v.app.panel /\ w.app.mask = v.app.mask /\ w.app.held = v.app.held
      /\ w.app.armed = v.app.armed /\ w.app.sampling = v.app.sampling
  BY <1>1, <1>2 DEF App, SamePlace
<1>4. IdleOK(w) /\ PanelOK(w) /\ HeldOK(w) /\ FocusOK(w)
  BY <1>2, <1>3 DEF Core, IdleOK, PanelOK, HeldOK, FocusOK
<1>5. QueuedOK(w) /\ MaskOK(w)
  BY <1>2, <1>3 DEF Core, QueuedOK, OpenOn, MaskOK, Excused, DownOn
<1>6. StopReady(w)
  BY <1>2, <1>3, <1>4, <1>5 DEF Core, GrabOK, StopReady
<1>7. Core(Stop(w)) /\ Within(w, Stop(w))
  BY <1>6, StopKeeps
<1>8. Within(v, w)
  BY <1>2, <1>3 DEF Within
<1>9. Core(Stop(w)) /\ Within(v, Stop(w))
  BY <1>7, <1>8, WithinTwice
<1> QED
  BY <1>9 DEF w

\* The focus is lost: what was held is released, and the panel waits for nothing.
LEMMA LostKeeps ==
    ASSUME NEW o, Core(o), ~o.evdev.sweeping, ~o.app.sampling,
           NEW v, NEW i, Popped(o, v, i), o.tv.sdl[i].kind = "lost",
           \A k \in DOMAIN o.tv.sdl : k < i => o.tv.sdl[k].kind \notin {"gained", "back"},
           \A b \in Buttons : LeavesDown(v.tv.sdl, b)
               => LeavesDown(o.tv.sdl, b) \/ b \in v.tv.stale
    PROVE  Core(FocusLost(v)) /\ Within(v, FocusLost(v))
<1> DEFINE lost == [v EXCEPT !.app.unfocused = TRUE]
           free == [lost EXCEPT !.app.mask = {}, !.app.drag = FALSE]
           open == [free EXCEPT !.app.dismiss = None, !.app.closing = FALSE]
           shut == IF v.app.dismiss # None \/ v.app.closing THEN Hide(open) ELSE free
<1>1. v \in Worlds /\ v.app \in App /\ v.app = o.app /\ v.evdev = o.evdev
  BY DEF Popped, Worlds
<1>2. LostAgain(o.tv.sdl) => LostAgain(v.tv.sdl)
  BY NewsWithout DEF Core, Popped
<1>3. FocusLost(v) = Stop(IF v.app.panel THEN shut ELSE lost)
  BY DEF FocusLost
<1>4. lost \in Worlds /\ lost.app = [v.app EXCEPT !.unfocused = TRUE]
      /\ lost.evdev = v.evdev /\ lost.tv = v.tv /\ lost.server = v.server
  BY <1>1 DEF Worlds, App
<1> HIDE DEF lost
<1>5. /\ SamePlace(v, lost) /\ lost.app.unfocused
      /\ lost.app.slot = v.app.slot /\ lost.app.streaming = v.app.streaming
      /\ lost.app.panel = v.app.panel /\ lost.app.held = v.app.held
      /\ lost.app.armed = v.app.armed /\ ~lost.app.sampling
  BY <1>1, <1>4 DEF App, SamePlace
<1>6. /\ v.tv.sdl \in Seq(Signal) /\ IdleOK(v) /\ PanelOK(v) /\ HeldOK(v)
      /\ v.evdev.started => ~v.app.panel
      /\ v.app.panel => ~v.app.armed /\ Clicks(v) = {}
  BY PoppedKeepsScreen
<1>7. IdleOK(lost) /\ PanelOK(lost) /\ HeldOK(lost)
  BY <1>4, <1>5, <1>6 DEF IdleOK, PanelOK, HeldOK
<1>8. FocusOK(lost)
  BY <1>2, <1>4, <1>5 DEF Core, Popped, FocusOK
<1>9. QueuedOK(lost)
  BY <1>4 DEF Core, Popped, QueuedOK, OpenOn
<1>10. Within(v, lost)
  BY <1>4, <1>5 DEF Within
<1>11. CASE ~v.app.panel
  <2>1. MaskOK(lost)
    BY <1>5, <1>11 DEF MaskOK
  <2>2. StopReady(lost)
    BY <1>1, <1>4, <1>5, <1>6, <1>7, <1>8, <1>9, <1>11, <2>1 DEF StopReady
  <2>3. Core(Stop(lost)) /\ Within(lost, Stop(lost))
    BY <2>2, StopKeeps
  <2> QED
    BY <1>3, <1>10, <1>11, <2>3, WithinTwice
<1>12. CASE v.app.panel
  <2>1. lost.app \in App
    BY <1>4 DEF Worlds
  <2>2. free \in Worlds /\ free.app = [lost.app EXCEPT !.mask = {}, !.drag = FALSE]
        /\ free.evdev = v.evdev /\ free.tv = v.tv /\ free.server = v.server
    BY <1>4, <2>1 DEF Worlds, App
  <2> HIDE DEF free
  <2>3. /\ SamePlace(lost, free) /\ free.app.unfocused = lost.app.unfocused /\ free.app.mask = {}
        /\ free.app.slot = lost.app.slot /\ free.app.streaming = lost.app.streaming
        /\ free.app.panel = lost.app.panel /\ free.app.held = lost.app.held
        /\ free.app.armed = lost.app.armed /\ free.app.sampling = lost.app.sampling
    BY <1>4, <2>1, <2>2 DEF App, SamePlace
  <2>4. IdleOK(free) /\ GrabOK(free) /\ PanelOK(free) /\ FocusOK(free)
    BY <1>4, <1>5, <1>6, <1>7, <1>8, <1>12, <2>2, <2>3 DEF IdleOK, GrabOK, PanelOK, FocusOK
  <2>5. ArmedOK(free) /\ HeldOK(free)
    BY <1>4, <1>5, <1>6, <1>7, <1>12, <2>2, <2>3 DEF ArmedOK, HeldOK
  <2>6. QueuedOK(free) /\ MaskOK(free)
    BY <1>4, <1>9, <2>2, <2>3 DEF QueuedOK, OpenOn, MaskOK
  <2>7. Clicks(free) = {}
    BY <1>5, <1>6, <1>12, <2>3 DEF Clicks
  <2>8. ClicksOK(free)
    BY <2>7 DEF ClicksOK
  <2>9. Core(free)
    BY <1>6, <2>2, <2>4, <2>5, <2>6, <2>8 DEF Core
  <2>10. Within(v, free)
    BY <1>5, <2>2, <2>3 DEF Within, SamePlace
  <2>11. /\ open \in Worlds /\ open.evdev = free.evdev /\ open.tv = free.tv
         /\ open.server = free.server
         /\ open.app = [free.app EXCEPT !.dismiss = None, !.closing = FALSE]
    <3>1. free.app \in App
      BY <2>2 DEF Worlds
    <3> QED
      BY <2>2, <3>1 DEF Worlds, App
  <2> HIDE DEF open
  <2>12. /\ SameScreen(free, open) /\ SamePlace(free, open)
         /\ open.app.sampling = free.app.sampling
         /\ open.app.mask = free.app.mask /\ open.app.held = free.app.held
         /\ open.app.armed = free.app.armed
    <3>1. free.app \in App
      BY <2>2 DEF Worlds
    <3> QED
      BY <2>11, <3>1 DEF App, SameScreen, SamePlace
  <2>13. Core(open) /\ Within(free, open)
    <3>1. HeldOK(open)
      BY <2>5, <2>11, <2>12 DEF HeldOK, SameScreen
    <3>2. Eases(free, open)
      BY <2>11, <2>12, <3>1 DEF Eases, SameReader, SameStates
    <3> QED
      BY <2>9, <3>2, EasesKeeps
  <2>14. ~open.evdev.sweeping /\ ~open.app.sampling /\ ~free.evdev.sweeping
    BY <1>1, <1>5, <2>2, <2>3, <2>11, <2>12
  <2>15. Core(Hide(open)) /\ Within(open, Hide(open))
    BY <2>13, <2>14, HideKeeps
  <2>16. Core(shut) /\ Within(v, shut)
    <3>1. Within(v, Hide(open))
      BY <2>10, <2>13, <2>15, WithinTwice
    <3> QED
      BY <2>9, <2>10, <2>15, <3>1
  <2> HIDE DEF shut
  <2>17. ~shut.evdev.sweeping
    BY <1>1, <2>16 DEF Within, Emptied
  <2>18. Core(Stop(shut)) /\ Within(shut, Stop(shut))
    BY <2>16, <2>17, CoreIsStopReady, StopKeeps
  <2> QED
    BY <1>3, <1>12, <2>16, <2>18, WithinTwice
<1> QED
  BY <1>11, <1>12

\* A button's event is taken, whatever it did: it may leave the button it presses held
\* or waited for, and no other that was not.
LEMMA ButtonTaken ==
    ASSUME NEW o, Core(o), NEW x, x \in Worlds, 1 \in DOMAIN o.tv.sdl,
           Without(o.tv.sdl, 1, x.tv.sdl), o.tv.sdl[1].kind = "button",
           SameScreen(o, x), SameStates(o, x), x.app.sampling = o.app.sampling,
           x.app.phase = o.app.phase, x.app.armed = o.app.armed, HeldOK(x),
           x.evdev = o.evdev, x.tv.fd = o.tv.fd, x.tv.hung = o.tv.hung,
           x.tv.pressed = o.tv.pressed, x.tv.focus = o.tv.focus,
           o.tv.stale \subseteq x.tv.stale,
           o.app.panel => \A b \in x.app.mask :
               \/ b \in o.app.mask /\ b # o.tv.sdl[1].code
               \/ b = o.tv.sdl[1].code /\ o.tv.sdl[1].down,
           \A b \in Clicks(x) :
               \/ b \in Clicks(o) /\ b # o.tv.sdl[1].code
               \/ /\ b = o.tv.sdl[1].code /\ o.tv.sdl[1].down
                  /\ ~o.app.panel /\ ~o.app.unfocused
                  /\ ~o.app.streaming => b \in x.tv.stale
               \/ /\ b \in Clicks(o)
                  /\ \/ o.app.unfocused \/ "mouse" \in o.evdev.grabbed
                     \/ o.evdev.queue.reset \/ ~o.app.streaming
    PROVE  Core(x)
<1> DEFINE s == o.tv.sdl
           r == x.tv.sdl
           e == s[1]
           Down(b) == b = e.code /\ e.down
<1>1. s \in Seq(Signal) /\ 1 \in DOMAIN s /\ Without(s, 1, r)
  BY DEF Core
<1>2. /\ LossIn(s) <=> LossIn(r)
      /\ LostAgain(s) => LostAgain(r)
  BY <1>1, NewsWithout
<1>3. \A b : LeavesDown(r, b) => LeavesDown(s, b)
  BY <1>1, ButtonWithout
<1>4. \A b : b # e.code /\ Silent(r, b) => Silent(s, b)
  <2>1. \A b : b # e.code => ~Mentions(s[1], b)
    BY DEF Mentions
  <2> QED
    BY <1>1, <2>1, ButtonWithout
<1>5. \A b : Down(b) /\ Silent(r, b) => LeavesDown(s, b)
  <2>1. \A b : Down(b) => Presses(s[1], b)
    BY DEF Presses
  <2> QED
    BY <1>1, <2>1, ButtonWithout
<1>6. r \in Seq(Signal)
  BY <1>1 DEF Without
<1>7. e \in Signal /\ e.kind = "button"
  BY <1>1
<1>8. \A b \in o.app.mask \cup Clicks(x) : b \in Buttons
  BY DEF Core, Worlds, App, Clicks
<1> HIDE DEF s, r, Down
<1>9. \A b : Excused(o, b) => Excused(x, b)
  BY DEF Excused, DownOn
<1>10. \A b \in Buttons : Down(b) /\ Silent(r, b) => Excused(x, b)
  BY <1>5 DEF Core, QueuedOK, OpenOn, Excused, DownOn, s
<1>11. e.code \in Buttons
  BY <1>7 DEF Signal
<1> HIDE DEF e
<1>12. IdleOK(x) /\ GrabOK(x) /\ FocusOK(x)
  BY <1>2 DEF Core, IdleOK, GrabOK, FocusOK, Focused, SameScreen, s, r
<1>13. PanelOK(x)
  <2>1. o.app.slot \in Slots
    BY DEF Core, Worlds, App
  <2> QED
    BY <2>1 DEF Core, PanelOK, SameScreen, SameStates
<1>14. ArmedOK(x)
  BY <1>2 DEF Core, ArmedOK, Focused, SameScreen, s, r
<1>15. QueuedOK(x)
  BY <1>3 DEF Core, QueuedOK, OpenOn, s, r
<1>16. MaskOK(x)
  <2> SUFFICES ASSUME x.app.panel, ~x.app.sampling, NEW b \in x.app.mask, Silent(r, b)
               PROVE  Excused(x, b)
    BY DEF MaskOK, r
  <2>1. (b \in o.app.mask /\ b # e.code) \/ Down(b)
    BY DEF SameScreen, Down, e, s
  <2>2. CASE b \in o.app.mask /\ b # e.code
    BY <1>4, <1>9, <2>2 DEF Core, MaskOK, SameScreen, s
  <2>3. CASE Down(b)
    BY <1>10, <1>11, <2>3 DEF Down
  <2> QED
    BY <2>1, <2>2, <2>3
<1>17. \A b \in Clicks(x) :
           \/ b \in Clicks(o) /\ b # e.code
           \/ Down(b) /\ ~o.app.panel /\ ~o.app.unfocused /\ (~o.app.streaming => b \in x.tv.stale)
           \/ /\ b \in Clicks(o)
              /\ \/ o.app.unfocused \/ "mouse" \in o.evdev.grabbed
                 \/ o.evdev.queue.reset \/ ~o.app.streaming
  BY DEF Down, e, s
<1>18. ClicksOK(x)
  <2>1. ASSUME ~x.app.panel, "mouse" \notin x.evdev.grabbed, ~x.evdev.queue.reset,
               NEW b \in Clicks(x), Silent(r, b)
        PROVE  Excused(x, b)
    <3>1. ~o.app.panel /\ "mouse" \notin o.evdev.grabbed /\ ~o.evdev.queue.reset
      BY <2>1 DEF SameScreen
    <3>2. \A c \in Clicks(o) : Silent(s, c) => Excused(o, c)
      BY <3>1 DEF Core, ClicksOK, s
    <3>3. CASE b \in Clicks(o) /\ b # e.code
      BY <1>4, <1>9, <2>1, <3>2, <3>3
    <3>4. CASE Down(b)
      BY <1>8, <1>10, <2>1, <3>4
    <3>5. CASE b \in Clicks(o) /\ o.app.unfocused
      <4>1. ~LossIn(r)
        BY <2>1 DEF LossIn, Silent, Mentions
      <4>2. Clicks(o) \subseteq o.tv.stale
        BY <1>2, <3>5, <4>1 DEF Core, ClicksOK, s
      <4> QED
        BY <3>5, <4>2 DEF Excused
    <3>6. CASE b \in Clicks(o) /\ ~o.app.streaming
      BY <3>6 DEF Core, ClicksOK, Excused
    <3> QED
      BY <1>17, <2>1, <3>1, <3>3, <3>4, <3>5, <3>6
  <2>2. ~x.app.streaming => Clicks(x) \subseteq x.tv.stale
    BY <1>17 DEF Core, ClicksOK, SameScreen
  <2>3. x.app.panel => Clicks(x) = {}
    BY <1>17 DEF Core, ClicksOK, SameScreen
  <2>4. x.app.unfocused => LossIn(r) \/ Clicks(x) \subseteq x.tv.stale
    BY <1>2, <1>17 DEF Core, ClicksOK, SameScreen, s
  <2> QED
    BY <2>1, <2>2, <2>3, <2>4 DEF ClicksOK, r
<1> QED
  BY <1>6, <1>12, <1>13, <1>14, <1>15, <1>16, <1>18 DEF Core, r

\* x is v but for what the panel and the side button keep for themselves.
Plain(v, x) ==
    /\ x \in Worlds /\ x.evdev = v.evdev /\ x.tv = v.tv /\ x.server = v.server
    /\ SameScreen(v, x) /\ SamePlace(v, x) /\ x.app.sampling = v.app.sampling
    /\ x.app.held = v.app.held /\ x.app.armed = v.app.armed

LEMMA PlainIsWithin ==
    ASSUME NEW v, NEW x, Plain(v, x)
    PROVE  Within(v, x)
BY DEF Plain, Within

\* With the panel up, or nothing of the button's held, the event leaves nothing behind.
LEMMA PlainTaken ==
    ASSUME NEW o, Core(o), NEW v, Popped(o, v, 1), o.tv.sdl[1].kind = "button",
           NEW x, Plain(v, x),
           o.app.panel => \A b \in x.app.mask :
               \/ b \in o.app.mask /\ b # o.tv.sdl[1].code
               \/ b = o.tv.sdl[1].code /\ o.tv.sdl[1].down,
           \/ o.app.panel \/ o.tv.sdl[1].code \notin Clicks(o)
           \/ o.app.unfocused \/ "mouse" \in o.evdev.grabbed
           \/ o.evdev.queue.reset \/ ~o.app.streaming
    PROVE  Core(x) /\ Within(v, x)
<1>1. /\ x \in Worlds /\ 1 \in DOMAIN o.tv.sdl /\ Without(o.tv.sdl, 1, x.tv.sdl)
      /\ x.evdev = o.evdev /\ x.tv.fd = o.tv.fd /\ x.tv.hung = o.tv.hung
      /\ x.tv.pressed = o.tv.pressed /\ x.tv.focus = o.tv.focus
      /\ o.tv.stale \subseteq x.tv.stale
      /\ x.app.armed = o.app.armed /\ x.app.sampling = o.app.sampling
      /\ x.app.phase = o.app.phase /\ x.app.held = o.app.held /\ x.server = o.server
  BY DEF Popped, Plain, SamePlace
<1>2. SameScreen(o, x) /\ SameStates(o, x)
  BY <1>1 DEF Popped, Plain, SameScreen, SameStates
<1>3. HeldOK(x)
  BY <1>1, <1>2 DEF Core, HeldOK, SameScreen
<1>4. Clicks(x) = Clicks(o) /\ (o.app.panel => Clicks(o) = {})
  BY <1>1 DEF Clicks, Core, ClicksOK
<1>5. \A b \in Clicks(x) :
          \/ b \in Clicks(o) /\ b # o.tv.sdl[1].code
          \/ /\ b \in Clicks(o)
             /\ \/ o.app.unfocused \/ "mouse" \in o.evdev.grabbed
                \/ o.evdev.queue.reset \/ ~o.app.streaming
  BY <1>4
<1>6. Core(x)
  BY <1>1, <1>2, <1>3, <1>5, ButtonTaken
<1> QED
  BY <1>6, PlainIsWithin

\* What the panel keeps for itself may change, and its mask.
LEMMA MaskIsPlain ==
    ASSUME NEW v \in Worlds, NEW M \in SUBSET Buttons, NEW g \in BOOLEAN
    PROVE  LET x == [v EXCEPT !.app.mask = M, !.app.drag = g]
           IN  Plain(v, x) /\ x.app.mask = M
<1> DEFINE x == [v EXCEPT !.app.mask = M, !.app.drag = g]
<1>1. v.app \in App
  BY DEF Worlds
<1>2. /\ x \in Worlds /\ x.evdev = v.evdev /\ x.tv = v.tv /\ x.server = v.server
      /\ x.app = [v.app EXCEPT !.mask = M, !.drag = g]
  BY <1>1 DEF Worlds, App
<1> HIDE DEF x
<1>3. Plain(v, x) /\ x.app.mask = M
  BY <1>1, <1>2 DEF App, Plain, SameScreen, SamePlace
<1> QED
  BY <1>3 DEF x

SameApp(a, b) ==
    /\ b \in App /\ b.slot = a.slot /\ b.streaming = a.streaming /\ b.panel = a.panel
    /\ b.unfocused = a.unfocused /\ b.away = a.away
    /\ b.batch = a.batch /\ b.last = a.last /\ b.phase = a.phase
    /\ b.sampling = a.sampling /\ b.held = a.held /\ b.armed = a.armed /\ b.mask = a.mask

LEMMA AppIsPlain ==
    ASSUME NEW v, NEW u, Plain(v, u), NEW a, SameApp(u.app, a),
           NEW x, x = [u EXCEPT !.app = a]
    PROVE  Plain(v, x) /\ x.app.mask = u.app.mask
<1>1. u \in Worlds /\ u.app \in App /\ a \in App
  BY DEF Plain, Worlds, SameApp
<1>2. x \in Worlds /\ x.evdev = u.evdev /\ x.tv = u.tv /\ x.server = u.server /\ x.app = a
  BY <1>1 DEF Worlds
<1> QED
  BY <1>2 DEF Plain, SameScreen, SamePlace, SameApp

LEMMA PanelIsPlain ==
    ASSUME NEW v, NEW u, Plain(v, u), NEW z \in Buttons \cup {None}, NEW g \in BOOLEAN
    PROVE  /\ Plain(v, [u EXCEPT !.app.dismiss = z])
           /\ [u EXCEPT !.app.dismiss = z].app.mask = u.app.mask
           /\ Plain(v, [u EXCEPT !.app.drag = g])
           /\ [u EXCEPT !.app.drag = g].app.mask = u.app.mask
           /\ Plain(v, [u EXCEPT !.app.closing = g])
           /\ [u EXCEPT !.app.closing = g].app.mask = u.app.mask
           /\ Plain(v, [u EXCEPT !.app.dismiss = z, !.app.closing = g])
           /\ [u EXCEPT !.app.dismiss = z, !.app.closing = g].app.mask = u.app.mask
<1>1. u.app \in App
  BY DEF Plain, Worlds
<1>2. Plain(v, [u EXCEPT !.app.dismiss = z])
       /\ [u EXCEPT !.app.dismiss = z].app.mask = u.app.mask
  <2> DEFINE b == [u.app EXCEPT !.dismiss = z]
             x == [u EXCEPT !.app.dismiss = z]
  <2>1. x = [u EXCEPT !.app = b]
    OBVIOUS
  <2>2. SameApp(u.app, b)
    BY <1>1 DEF App, SameApp
  <2> HIDE DEF x, b
  <2>3. Plain(v, x) /\ x.app.mask = u.app.mask
    BY <2>1, <2>2, AppIsPlain, Zenon
  <2> QED
    BY <2>3 DEF x
<1>3. Plain(v, [u EXCEPT !.app.drag = g])
       /\ [u EXCEPT !.app.drag = g].app.mask = u.app.mask
  <2> DEFINE b == [u.app EXCEPT !.drag = g]
             x == [u EXCEPT !.app.drag = g]
  <2>1. x = [u EXCEPT !.app = b]
    OBVIOUS
  <2>2. SameApp(u.app, b)
    BY <1>1 DEF App, SameApp
  <2> HIDE DEF x, b
  <2>3. Plain(v, x) /\ x.app.mask = u.app.mask
    BY <2>1, <2>2, AppIsPlain
  <2> QED
    BY <2>3 DEF x
<1>4. Plain(v, [u EXCEPT !.app.closing = g])
       /\ [u EXCEPT !.app.closing = g].app.mask = u.app.mask
  <2> DEFINE b == [u.app EXCEPT !.closing = g]
             x == [u EXCEPT !.app.closing = g]
  <2>1. x = [u EXCEPT !.app = b]
    OBVIOUS
  <2>2. SameApp(u.app, b)
    BY <1>1 DEF App, SameApp
  <2> HIDE DEF x, b
  <2>3. Plain(v, x) /\ x.app.mask = u.app.mask
    BY <2>1, <2>2, AppIsPlain
  <2> QED
    BY <2>3 DEF x
<1>5. Plain(v, [u EXCEPT !.app.dismiss = z, !.app.closing = g])
       /\ [u EXCEPT !.app.dismiss = z, !.app.closing = g].app.mask = u.app.mask
  <2> DEFINE b == [u.app EXCEPT !.dismiss = z, !.closing = g]
             x == [u EXCEPT !.app.dismiss = z, !.app.closing = g]
  <2>1. x = [u EXCEPT !.app = b]
    OBVIOUS
  <2>2. SameApp(u.app, b)
    BY <1>1 DEF App, SameApp
  <2> HIDE DEF x, b
  <2>3. Plain(v, x) /\ x.app.mask = u.app.mask
    BY <2>1, <2>2, AppIsPlain
  <2> QED
    BY <2>3 DEF x
<1> QED
  BY <1>2, <1>3, <1>4, <1>5

LEMMA PanelDownKeeps ==
    ASSUME NEW o, Core(o), NEW v, Popped(o, v, 1), o.tv.sdl[1].kind = "button",
           o.app.panel, o.tv.sdl[1].down, NEW where
    PROVE  Core(PanelDown(v, o.tv.sdl[1].code, where))
           /\ Within(v, PanelDown(v, o.tv.sdl[1].code, where))
<1> DEFINE c == o.tv.sdl[1].code
           M == v.app.mask \cup {c}
           down == [v EXCEPT !.app.mask = M]
           ask == IF v.app.dismiss = None THEN [down EXCEPT !.app.dismiss = c] ELSE down
           slid == [down EXCEPT !.app.drag = down.app.drag \/ where = "fader"]
           still == [ask EXCEPT !.app.drag = FALSE]
           x == PanelDown(v, c, where)
<1>1. v \in Worlds /\ v.app \in App /\ v.app = o.app
  BY DEF Popped, Worlds
<1>2. c \in Buttons
  <2>1. o.tv.sdl[1] \in Signal
    BY DEF Core, Popped
  <2> QED
    BY <2>1 DEF Signal
<1>3. M \in SUBSET Buttons
  BY <1>1, <1>2 DEF App
<1>4. x \in {down, ask, slid, still}
  BY DEF PanelDown
<1> HIDE DEF c, M, down, x
<1>5. Plain(v, down) /\ down.app.mask = M
  <2> DEFINE d == v.app.drag
  <2>1. d \in BOOLEAN /\ [v.app EXCEPT !.mask = M] = [v.app EXCEPT !.mask = M, !.drag = d]
    BY <1>1 DEF App
  <2>2. down = [v EXCEPT !.app.mask = M, !.app.drag = d]
    BY <2>1 DEF down
  <2> HIDE DEF d
  <2> QED
    BY <1>1, <1>3, <2>1, <2>2, MaskIsPlain, Zenon
<1>6. Plain(v, ask) /\ ask.app.mask = M
  <2>1. CASE v.app.dismiss = None
    <3>1. ask = [down EXCEPT !.app.dismiss = c]
      BY <2>1
    <3> HIDE DEF ask
    <3>2. c \in Buttons \cup {None} /\ TRUE \in BOOLEAN
      BY <1>2
    <3> QED
      BY <1>5, <3>1, <3>2, PanelIsPlain, Zenon
  <2> QED
    BY <1>5, <2>1
<1> HIDE DEF ask
<1>7. ASSUME NEW u, Plain(v, u), u.app.mask = M, NEW g \in BOOLEAN
      PROVE  Plain(v, [u EXCEPT !.app.drag = g]) /\ [u EXCEPT !.app.drag = g].app.mask = M
  <2>1. None \in Buttons \cup {None}
    OBVIOUS
  <2> QED
    BY <1>7, <2>1, PanelIsPlain, Zenon
<1>8. (down.app.drag \/ where = "fader") \in BOOLEAN
  OBVIOUS
<1>9. Plain(v, x) /\ x.app.mask = M
  BY <1>4, <1>5, <1>6, <1>7, <1>8
<1>10. \A b \in x.app.mask : (b \in o.app.mask /\ b # c) \/ b = c
  BY <1>1, <1>9 DEF M
<1>11. Core(x) /\ Within(v, x)
  BY <1>9, <1>10, PlainTaken DEF c
<1> QED
  BY <1>11 DEF x, c

LEMMA PanelUpKeeps ==
    ASSUME NEW o, Core(o), ~o.evdev.sweeping, ~o.app.sampling,
           NEW v, Popped(o, v, 1), o.tv.sdl[1].kind = "button", o.app.panel
    PROVE  Core(PanelUp(v, o.tv.sdl[1].code)) /\ Within(v, PanelUp(v, o.tv.sdl[1].code))
<1> DEFINE c == o.tv.sdl[1].code
           M == v.app.mask \ {c}
           g == (v.app.drag /\ c # "left")
           up == [v EXCEPT !.app.mask = M, !.app.drag = g]
           ask == IF v.app.dismiss # c THEN up
                  ELSE [up EXCEPT !.app.dismiss = None, !.app.closing = TRUE]
           shut == [ask EXCEPT !.app.closing = FALSE]
           x == PanelUp(v, c)
<1>1. v \in Worlds /\ v.app \in App /\ v.app = o.app /\ v.evdev = o.evdev
  BY DEF Popped, Worlds
<1>2. M \in SUBSET Buttons /\ g \in BOOLEAN
  BY <1>1 DEF App
<1>3. x = IF ask.app.closing /\ ask.app.mask = {} THEN Hide(shut) ELSE ask
  BY DEF PanelUp
<1> HIDE DEF M, g, c, x
<1>4. Plain(v, up) /\ up.app.mask = M
  BY <1>1, <1>2, MaskIsPlain, Zenon
<1> HIDE DEF up
<1>5. Plain(v, ask) /\ ask.app.mask = M
  <2>1. CASE v.app.dismiss = c
    <3>1. ask = [up EXCEPT !.app.dismiss = None, !.app.closing = TRUE]
      BY <2>1
    <3> HIDE DEF ask
    <3>2. None \in Buttons \cup {None} /\ TRUE \in BOOLEAN
      OBVIOUS
    <3> QED
      BY <1>4, <3>1, <3>2, PanelIsPlain, Zenon
  <2> QED
    BY <1>4, <2>1
<1> HIDE DEF ask
<1>6. Plain(v, shut) /\ shut.app.mask = M
  <2>1. None \in Buttons \cup {None} /\ FALSE \in BOOLEAN
    OBVIOUS
  <2> QED
    BY <1>5, <2>1, PanelIsPlain, Zenon
<1> HIDE DEF shut
<1>7. ASSUME NEW y, Plain(v, y), y.app.mask = M
      PROVE  Core(y) /\ Within(v, y)
  <2>1. \A b \in y.app.mask : b \in o.app.mask /\ b # c
    BY <1>1, <1>7 DEF M
  <2> QED
    BY <1>7, <2>1, PlainTaken DEF c
<1>8. Core(ask) /\ Within(v, ask)
  BY <1>5, <1>7
<1>9. Core(shut) /\ Within(v, shut) /\ shut.evdev = v.evdev /\ shut.app.sampling = v.app.sampling
  BY <1>6, <1>7 DEF Plain
<1>10. Core(Hide(shut)) /\ Within(v, Hide(shut))
  <2>1. Core(Hide(shut)) /\ Within(shut, Hide(shut))
    BY <1>1, <1>9, HideKeeps
  <2> QED
    BY <1>9, <2>1, WithinTwice
<1>11. Core(x) /\ Within(v, x)
  BY <1>3, <1>8, <1>10
<1> QED
  BY <1>11 DEF x, c

LEMMA SideIsPlain ==
    ASSUME NEW v \in Worlds, NEW z \in BOOLEAN
    PROVE  LET x == [v EXCEPT !.app.side = z] IN Plain(v, x) /\ x.app.mask = v.app.mask
<1> DEFINE x == [v EXCEPT !.app.side = z]
<1>1. v.app \in App
  BY DEF Worlds
<1>2. /\ x \in Worlds /\ x.evdev = v.evdev /\ x.tv = v.tv /\ x.server = v.server
      /\ x.app = [v.app EXCEPT !.side = z]
  BY <1>1 DEF Worlds, App
<1> HIDE DEF x
<1>3. Plain(v, x) /\ x.app.mask = v.app.mask
  BY <1>1, <1>2 DEF App, Plain, SameScreen, SamePlace
<1> QED
  BY <1>3 DEF x

\* The left button of the compositor's pointer on the stream, or on the HUB.
LEMMA LeftTaken ==
    ASSUME NEW o, Core(o), ~o.app.panel, ~o.app.unfocused,
           NEW v, Popped(o, v, 1), o.tv.sdl[1].kind = "button",
           NEW c, c = o.tv.sdl[1].code, c \in Forwarded, NEW d, d = o.tv.sdl[1].down,
           NEW x, Sent(v, x, c, d), NEW S \in SUBSET Buttons, v.tv.stale \subseteq S,
           d /\ ~o.app.streaming => c \in S
    PROVE  LET y == [x EXCEPT !.tv.stale = S] IN Core(y) /\ Within(v, y)
<1> DEFINE t == [x.tv EXCEPT !.stale = S]
           y == [x EXCEPT !.tv.stale = S]
<1>1. x \in Worlds /\ x.tv \in Tv /\ v \in Worlds
  BY DEF Sent, Popped, Worlds
<1>2. t \in Tv /\ t.stale = S
  BY <1>1 DEF Tv
<1>3. y = [x EXCEPT !.tv = t]
  OBVIOUS
<1>4. /\ t.pressed = v.tv.pressed /\ t.focus = v.tv.focus /\ t.now = v.tv.now
      /\ t.fd = v.tv.fd /\ t.hung = v.tv.hung /\ t.sdl = v.tv.sdl
  BY <1>1 DEF Sent, Tv
<1> HIDE DEF t, y
<1>5. y \in Worlds /\ y.app = x.app /\ y.evdev = x.evdev /\ y.server = x.server /\ y.tv = t
  BY <1>1, <1>2, <1>3 DEF Worlds
<1>6. /\ 1 \in DOMAIN o.tv.sdl /\ Without(o.tv.sdl, 1, y.tv.sdl)
      /\ y.evdev = o.evdev /\ y.tv.fd = o.tv.fd /\ y.tv.hung = o.tv.hung
      /\ y.tv.pressed = o.tv.pressed /\ y.tv.focus = o.tv.focus
      /\ o.tv.stale \subseteq y.tv.stale
  BY <1>2, <1>4, <1>5 DEF Popped, Sent
<1>7. /\ SameScreen(o, y) /\ SameStates(o, y) /\ y.app.sampling = o.app.sampling
      /\ y.app.phase = o.app.phase /\ y.app.armed = o.app.armed
  BY <1>5 DEF Popped, Sent, SameScreen, SameStates, SamePlace
<1>8. HeldOK(y)
  BY <1>5 DEF Sent, HeldOK
<1>9. Clicks(y) = (IF d THEN o.app.held \cup {c} ELSE o.app.held \ {c}) \cap Buttons
  BY <1>5 DEF Popped, Sent, Clicks
<1>10. ASSUME NEW b \in Clicks(y)
       PROVE  (b \in Clicks(o) /\ b # c) \/ (b = c /\ d)
  BY <1>9, <1>10 DEF Clicks
<1>11. \A b \in Clicks(y) :
           \/ b \in Clicks(o) /\ b # o.tv.sdl[1].code
           \/ /\ b = o.tv.sdl[1].code /\ o.tv.sdl[1].down
              /\ ~o.app.panel /\ ~o.app.unfocused
              /\ ~o.app.streaming => b \in y.tv.stale
  BY <1>2, <1>5, <1>10
<1>12. Core(y)
  BY <1>5, <1>6, <1>7, <1>8, <1>11, ButtonTaken
<1>13. Within(v, y)
  BY <1>4, <1>5 DEF Within, Sent, SamePlace
<1>14. Core(y) /\ Within(v, y)
  BY <1>12, <1>13
<1> QED
  BY <1>14 DEF y

LEMMA StreamButtonKeeps ==
    ASSUME NEW o, Core(o), ~o.evdev.sweeping, ~o.app.sampling, ~o.app.panel,
           NextKind(o.evdev.queue) = "mouse" => "mouse" \in o.evdev.grabbed,
           NEW v, Popped(o, v, 1), o.tv.sdl[1].kind = "button"
    PROVE  LET x == StreamButton(v, o.tv.sdl[1].code, o.tv.sdl[1].down)
           IN  Core(x) /\ Within(v, x)
<1> DEFINE c == o.tv.sdl[1].code
           d == o.tv.sdl[1].down
           x == StreamButton(v, c, d)
<1>1. /\ v \in Worlds /\ v.app \in App /\ v.app = o.app /\ v.evdev = o.evdev
      /\ v.server = o.server /\ o.tv.stale \subseteq v.tv.stale /\ v.tv \in Tv
  BY DEF Popped, Worlds
<1>2. c \in Buttons /\ d \in BOOLEAN
  <2>1. o.tv.sdl[1] \in Signal
    BY DEF Core, Popped
  <2> QED
    BY <2>1 DEF Signal, SdlEvent
<1>3. Clicks(o) \subseteq {"left"}
  BY <1>1 DEF App, Clicks, Forwarded, Buttons
<1> HIDE DEF d, x
<1>4. ASSUME NEW y, Plain(v, y),
             \/ c # "left" \/ o.app.unfocused \/ "mouse" \in o.evdev.grabbed
      PROVE  Core(y) /\ Within(v, y)
  <2>1. \/ o.tv.sdl[1].code \notin Clicks(o)
        \/ o.app.unfocused \/ "mouse" \in o.evdev.grabbed
    BY <1>3, <1>4
  <2> QED
    BY <1>4, <2>1, PlainTaken
<1> HIDE DEF c
<1>5. Plain(v, v)
  BY <1>1 DEF Plain, SameScreen, SamePlace
<1>6. CASE v.app.unfocused \/ MouseActive(v)
  <2>1. x = v
    BY <1>6 DEF x, StreamButton
  <2>2. o.app.unfocused \/ "mouse" \in o.evdev.grabbed
    BY <1>1, <1>6 DEF MouseActive
  <2> QED
    BY <1>4, <1>5, <2>1, <2>2 DEF x, c, d
<1>7. CASE ~(v.app.unfocused \/ MouseActive(v)) /\ c = "side"
  <2> DEFINE z == d /\ (v.app.side \/ v.app.streaming)
             y == [v EXCEPT !.app.side = z]
  <2>1. z \in BOOLEAN
    OBVIOUS
  <2>2. x = IF ~d /\ v.app.side THEN ShowHub(y) ELSE y
    <3>1. CASE d
      <4>1. z = (v.app.side \/ v.app.streaming)
        BY <3>1
      <4> QED
        BY <1>1, <1>7, <3>1, <4>1 DEF x, StreamButton
    <3>2. CASE ~d
      <4>1. z = FALSE
        BY <3>2
      <4> QED
        BY <1>7, <3>2, <4>1 DEF x, StreamButton
    <3> QED
      BY <3>1, <3>2
  <2> HIDE DEF z
  <2>3. Plain(v, y)
    BY <1>1, <2>1, SideIsPlain
  <2> HIDE DEF y
  <2>4. Core(y) /\ Within(v, y)
    BY <1>4, <1>7, <2>3
  <2>5. ~y.evdev.sweeping /\ ~y.app.sampling
    BY <1>1, <2>3 DEF Plain
  <2>6. Core(ShowHub(y)) /\ Within(y, ShowHub(y))
    BY <2>4, <2>5, ShowHubKeeps
  <2>7. Core(x) /\ Within(v, x)
    BY <2>2, <2>4, <2>6, WithinTwice
  <2> QED
    BY <2>7 DEF x, c, d
<1>8. CASE ~(v.app.unfocused \/ MouseActive(v)) /\ c = "extra"
  <2>1. Core(v) /\ Within(v, v)
    BY <1>4, <1>5, <1>8
  <2>2. x = IF d /\ v.app.streaming THEN ShowPanel(v) ELSE v
    BY <1>8 DEF x, StreamButton
  <2>3. v.app.streaming => Core(ShowPanel(v)) /\ Within(v, ShowPanel(v))
    BY <1>1, <2>1, ShowPanelKeeps
  <2>4. Core(x) /\ Within(v, x)
    BY <2>1, <2>2, <2>3
  <2> QED
    BY <2>4 DEF x, c, d
<1>9. CASE ~(v.app.unfocused \/ MouseActive(v)) /\ c = "left"
  <2> DEFINE y == Track(Send(v, c, d), c, d)
             more == d /\ ~v.app.streaming
             S == IF more THEN v.tv.stale \cup {c} ELSE v.tv.stale
  <2>1. x = IF more THEN [y EXCEPT !.tv.stale = @ \cup {c}] ELSE y
    BY <1>9 DEF x, StreamButton
  <2>2. c \in Forwarded
    BY <1>9 DEF Forwarded
  <2>3. HeldOK(v)
    BY PoppedKeepsScreen
  <2>4. Sent(v, y, c, d)
    BY <1>1, <2>2, <2>3, SentIsTracked
  <2> HIDE DEF y, more
  <2>5. x = [y EXCEPT !.tv.stale = S]
    <3>1. CASE more
      BY <2>1, <2>4, <3>1 DEF Sent
    <3>2. CASE ~more
      <4>1. y \in Worlds /\ y.tv \in Tv
        BY <2>4 DEF Sent, Worlds
      <4>2. S = y.tv.stale
        BY <2>4, <3>2 DEF Sent
      <4> DEFINE t == [y.tv EXCEPT !.stale = S]
      <4>3. t = y.tv
        BY <4>1, <4>2 DEF Tv
      <4>4. [y EXCEPT !.tv.stale = S] = [y EXCEPT !.tv = t]
        OBVIOUS
      <4> HIDE DEF t
      <4>5. [y EXCEPT !.tv = t] = y
        BY <4>1, <4>3 DEF Worlds
      <4> QED
        BY <2>1, <3>2, <4>4, <4>5
    <3> QED
      BY <3>1, <3>2
  <2>6. v.tv.stale \subseteq S /\ (d /\ ~o.app.streaming => c \in S)
    BY <1>1 DEF more
  <2>7. S \in SUBSET Buttons
    BY <1>1, <1>2 DEF Tv
  <2>8. ~o.app.unfocused
    BY <1>1, <1>9
  <2> HIDE DEF S
  <2>9. c = o.tv.sdl[1].code /\ d = o.tv.sdl[1].down
    BY DEF c, d
  <2>10. Core([y EXCEPT !.tv.stale = S]) /\ Within(v, [y EXCEPT !.tv.stale = S])
    BY <2>2, <2>4, <2>6, <2>7, <2>8, <2>9, LeftTaken
  <2>11. Core(x) /\ Within(v, x)
    BY <2>5, <2>10
  <2> QED
    BY <2>11 DEF x, c, d
<1> QED
  BY <1>2, <1>6, <1>7, <1>8, <1>9 DEF Buttons

LEMMA ButtonKeeps ==
    ASSUME NEW o, Core(o), ~o.evdev.sweeping, ~o.app.sampling,
           NextKind(o.evdev.queue) = "mouse" => "mouse" \in o.evdev.grabbed,
           NEW v, Popped(o, v, 1), o.tv.sdl[1].kind = "button", NEW where
    PROVE  LET x == Button(v, o.tv.sdl[1], where) IN Core(x) /\ Within(v, x)
<1>1. v.app = o.app
  BY DEF Popped
<1> DEFINE e == o.tv.sdl[1]
<1>2. CASE ~o.app.panel
  <2>1. Button(v, e, where) = StreamButton(v, e.code, e.down)
    BY <1>1, <1>2 DEF Button
  <2> QED
    BY <1>2, <2>1, StreamButtonKeeps
<1>3. CASE o.app.panel /\ e.down
  <2>1. Button(v, e, where) = PanelDown(v, e.code, where)
    BY <1>1, <1>3 DEF Button
  <2> QED
    BY <1>3, <2>1, PanelDownKeeps
<1>4. CASE o.app.panel /\ ~e.down
  <2>1. Button(v, e, where) = PanelUp(v, e.code)
    BY <1>1, <1>4 DEF Button
  <2> QED
    BY <1>4, <2>1, PanelUpKeeps
<1> QED
  BY <1>2, <1>3, <1>4

LEMMA HandleSdlKeeps ==
    ASSUME NEW o, Core(o), ~o.evdev.sweeping, ~o.app.sampling, o.app.phase \in {"sdl", "pump"},
           NextKind(o.evdev.queue) = "mouse" => "mouse" \in o.evdev.grabbed,
           NEW v, NEW i, Popped(o, v, i),
           o.tv.sdl[i].kind = "button" => i = 1,
           o.tv.sdl[i].kind = "lost" =>
               /\ \A k \in DOMAIN o.tv.sdl : k < i => o.tv.sdl[k].kind \notin {"gained", "back"}
               /\ \A b \in Buttons : LeavesDown(v.tv.sdl, b)
                      => LeavesDown(o.tv.sdl, b) \/ b \in v.tv.stale,
           NEW where
    PROVE  LET x == HandleSdl(v, o.tv.sdl[i], where) IN Core(x) /\ Within(v, x)
<1> DEFINE e == o.tv.sdl[i]
           x == HandleSdl(v, e, where)
<1>1. e \in Signal /\ e.kind \in {"button", "colour", "lost", "gained", "away", "back"}
  <2>1. e \in Signal
    BY DEF Core, Popped
  <2> QED
    BY <2>1 DEF Signal, SdlEvent
<1>2. v \in Worlds /\ v.app \in App /\ v.app = o.app /\ v.evdev = o.evdev
  BY DEF Popped, Worlds
<1> HIDE DEF x
<1>3. ASSUME e.kind \notin {"lost", "button"}
      PROVE  Core(v) /\ (e.kind \in {"gained", "back"} /\ v.tv.focus # "ours" => LossIn(v.tv.sdl))
  BY <1>3, OtherPopped
<1>4. ASSUME NEW w, Core(w), Within(v, w), w.evdev = v.evdev
      PROVE  Core(Resume(w)) /\ Within(v, Resume(w))
  <2>1. Core(Resume(w)) /\ Within(w, Resume(w))
    BY <1>2, <1>4, ResumeKeeps
  <2> QED
    BY <1>4, <2>1, WithinTwice
<1>5. CASE e.kind = "button"
  <2>1. i = 1
    BY <1>5
  <2>2. x = Button(v, o.tv.sdl[1], where)
    BY <1>5, <2>1 DEF x, HandleSdl
  <2>3. Popped(o, v, 1) /\ o.tv.sdl[1].kind = "button"
    BY <1>5, <2>1
  <2>4. Core(Button(v, o.tv.sdl[1], where)) /\ Within(v, Button(v, o.tv.sdl[1], where))
    BY <2>3, ButtonKeeps
  <2> QED
    BY <2>2, <2>4 DEF x
<1>6. CASE e.kind = "colour"
  <2>1. e.code \in Slots
    BY <1>1, <1>6 DEF Signal
  <2>2. x = IF e.down THEN RequestSwitch(v, e.code) ELSE v
    BY <1>6 DEF x, HandleSdl
  <2>3. Core(v) /\ Within(v, v)
    BY <1>3, <1>6, WithinItself
  <2> HIDE DEF e
  <2>4. Core(RequestSwitch(v, e.code)) /\ Within(v, RequestSwitch(v, e.code))
    BY <1>2, <2>1, <2>3, RequestSwitchKeeps
  <2>5. Core(x) /\ Within(v, x)
    BY <2>2, <2>3, <2>4
  <2> QED
    BY <2>5 DEF x, e
<1>7. CASE e.kind = "lost"
  <2>1. x = FocusLost(v)
    BY <1>7 DEF x, HandleSdl
  <2>2. Core(FocusLost(v)) /\ Within(v, FocusLost(v))
    BY <1>7, LostKeeps
  <2> QED
    BY <2>1, <2>2 DEF x
<1>8. CASE e.kind = "gained"
  <2> DEFINE u == v.tv.focus # "ours"
             a == v.app.away
             w == [v EXCEPT !.app.away = a, !.app.unfocused = u]
  <2>1. a \in BOOLEAN
    BY <1>2 DEF App
  <2>2. Core(w) /\ Within(v, w) /\ w.evdev = v.evdev
    BY <1>2, <1>3, <1>8, <2>1, RefocusedKeeps
  <2>3. w = [v EXCEPT !.app.unfocused = u]
    <3> HIDE DEF u
    <3>1. [v.app EXCEPT !.away = v.app.away, !.unfocused = u] = [v.app EXCEPT !.unfocused = u]
      BY <1>2 DEF App
    <3> QED
      BY <3>1
  <2>4. x = Resume(w)
    <3>1. x = Resume([v EXCEPT !.app.unfocused = u])
      BY <1>8 DEF x, HandleSdl
    <3> HIDE DEF u, w
    <3> QED
      BY <2>3, <3>1
  <2> HIDE DEF w
  <2>5. Core(x) /\ Within(v, x)
    BY <1>4, <2>2, <2>4
  <2> QED
    BY <2>5 DEF x
<1>9. CASE e.kind = "back"
  <2> DEFINE u == v.tv.focus # "ours"
             w == [v EXCEPT !.app.away = FALSE, !.app.unfocused = u]
  <2>1. FALSE \in BOOLEAN /\ (FALSE => v.app.away)
    OBVIOUS
  <2>2. Core(w) /\ Within(v, w) /\ w.evdev = v.evdev
    BY <1>2, <1>3, <1>9, <2>1, RefocusedKeeps
  <2>3. x = Resume(w)
    BY <1>9 DEF x, HandleSdl
  <2> HIDE DEF w
  <2>4. Core(x) /\ Within(v, x)
    BY <1>4, <2>2, <2>3
  <2> QED
    BY <2>4 DEF x
<1>10. CASE e.kind = "away"
  <2>1. x = Stop([v EXCEPT !.app.away = TRUE, !.app.drag = FALSE])
    BY <1>10 DEF x, HandleSdl
  <2>2. Core(v) /\ ~v.evdev.sweeping
    BY <1>2, <1>3, <1>10
  <2>3. Core(x) /\ Within(v, x)
    BY <2>1, <2>2, AwayKeeps, Zenon
  <2> QED
    BY <2>3 DEF x
<1> QED
  BY <1>1, <1>5, <1>6, <1>7, <1>8, <1>9, <1>10

-----------------------------------------------------------------------------
(* What the queues and the place of the threads add.                       *)

\* The queues are as they were, or dropped; so is the batch.
Carried(w, v) ==
    /\ v.app.batch = w.app.batch \/ v.app.batch = <<>>
    /\ v.app.last = w.app.last /\ v.tv.now = w.tv.now
    /\ (v.evdev = w.evdev /\ v.tv.fd = w.tv.fd) \/ Emptied(v)

LEMMA WithinIsCarried ==
    ASSUME NEW w, NEW v, Within(w, v)
    PROVE  Carried(w, v)
BY DEF Within, SamePlace, Carried

LEMMA PoppedIsCarried ==
    ASSUME NEW o, NEW v, NEW i, Popped(o, v, i), NEW x, Within(v, x)
    PROVE  Carried(o, x)
BY DEF Within, SamePlace, Carried, Popped

LEMMA CarriedKeeps ==
    ASSUME NEW w, Typed(w), ReaderOK(w), TimesOK(w), NEW v, Core(v), Carried(w, v)
    PROVE  Typed(v) /\ ReaderOK(v) /\ TimesOK(v)
<1>1. v \in Worlds /\ v.tv.sdl \in Seq(Signal) /\ v.tv.now \in Nat
  BY DEF Core, Worlds, Tv
<1>2. <<>> \in Seq(AnyEvent) /\ \A d \in Usb : <<>> \in Seq(UsbEvent(d))
  OBVIOUS
<1>3. Typed(v)
  <2>1. v.app.batch \in Seq(AnyEvent)
    BY <1>2 DEF Typed, Carried
  <2>2. CASE v.evdev = w.evdev /\ v.tv.fd = w.tv.fd
    BY <1>1, <2>1, <2>2 DEF Typed
  <2>3. CASE Emptied(v)
    BY <1>1, <1>2, <2>1, <2>3 DEF Typed, Emptied, EmptyQueue
  <2> QED
    BY <2>2, <2>3 DEF Carried
<1>4. ReaderOK(v)
  <2>1. CASE v.evdev = w.evdev /\ v.tv.fd = w.tv.fd
    BY <2>1 DEF ReaderOK
  <2>2. CASE Emptied(v)
    BY <2>2 DEF ReaderOK, Emptied, EmptyQueue
  <2> QED
    BY <2>1, <2>2 DEF Carried
<1>5. TimesOK(v)
  <2>1. CASE v.evdev = w.evdev /\ v.tv.fd = w.tv.fd
    BY <2>1 DEF TimesOK, Carried, Sorted, NotBefore, NotAfter
  <2>2. CASE Emptied(v)
    BY <1>1, <2>2 DEF TimesOK, Carried, Emptied, EmptyQueue, Sorted, NotBefore, NotAfter
  <2> QED
    BY <2>1, <2>2 DEF Carried
<1> QED
  BY <1>3, <1>4, <1>5

\* Without a batch, what a step carries over is as good as it was.
LEMMA CarriedIsGood ==
    ASSUME NEW w, Good(w), NEW v, Core(v), Carried(w, v), v.app.batch = <<>>
    PROVE  Good(v)
<1>1. Typed(v) /\ ReaderOK(v) /\ TimesOK(v)
  BY CarriedKeeps DEF Good
<1>2. BatchOK(v)
  BY DEF BatchOK
<1> QED
  BY <1>1, <1>2 DEF Good

\* A step that takes events along, or turns to another phase, leaves the rest alone.
Turned(w, v) ==
    /\ v \in Worlds /\ SameScreen(w, v) /\ v.server = w.server
    /\ v.app.mask = w.app.mask /\ v.app.held = w.app.held
    /\ v.app.armed = w.app.armed /\ v.app.sampling = w.app.sampling
    /\ v.tv.pressed = w.tv.pressed /\ v.tv.focus = w.tv.focus /\ v.tv.sdl = w.tv.sdl
    /\ v.tv.stale = w.tv.stale /\ v.tv.hung = w.tv.hung
    /\ v.evdev.started = w.evdev.started /\ v.evdev.running = w.evdev.running
    /\ v.evdev.grabbed = w.evdev.grabbed
    /\ ~w.evdev.started => v.evdev.queue = w.evdev.queue /\ v.tv.fd = w.tv.fd
    /\ w.evdev.queue.reset => v.evdev.queue.reset
    /\ v.app.phase \in {"sdl", "pump"} \/ w.app.phase \notin {"sdl", "pump"} \/ ~LossIn(w.tv.sdl)

LEMMA TurnedKeeps ==
    ASSUME NEW w, Core(w), NEW v, Turned(w, v)
    PROVE  Core(v)
<1>1. v \in Worlds /\ v.tv.sdl \in Seq(Signal)
  BY DEF Turned, Core
<1>2. IdleOK(v) /\ PanelOK(v) /\ HeldOK(v)
  BY DEF Turned, Core, IdleOK, PanelOK, HeldOK, SameScreen
<1>3. GrabOK(v) /\ FocusOK(v)
  BY DEF Turned, Core, GrabOK, FocusOK, SameScreen, Focused
<1>4. ArmedOK(v)
  BY DEF Turned, Core, ArmedOK, SameScreen, Focused
<1>5. QueuedOK(v) /\ MaskOK(v)
  BY DEF Turned, Core, QueuedOK, OpenOn, MaskOK, Excused, DownOn, SameScreen
<1>6. ClicksOK(v)
  BY DEF Turned, Core, ClicksOK, Clicks, Excused, DownOn, SameScreen
<1> QED
  BY <1>1, <1>2, <1>3, <1>4, <1>5, <1>6 DEF Core

-----------------------------------------------------------------------------
(* The SDL thread drains the queue.                                        *)

LEMMA EventsAreTimed ==
    /\ AnyEvent \subseteq Event
    /\ \A x \in AnyEvent : x.time \in Nat /\ x.kind \in Usb /\ x.code \in Has[x.kind]
    /\ Seq(AnyEvent) \subseteq Seq(Event)
<1>1. AnyEvent \subseteq Event
  BY DEF AnyEvent, UsbEvent
<1>2. \A x \in AnyEvent : x.time \in Nat /\ x.kind \in Usb /\ x.code \in Has[x.kind]
  BY DEF AnyEvent, UsbEvent, Event, Usb
<1> QED
  BY <1>1, <1>2

\* What was lost may have been releases: everything is released.
LEMMA DrainResetKeeps ==
    ASSUME NEW o, Good(o), o.app.batch = <<>>, o.evdev.started, o.evdev.queue.reset
    PROVE  LET v == [Flush([o EXCEPT !.evdev.queue = TakeReset(@)]) EXCEPT !.app.side = FALSE]
           IN  Good(v) /\ v.app.last = o.app.last
<1> DEFINE q == TakeReset(o.evdev.queue)
           x == [o.evdev EXCEPT !.queue = q]
           t == [o EXCEPT !.evdev = x]
           f == Flush(t)
           v == [f EXCEPT !.app.side = FALSE]
<1>1. o \in Worlds /\ o.evdev \in Evdev /\ o.app \in App /\ Core(o)
  BY DEF Good, Typed, Worlds
<1>2. q \in [events: Seq(Event), reset: BOOLEAN, before: Nat]
      /\ q.events = o.evdev.queue.events /\ q.before = o.evdev.queue.before
  BY <1>1 DEF TakeReset, Evdev
<1> HIDE DEF q
<1>3. /\ x \in Evdev /\ x.queue = q /\ x.started = o.evdev.started
      /\ x.running = o.evdev.running /\ x.grabbed = o.evdev.grabbed
      /\ x.sweeping = o.evdev.sweeping /\ x.todo = o.evdev.todo /\ x.cutoff = o.evdev.cutoff
  BY <1>1, <1>2 DEF Evdev
<1> HIDE DEF x
<1>4. t \in Worlds /\ t.app = o.app /\ t.evdev = x /\ t.tv = o.tv /\ t.server = o.server
  BY <1>1, <1>3 DEF Worlds
<1>5. t = [o EXCEPT !.evdev.queue = TakeReset(@)]
  BY DEF x, q
<1> HIDE DEF t
<1>6. HeldOK(t)
  BY <1>1, <1>4 DEF Core, HeldOK
<1>7. Flushed(t, f)
  BY <1>4, <1>6, FlushFlushes
<1> HIDE DEF f
<1>8. /\ v \in Worlds /\ v.evdev = x /\ v.tv = o.tv
      /\ v.app = [o.app EXCEPT !.held = {}, !.side = FALSE] /\ v.server = f.server
  <2>1. /\ f \in Worlds /\ f.app \in App /\ f.app = [o.app EXCEPT !.held = {}]
        /\ f.evdev = x /\ f.tv = o.tv
    BY <1>4, <1>7 DEF Flushed, Worlds
  <2>2. v.app = [f.app EXCEPT !.side = FALSE] /\ v.evdev = f.evdev /\ v.tv = f.tv
        /\ v.server = f.server /\ v \in Worlds
    BY <2>1 DEF Worlds, App
  <2> QED
    BY <2>1, <2>2
<1>9. v = [Flush([o EXCEPT !.evdev.queue = TakeReset(@)]) EXCEPT !.app.side = FALSE]
  BY <1>5 DEF f
<1> HIDE DEF v
<1>10. /\ SameScreen(o, v) /\ v.app.held = {} /\ v.app.armed = o.app.armed
       /\ v.app.batch = o.app.batch /\ v.app.last = o.app.last /\ v.app.phase = o.app.phase
       /\ v.app.sampling = o.app.sampling
  BY <1>1, <1>8 DEF App, SameScreen
<1>11. \A s \in Slots : v.server[s].down = {} /\ v.server[s].state = o.server[s].state
  BY <1>4, <1>7, <1>8 DEF Flushed
<1>12. Core(v)
  <2>1. v.tv.sdl \in Seq(Signal) /\ o.app.slot \in Slots
    BY <1>1, <1>8 DEF Core, App
  <2>2. IdleOK(v) /\ GrabOK(v) /\ FocusOK(v)
    BY <1>1, <1>3, <1>8, <1>10 DEF Core, IdleOK, GrabOK, FocusOK, Focused, SameScreen
  <2>3. PanelOK(v) /\ HeldOK(v)
    BY <1>1, <1>10, <1>11, <2>1 DEF Core, PanelOK, HeldOK, SameScreen
  <2>4. ArmedOK(v)
    BY <1>1, <1>8, <1>10 DEF Core, ArmedOK, Focused, SameScreen
  <2>5. QueuedOK(v)
    BY <1>1, <1>3, <1>8 DEF Core, QueuedOK, OpenOn
  <2>6. ~v.app.panel /\ Clicks(v) = {}
    BY <1>1, <1>10 DEF Core, GrabOK, SameScreen, Clicks
  <2>7. MaskOK(v) /\ ClicksOK(v)
    BY <2>6 DEF MaskOK, ClicksOK
  <2> QED
    BY <1>8, <2>1, <2>2, <2>3, <2>4, <2>5, <2>7 DEF Core
<1>13. Typed(v)
  BY <1>2, <1>3, <1>8, <1>10 DEF Good, Typed
<1>14. ReaderOK(v)
  BY <1>2, <1>3, <1>8 DEF Good, ReaderOK
<1>15. BatchOK(v)
  BY <1>10 DEF BatchOK
<1>16. TimesOK(v)
  BY <1>2, <1>3, <1>8, <1>10 DEF Good, TimesOK
<1>17. Good(v)
  BY <1>12, <1>13, <1>14, <1>15, <1>16 DEF Good
<1> QED
  BY <1>9, <1>10, <1>17

LEMMA TakeBatchKeeps ==
    ASSUME NEW o, Good(o), o.app.phase = "drain", o.app.batch = <<>>,
           o.evdev.started, NextKind(o.evdev.queue) \in Usb
    PROVE  LET v == [o EXCEPT !.app.batch = Batch(o.evdev.queue),
                              !.evdev.queue = WithoutBatch(@)]
           IN  Good(v) /\ v.app.last = o.app.last
<1> DEFINE q == o.evdev.queue
           B == Batch(q)
           R == SubSeq(q.events, Len(B) + 1, Len(q.events))
           p == WithoutBatch(q)
           x == [o.evdev EXCEPT !.queue = p]
           a == [o.app EXCEPT !.batch = B]
           v == [o EXCEPT !.app = a, !.evdev = x]
<1>1. /\ o \in Worlds /\ o.evdev \in Evdev /\ o.app \in App /\ o.tv \in Tv /\ Core(o)
      /\ q.events \in Seq(AnyEvent)
  BY DEF Good, Typed, Worlds
<1>2. q \in [events: Seq(Event), reset: BOOLEAN, before: Nat]
  BY <1>1 DEF Evdev
<1>3. ~q.reset
  BY DEF NextKind, Usb
<1>4. /\ B \in Seq(AnyEvent) /\ R \in Seq(AnyEvent)
      /\ \A i \in DOMAIN B : B[i].kind = NextKind(q) /\ B[i].time < q.before
      /\ Among(B, q.events) /\ Among(R, q.events)
      /\ Sorted(q.events) =>
           Sorted(B) /\ Sorted(R) /\ \A i \in DOMAIN B : NotBefore(R, B[i].time)
  BY <1>1, <1>3, EventsAreTimed, BatchTaken
<1>5. p = [q EXCEPT !.events = R]
  BY DEF WithoutBatch
<1>6. v = [o EXCEPT !.app.batch = Batch(o.evdev.queue), !.evdev.queue = WithoutBatch(@)]
  OBVIOUS
<1> HIDE DEF B, R, p, v, q
<1>7. /\ p \in [events: Seq(Event), reset: BOOLEAN, before: Nat]
      /\ p.events = R /\ p.before = q.before /\ p.reset = q.reset
  BY <1>2, <1>4, <1>5, EventsAreTimed
<1>8. /\ x \in Evdev /\ x.queue = p /\ x.started = o.evdev.started
      /\ x.running = o.evdev.running /\ x.grabbed = o.evdev.grabbed
      /\ x.sweeping = o.evdev.sweeping /\ x.todo = o.evdev.todo /\ x.cutoff = o.evdev.cutoff
  BY <1>1, <1>7 DEF Evdev
<1>9. a \in App /\ a.batch = B /\ a.last = o.app.last /\ a.phase = o.app.phase
      /\ a.mask = o.app.mask /\ a.held = o.app.held /\ a.armed = o.app.armed
      /\ a.sampling = o.app.sampling /\ a.slot = o.app.slot
      /\ a.streaming = o.app.streaming /\ a.panel = o.app.panel
      /\ a.unfocused = o.app.unfocused /\ a.away = o.app.away
  BY <1>1, <1>4, EventsAreTimed DEF App
<1> HIDE DEF x, a
<1>10. v \in Worlds /\ v.app = a /\ v.evdev = x /\ v.tv = o.tv /\ v.server = o.server
  BY <1>1, <1>8, <1>9 DEF Worlds, v
<1>11. Turned(o, v)
  BY <1>3, <1>8, <1>9, <1>10 DEF Turned, SameScreen, q
<1>12. Core(v)
  BY <1>1, <1>11, TurnedKeeps
<1>13. Typed(v)
  BY <1>4, <1>7, <1>8, <1>9, <1>10 DEF Good, Typed
<1>14. \A i \in DOMAIN R : \E j \in DOMAIN q.events : R[i] = q.events[j]
  BY <1>4 DEF Among
<1>15. \A i \in DOMAIN B : \E j \in DOMAIN q.events : B[i] = q.events[j]
  BY <1>4 DEF Among
<1>16. \/ "mouse" \in o.evdev.grabbed
       \/ \A i \in DOMAIN q.events : q.events[i].kind # "mouse"
  BY <1>3 DEF Good, ReaderOK, q
<1>17. ReaderOK(v)
  <2>1. \/ "mouse" \in o.evdev.grabbed
        \/ \A i \in DOMAIN R : R[i].kind # "mouse"
    BY <1>14, <1>16
  <2> QED
    BY <1>3, <1>7, <1>8, <1>10, <2>1 DEF Good, ReaderOK
<1>18. BatchOK(v)
  <2>1. (\E i \in DOMAIN B : B[i].kind = "mouse") => "mouse" \in o.evdev.grabbed
    BY <1>15, <1>16
  <2> QED
    BY <1>4, <1>8, <1>9, <1>10, <2>1 DEF BatchOK
<1>19. TimesOK(v)
  <2>1. /\ Sorted(q.events) /\ NotBefore(q.events, o.app.last)
        /\ o.app.last <= o.tv.now /\ q.before <= o.tv.now + 1
        /\ o.evdev.sweeping => o.evdev.cutoff <= o.tv.now + 1
    BY DEF Good, TimesOK, q
  <2>2. \A d \in Usb :
          /\ Sorted(o.tv.fd[d]) /\ NotAfter(o.tv.fd[d], o.tv.now)
          /\ NotBefore(o.tv.fd[d], o.app.last) /\ NotBefore(o.tv.fd[d], q.before)
          /\ o.evdev.sweeping /\ d \notin o.evdev.todo
                 => NotBefore(o.tv.fd[d], o.evdev.cutoff)
    BY DEF Good, TimesOK, q
  <2>3. \A i \in DOMAIN B : B[i] \in AnyEvent /\ B[i].time \in Nat
    BY <1>4, EventsAreTimed
  <2>4. q.before \in Nat /\ o.tv.now \in Nat
    BY <1>1, <1>2 DEF Tv
  <2>5. NotAfter(B, o.tv.now)
    BY <1>4, <2>1, <2>3, <2>4 DEF NotAfter
  <2>6. NotBefore(B, o.app.last) /\ NotBefore(R, o.app.last)
    BY <1>14, <1>15, <2>1 DEF NotBefore
  <2>7. ASSUME NEW d \in Usb, NEW i \in DOMAIN B
        PROVE  NotBefore(o.tv.fd[d], B[i].time)
    <3>1. \A j \in DOMAIN o.tv.fd[d] : o.tv.fd[d][j].time \in Nat
      <4>1. o.tv.fd[d] \in Seq(UsbEvent(d))
        BY DEF Good, Typed
      <4>2. \A z \in UsbEvent(d) : z.time \in Nat
        BY DEF UsbEvent, Event
      <4> QED
        BY <4>1, <4>2
    <3> QED
      BY <1>4, <2>2, <2>3, <2>4, <3>1 DEF NotBefore
  <2> QED
    BY <1>4, <1>7, <1>8, <1>9, <1>10, <2>1, <2>2, <2>5, <2>6, <2>7 DEF TimesOK
<1>20. Good(v)
  BY <1>12, <1>13, <1>17, <1>18, <1>19 DEF Good
<1> QED
  BY <1>6, <1>9, <1>10, <1>20

\* The first event of a batch is taken off it.
LEMMA EventTaken ==
    ASSUME NEW o, Good(o), o.app.phase = "drain", o.app.batch # <<>>
    PROVE  LET e == Head(o.app.batch)
               w == [o EXCEPT !.app.batch = Tail(@), !.app.last = e.time]
           IN  /\ Good(w) /\ w.evdev = o.evdev /\ w.app.phase = "drain"
               /\ w.app.sampling = o.app.sampling
               /\ o.app.last <= w.app.last /\ w.app.last = e.time
               /\ e \in AnyEvent
               /\ e.kind = "mouse" => w.evdev.started
                                      /\ ("mouse" \in w.evdev.grabbed \/ w.evdev.queue.reset)
               /\ e.kind # "mouse" => \A i \in DOMAIN w.app.batch : w.app.batch[i].kind # "mouse"
<1> DEFINE B == o.app.batch
           e == Head(B)
           R == Tail(B)
           a == [o.app EXCEPT !.batch = R, !.last = e.time]
           w == [o EXCEPT !.app.batch = Tail(@), !.app.last = e.time]
<1>1. /\ o \in Worlds /\ o.app \in App /\ o.tv \in Tv /\ o.evdev \in Evdev /\ Core(o)
      /\ B \in Seq(AnyEvent) /\ B # <<>>
  BY DEF Good, Typed, Worlds
<1>2. /\ R \in Seq(AnyEvent) /\ e \in AnyEvent /\ e = B[1] /\ 1 \in DOMAIN B
      /\ \A k \in DOMAIN R : k + 1 \in DOMAIN B /\ R[k] = B[k + 1] /\ k \in Nat /\ 1 < k + 1
  BY <1>1
<1>3. w = [o EXCEPT !.app = a]
  OBVIOUS
<1>4. e.time \in Nat /\ e.kind \in Usb
  BY <1>2, EventsAreTimed
<1> HIDE DEF R, e, w
<1>5. /\ a \in App /\ a.batch = R /\ a.last = e.time /\ a.phase = o.app.phase
      /\ a.mask = o.app.mask /\ a.held = o.app.held /\ a.armed = o.app.armed
      /\ a.sampling = o.app.sampling /\ a.slot = o.app.slot
      /\ a.streaming = o.app.streaming /\ a.panel = o.app.panel
      /\ a.unfocused = o.app.unfocused /\ a.away = o.app.away
  BY <1>1, <1>2, <1>4, EventsAreTimed DEF App
<1> HIDE DEF a
<1>6. w \in Worlds /\ w.app = a /\ w.evdev = o.evdev /\ w.tv = o.tv /\ w.server = o.server
  BY <1>1, <1>3, <1>5 DEF Worlds
<1>7. Turned(o, w)
  BY <1>5, <1>6 DEF Turned, SameScreen
<1>8. Core(w)
  BY <1>1, <1>7, TurnedKeeps
<1>9. Typed(w)
  BY <1>2, <1>5, <1>6 DEF Good, Typed
<1>10. ReaderOK(w)
  BY <1>6 DEF Good, ReaderOK
<1>11. \A i, j \in DOMAIN B : B[i].kind = B[j].kind
  BY DEF Good, BatchOK
<1>12. \A i \in DOMAIN R : R[i].kind = e.kind
  BY <1>2, <1>11
<1>13. e.kind = "mouse" => o.evdev.started
                           /\ ("mouse" \in o.evdev.grabbed \/ o.evdev.queue.reset)
  BY <1>2 DEF Good, BatchOK
<1>14. BatchOK(w)
  BY <1>5, <1>6, <1>12, <1>13 DEF BatchOK
<1>15. Sorted(B) /\ NotBefore(B, o.app.last) /\ NotAfter(B, o.tv.now)
       /\ \A i \in DOMAIN B : NotBefore(o.evdev.queue.events, B[i].time)
  BY DEF Good, TimesOK
<1>16. o.app.last <= e.time /\ e.time <= o.tv.now /\ NotBefore(o.evdev.queue.events, e.time)
  BY <1>2, <1>15 DEF NotBefore, NotAfter
<1>17. TimesOK(w)
  <2>1. Sorted(R) /\ NotAfter(R, o.tv.now)
    <3>1. \A i, j \in DOMAIN R : i < j => R[i].time <= R[j].time
      <4> SUFFICES ASSUME NEW i \in DOMAIN R, NEW j \in DOMAIN R, i < j
                   PROVE  R[i].time <= R[j].time
        OBVIOUS
      <4>1. i + 1 < j + 1
        BY <1>2
      <4> QED
        BY <1>2, <1>15, <4>1 DEF Sorted
    <3> QED
      BY <1>2, <1>15, <3>1 DEF Sorted, NotAfter
  <2>2. NotBefore(R, e.time)
    BY <1>2, <1>15 DEF Sorted, NotBefore
  <2>3. \A i \in DOMAIN R : NotBefore(o.evdev.queue.events, R[i].time)
    BY <1>2, <1>15
  <2>4. ASSUME NEW d \in Usb
        PROVE  /\ NotBefore(o.tv.fd[d], e.time)
               /\ \A i \in DOMAIN R : NotBefore(o.tv.fd[d], R[i].time)
    <3>1. \A i \in DOMAIN B : NotBefore(o.tv.fd[d], B[i].time)
      BY DEF Good, TimesOK
    <3> QED
      BY <1>2, <3>1
  <2>5. /\ Sorted(o.evdev.queue.events) /\ o.evdev.queue.before <= o.tv.now + 1
        /\ o.evdev.sweeping => o.evdev.cutoff <= o.tv.now + 1
        /\ \A d \in Usb :
             /\ Sorted(o.tv.fd[d]) /\ NotAfter(o.tv.fd[d], o.tv.now)
             /\ NotBefore(o.tv.fd[d], o.evdev.queue.before)
             /\ o.evdev.sweeping /\ d \notin o.evdev.todo
                    => NotBefore(o.tv.fd[d], o.evdev.cutoff)
    BY DEF Good, TimesOK
  <2> QED
    BY <1>5, <1>6, <1>16, <2>1, <2>2, <2>3, <2>4, <2>5 DEF TimesOK
<1>18. Good(w)
  BY <1>8, <1>9, <1>10, <1>14, <1>17 DEF Good
<1>19. e.kind # "mouse" => \A i \in DOMAIN w.app.batch : w.app.batch[i].kind # "mouse"
  BY <1>5, <1>6, <1>12
<1> QED
  BY <1>2, <1>5, <1>6, <1>13, <1>16, <1>18, <1>19, Zenon DEF w, e

\* What a device says is sent and tracked.
LEMMA SentKeeps ==
    ASSUME NEW w, Core(w), NEW c \in Forwarded, NEW d,
           c \notin Buttons \/ (/\ w.evdev.started
                                /\ "mouse" \in w.evdev.grabbed \/ w.evdev.queue.reset)
    PROVE  LET x == Track(Send(w, c, d), c, d)
           IN  Core(x) /\ Within(w, x) /\ x.evdev = w.evdev
<1> DEFINE x == Track(Send(w, c, d), c, d)
<1>1. w \in Worlds /\ HeldOK(w)
  BY DEF Core
<1>2. Sent(w, x, c, d)
  BY <1>1, SentIsTracked
<1> HIDE DEF x
<1>3. IdleOK(x) /\ GrabOK(x) /\ FocusOK(x)
  BY <1>2 DEF Core, Sent, IdleOK, GrabOK, FocusOK, Focused, SameScreen
<1>4. PanelOK(x) /\ HeldOK(x)
  <2>1. w.app.slot \in Slots
    BY <1>1 DEF Worlds, App
  <2> QED
    BY <1>2, <2>1 DEF Core, Sent, PanelOK, SameScreen, SameStates
<1>5. ArmedOK(x)
  BY <1>2 DEF Core, Sent, ArmedOK, Focused, SameScreen, SamePlace
<1>6. QueuedOK(x) /\ MaskOK(x)
  BY <1>2 DEF Core, Sent, QueuedOK, OpenOn, MaskOK, Excused, DownOn, SameScreen
<1>7. ClicksOK(x)
  <2>1. CASE c \notin Buttons
    <3>1. Clicks(x) = Clicks(w)
      BY <1>2, <2>1 DEF Sent, Clicks
    <3> QED
      BY <1>2, <3>1 DEF Core, Sent, ClicksOK, Excused, DownOn, SameScreen
  <2>2. CASE w.evdev.started /\ ("mouse" \in w.evdev.grabbed \/ w.evdev.queue.reset)
    <3>1. x.app.streaming /\ ~x.app.panel /\ (x.app.unfocused => LossIn(x.tv.sdl))
      BY <1>2, <2>2 DEF Core, Sent, GrabOK, Focused, SameScreen
    <3> QED
      BY <1>2, <2>2, <3>1 DEF Sent, ClicksOK
  <2> QED
    BY <2>1, <2>2
<1>8. Core(x)
  BY <1>2, <1>3, <1>4, <1>5, <1>6, <1>7 DEF Core, Sent
<1>9. Within(w, x) /\ x.evdev = w.evdev
  BY <1>2 DEF Sent, Within
<1> QED
  BY <1>8, <1>9 DEF x

LEMMA PlainKeeps ==
    ASSUME NEW w, Core(w), NEW x, Plain(w, x), x.app.mask = w.app.mask
    PROVE  Core(x) /\ Within(w, x)
<1>1. HeldOK(x)
  BY DEF Core, Plain, HeldOK, SameScreen
<1>2. Eases(w, x)
  BY <1>1 DEF Plain, Eases, SameReader, SameStates
<1> QED
  BY <1>2, EasesKeeps

\* The rest of a batch is dropped.
LEMMA BatchDropped ==
    ASSUME NEW w, Good(w), NEW x, Core(x), Within(w, x)
    PROVE  LET v == [x EXCEPT !.app.batch = <<>>] IN Good(v) /\ v.app.last = w.app.last
<1> DEFINE none == <<>>
           a == [x.app EXCEPT !.batch = none]
           v == [x EXCEPT !.app.batch = none]
<1>1. x \in Worlds /\ x.app \in App /\ none \in Seq(Event)
  BY DEF Core, Worlds
<1> HIDE DEF none
<1>2. /\ a \in App /\ a.batch = none /\ a.last = x.app.last /\ a.phase = x.app.phase
      /\ a.mask = x.app.mask /\ a.held = x.app.held /\ a.armed = x.app.armed
      /\ a.sampling = x.app.sampling /\ a.slot = x.app.slot
      /\ a.streaming = x.app.streaming /\ a.panel = x.app.panel
      /\ a.unfocused = x.app.unfocused /\ a.away = x.app.away
  BY <1>1 DEF App
<1>3. v = [x EXCEPT !.app = a]
  OBVIOUS
<1> HIDE DEF a, v
<1>4. v \in Worlds /\ v.app = a /\ v.evdev = x.evdev /\ v.tv = x.tv /\ v.server = x.server
  BY <1>1, <1>2, <1>3 DEF Worlds
<1>5. Turned(x, v)
  BY <1>2, <1>4 DEF Turned, SameScreen
<1>6. Core(v)
  BY <1>5, TurnedKeeps
<1>7. Carried(w, v)
  BY <1>2, <1>4 DEF Within, SamePlace, Carried, Emptied, none
<1>8. Good(v) /\ v.app.last = w.app.last
  BY <1>2, <1>4, <1>6, <1>7, CarriedIsGood DEF Carried, none
<1> QED
  BY <1>8 DEF v, none

\* With a batch under way, an event is taken that leaves the reader alone, or stops it
\* for a batch that has no mouse's.
LEMMA RoutedIsGood ==
    ASSUME NEW w, Good(w), NEW v, Core(v), Within(w, v),
           \/ v.evdev = w.evdev
           \/ \A i \in DOMAIN w.app.batch : w.app.batch[i].kind # "mouse"
    PROVE  Good(v) /\ v.app.last = w.app.last
<1>1. Typed(v) /\ ReaderOK(v) /\ TimesOK(v)
  BY WithinIsCarried, CarriedKeeps DEF Good
<1>2. BatchOK(v)
  BY DEF Good, BatchOK, Within, SamePlace
<1> QED
  BY <1>1, <1>2 DEF Good, Within, SamePlace

LEMMA RouteMouseKeeps ==
    ASSUME NEW w, Good(w), ~w.evdev.sweeping, ~w.app.sampling, w.evdev.started,
           "mouse" \in w.evdev.grabbed \/ w.evdev.queue.reset,
           NEW e \in AnyEvent, e.kind = "mouse"
    PROVE  Good(RouteMouse(w, e)) /\ RouteMouse(w, e).app.last = w.app.last
<1> DEFINE v == RouteMouse(w, e)
<1>1. Core(w) /\ w \in Worlds /\ w.app \in App /\ w.app.streaming /\ ~w.app.panel
  BY DEF Good, Core, GrabOK, Worlds
<1>2. e.code \in Buttons /\ e.down \in BOOLEAN
  BY DEF AnyEvent, UsbEvent, Event, Has
<1>3. CASE e.code = "side"
  <2> DEFINE z == e.down
             edge == [w EXCEPT !.app.side = z]
             hub == ShowHub(edge)
  <2>1. v = IF e.down \/ ~w.app.side THEN edge
            ELSE IF hub.app.hub THEN [hub EXCEPT !.app.batch = <<>>] ELSE hub
    BY <1>1, <1>3 DEF RouteMouse
  <2>2. Plain(w, edge) /\ edge.app.mask = w.app.mask
    BY <1>1, <1>2, SideIsPlain
  <2> HIDE DEF edge, v
  <2>3. Core(edge) /\ Within(w, edge) /\ edge.evdev = w.evdev
    BY <1>1, <2>2, PlainKeeps DEF Plain
  <2>4. ~edge.evdev.sweeping /\ ~edge.app.sampling /\ edge.app.streaming /\ ~edge.app.panel
    BY <1>1, <2>2 DEF Plain, SameScreen
  <2>5. Core(hub) /\ Within(w, hub)
    BY <2>3, <2>4, ShowHubKeeps, WithinTwice
  <2>6. hub.app.hub
    <3> DEFINE r == Stop(edge)
    <3>1. hub = [r EXCEPT !.app.streaming = FALSE, !.app.hub = TRUE]
      BY <2>4 DEF ShowHub
    <3>2. r \in Worlds
      BY <2>3, <2>4, CoreIsStopReady, StopKeeps DEF Core
    <3> HIDE DEF r, hub
    <3>3. r.app \in App
      BY <3>2 DEF Worlds
    <3> QED
      BY <3>1, <3>2, <3>3 DEF Worlds, App
  <2> HIDE DEF hub
  <2>7. Good(edge) /\ edge.app.last = w.app.last
    BY <2>3, RoutedIsGood
  <2>8. Good([hub EXCEPT !.app.batch = <<>>])
        /\ [hub EXCEPT !.app.batch = <<>>].app.last = w.app.last
    BY <2>5, BatchDropped
  <2>9. Good(v) /\ v.app.last = w.app.last
    BY <2>1, <2>6, <2>7, <2>8
  <2> QED
    BY <2>9 DEF v
<1>4. CASE e.code = "extra"
  <2>1. v = IF ~e.down THEN w ELSE [ShowPanel(w) EXCEPT !.app.batch = <<>>]
    BY <1>1, <1>4 DEF RouteMouse
  <2>2. Core(ShowPanel(w)) /\ Within(w, ShowPanel(w))
    BY <1>1, ShowPanelKeeps
  <2>3. Good([ShowPanel(w) EXCEPT !.app.batch = <<>>])
        /\ [ShowPanel(w) EXCEPT !.app.batch = <<>>].app.last = w.app.last
    BY <2>2, BatchDropped
  <2> QED
    BY <2>1, <2>3
<1>5. CASE e.code \notin {"side", "extra"}
  <2>1. v = Track(Send(w, e.code, e.down), e.code, e.down)
    BY <1>5 DEF RouteMouse
  <2>2. e.code \in Forwarded
    BY <1>2, <1>5 DEF Buttons, Forwarded
  <2>3. Core(v) /\ Within(w, v) /\ v.evdev = w.evdev
    BY <1>1, <2>1, <2>2, SentKeeps
  <2> QED
    BY <2>3, RoutedIsGood
<1> QED
  BY <1>3, <1>4, <1>5

LEMMA RouteKeyboardKeeps ==
    ASSUME NEW w, Good(w), ~w.evdev.sweeping, ~w.app.sampling,
           \A i \in DOMAIN w.app.batch : w.app.batch[i].kind # "mouse",
           NEW e \in AnyEvent, e.kind # "mouse"
    PROVE  Good(RouteKeyboard(w, e)) /\ RouteKeyboard(w, e).app.last = w.app.last
<1> DEFINE v == RouteKeyboard(w, e)
<1>1. Core(w) /\ Within(w, w)
  BY WithinItself DEF Good
<1>2. e.code \in {"key"} \cup Slots
  BY DEF AnyEvent, UsbEvent, Event, Has, Usb
<1>3. CASE ~w.evdev.started
  <2>1. v = [w EXCEPT !.app.batch = <<>>]
    BY <1>3 DEF RouteKeyboard
  <2> QED
    BY <1>1, <2>1, BatchDropped
<1>4. CASE w.evdev.started /\ e.code \in Slots
  <2>1. v = IF e.down THEN RequestSwitch(w, e.code) ELSE w
    BY <1>4 DEF RouteKeyboard
  <2>2. Core(RequestSwitch(w, e.code)) /\ Within(w, RequestSwitch(w, e.code))
    BY <1>1, <1>4, RequestSwitchKeeps
  <2>3. Core(v) /\ Within(w, v)
    BY <1>1, <2>1, <2>2
  <2> QED
    BY <2>3, RoutedIsGood
<1>5. CASE w.evdev.started /\ e.code \notin Slots
  <2>1. e.code = "key" /\ e.code \in Forwarded /\ e.code \notin Buttons
    BY <1>2, <1>5 DEF Forwarded, Buttons
  <2> DEFINE x == Track(Send(w, e.code, e.down), e.code, e.down)
  <2>2. v = IF Ready(w) THEN x ELSE w
    BY <1>5 DEF RouteKeyboard
  <2>3. Core(x) /\ Within(w, x)
    BY <1>1, <2>1, SentKeeps
  <2> HIDE DEF x, v
  <2>4. Core(v) /\ Within(w, v)
    BY <1>1, <2>2, <2>3
  <2>5. Good(v) /\ v.app.last = w.app.last
    BY <2>4, RoutedIsGood
  <2> QED
    BY <2>5 DEF v
<1> QED
  BY <1>3, <1>4, <1>5

-----------------------------------------------------------------------------
(* The SDL thread handles events, ticks and presents.                      *)

\* The thread turns to its next phase.
LEMMA PhaseTurned ==
    ASSUME NEW w, Core(w), NEW h \in BOOLEAN,
           NEW p \in {"drain", "sdl", "pump", "tick", "present"},
           p \in {"sdl", "pump"} \/ w.app.phase \notin {"sdl", "pump"} \/ ~LossIn(w.tv.sdl)
    PROVE  LET v == [w EXCEPT !.app.hub = h, !.app.phase = p]
           IN  /\ Core(v) /\ Carried(w, v) /\ v.evdev = w.evdev /\ v.app.batch = w.app.batch
               /\ SameScreen(w, v) /\ v.app.sampling = w.app.sampling
<1> DEFINE a == [w.app EXCEPT !.hub = h, !.phase = p]
           v == [w EXCEPT !.app.hub = h, !.app.phase = p]
<1>1. w \in Worlds /\ w.app \in App
  BY DEF Core, Worlds
<1>2. /\ a \in App /\ a.batch = w.app.batch /\ a.last = w.app.last /\ a.phase = p
      /\ a.mask = w.app.mask /\ a.held = w.app.held /\ a.armed = w.app.armed
      /\ a.sampling = w.app.sampling /\ a.slot = w.app.slot
      /\ a.streaming = w.app.streaming /\ a.panel = w.app.panel
      /\ a.unfocused = w.app.unfocused /\ a.away = w.app.away
  BY <1>1 DEF App
<1>3. v = [w EXCEPT !.app = a]
  OBVIOUS
<1> HIDE DEF a, v
<1>4. v \in Worlds /\ v.app = a /\ v.evdev = w.evdev /\ v.tv = w.tv /\ v.server = w.server
  BY <1>1, <1>2, <1>3 DEF Worlds
<1>5. Turned(w, v)
  BY <1>2, <1>4 DEF Turned, SameScreen
<1>6. Core(v)
  BY <1>5, TurnedKeeps
<1>7. Carried(w, v)
  BY <1>2, <1>4 DEF Carried
<1>8. /\ Core(v) /\ Carried(w, v) /\ v.evdev = w.evdev /\ v.app.batch = w.app.batch
      /\ SameScreen(w, v) /\ v.app.sampling = w.app.sampling
  BY <1>2, <1>4, <1>5, <1>6, <1>7 DEF Turned
<1> QED
  BY <1>8 DEF v

LEMMA PhaseAlone ==
    ASSUME NEW w \in Worlds, NEW p
    PROVE  [w EXCEPT !.app.phase = p] = [w EXCEPT !.app.hub = w.app.hub, !.app.phase = p]
<1>1. w.app \in App
  BY DEF Worlds
<1>2. [w.app EXCEPT !.phase = p] = [w.app EXCEPT !.hub = w.app.hub, !.phase = p]
  BY <1>1 DEF App
<1> QED
  BY <1>2

LEMMA DrainDoneKeeps ==
    ASSUME NEW o, Good(o), o.app.batch = <<>>
    PROVE  LET v == [o EXCEPT !.app.phase = "sdl"] IN Good(v) /\ v.app.last = o.app.last
<1> DEFINE h == o.app.hub
           v == [o EXCEPT !.app.hub = h, !.app.phase = "sdl"]
<1>1. Core(o) /\ o \in Worlds /\ h \in BOOLEAN
  BY DEF Good, Core, Worlds, App
<1>2. [o EXCEPT !.app.phase = "sdl"] = v
  BY <1>1, PhaseAlone
<1>3. Core(v) /\ Carried(o, v) /\ v.app.batch = o.app.batch
  BY <1>1, PhaseTurned, Zenon
<1> HIDE DEF v
<1>4. Good(v) /\ v.app.last = o.app.last
  BY <1>3, CarriedIsGood DEF Carried
<1> QED
  BY <1>2, <1>4

\* An event is taken, and buttons may be excused.
Taken(a, t, i) ==
    /\ t.pressed = a.pressed /\ t.focus = a.focus /\ t.now = a.now
    /\ t.fd = a.fd /\ t.hung = a.hung /\ a.stale \subseteq t.stale
    /\ i \in DOMAIN a.sdl /\ Without(a.sdl, i, t.sdl)

LEMMA TakenIsTv ==
    ASSUME NEW a \in Tv, NEW i \in DOMAIN a.sdl, NEW r, Without(a.sdl, i, r),
           NEW S \in SUBSET Buttons, a.stale \subseteq S
    PROVE  LET t == [a EXCEPT !.sdl = r, !.stale = S]
           IN  t \in Tv /\ Taken(a, t, i)
<1>1. r \in Seq(SdlEvent)
  <2>1. r \in Seq(Signal) /\ Signal \subseteq SdlEvent
    BY DEF Without, Signal
  <2> QED
    BY <2>1
<1> DEFINE t == [a EXCEPT !.sdl = r, !.stale = S]
<1>2. /\ t \in Tv /\ t.sdl = r /\ t.stale = S /\ t.pressed = a.pressed
      /\ t.focus = a.focus /\ t.now = a.now /\ t.fd = a.fd /\ t.hung = a.hung
  BY <1>1 DEF Tv
<1> HIDE DEF t
<1>3. Taken(a, t, i)
  BY <1>2 DEF Taken
<1> QED
  BY <1>2, <1>3 DEF t

LEMMA TakenIsPopped ==
    ASSUME NEW o, Core(o), NEW i, NEW t \in Tv, Taken(o.tv, t, i)
    PROVE  LET v == [o EXCEPT !.tv = t] IN Popped(o, v, i) /\ v.tv = t
<1> DEFINE v == [o EXCEPT !.tv = t]
<1>1. o \in Worlds
  BY DEF Core
<1>2. v \in Worlds /\ v.app = o.app /\ v.evdev = o.evdev /\ v.tv = t /\ v.server = o.server
  BY <1>1 DEF Worlds
<1> HIDE DEF v
<1>3. Popped(o, v, i) /\ v.tv = t
  BY <1>2 DEF Popped, Taken
<1> QED
  BY <1>3 DEF v

LEMMA MouseQueued ==
    ASSUME NEW o, Good(o), NextKind(o.evdev.queue) = "mouse"
    PROVE  "mouse" \in o.evdev.grabbed
<1> DEFINE s == o.evdev.queue.events
<1>1. s \in Seq(AnyEvent)
  BY DEF Good, Typed
<1>2. ~o.evdev.queue.reset /\ s # <<>> /\ Head(s).kind = "mouse"
  BY DEF NextKind
<1>3. 1 \in DOMAIN s /\ s[1] = Head(s)
  BY <1>1, <1>2
<1> QED
  BY <1>2, <1>3 DEF Good, ReaderOK

\* What handling an event leaves is as good as what it found.
LEMMA HandledIsGood ==
    ASSUME NEW o, Good(o), o.app.batch = <<>>, NEW v, NEW i, Popped(o, v, i),
           NEW x, Core(x), Within(v, x)
    PROVE  Good(x) /\ x.app.last = o.app.last
<1>1. Carried(o, x)
  BY PoppedIsCarried
<1>2. x.app.batch = <<>>
  BY DEF Within, SamePlace, Popped
<1> QED
  BY <1>1, <1>2, CarriedIsGood DEF Carried

LEMMA PollSdlKeeps ==
    ASSUME NEW o, Good(o), o.app.phase = "sdl", o.tv.sdl # <<>>,
           ~o.evdev.sweeping, ~o.app.sampling, NEW where
    PROVE  LET x == HandleSdl([o EXCEPT !.tv.sdl = Tail(@)], Head(o.tv.sdl), where)
           IN  Good(x) /\ x.app.last = o.app.last
<1> DEFINE s == o.tv.sdl
           r == Tail(s)
           S == o.tv.stale
           t == [o.tv EXCEPT !.sdl = r, !.stale = S]
           v == [o EXCEPT !.tv = t]
           x == HandleSdl(v, s[1], where)
<1>1. Core(o) /\ o \in Worlds /\ o.tv \in Tv /\ s \in Seq(Signal) /\ s # <<>>
  BY DEF Good, Core, Worlds
<1>2. Without(s, 1, r) /\ 1 \in DOMAIN s /\ Head(s) = s[1]
  BY <1>1, TailIsWithout
<1>3. [o EXCEPT !.tv.sdl = Tail(@)] = v
  <2>1. [o.tv EXCEPT !.sdl = Tail(s)] = t
    BY <1>1 DEF Tv
  <2> HIDE DEF t
  <2> QED
    BY <2>1
<1>4. S \in SUBSET Buttons /\ o.tv.stale \subseteq S
  BY <1>1 DEF Tv
<1> HIDE DEF r, S
<1>5. Popped(o, v, 1) /\ v.tv.sdl = r
  <2>1. t \in Tv /\ Taken(o.tv, t, 1)
    BY <1>1, <1>2, <1>4, TakenIsTv
  <2>2. t.sdl = r
    BY <1>1 DEF Tv
  <2> HIDE DEF t
  <2> QED
    BY <1>1, <2>1, <2>2, TakenIsPopped
<1> HIDE DEF v
<1>6. \A b \in Buttons : LeavesDown(v.tv.sdl, b) => LeavesDown(s, b)
  BY <1>1, <1>2, <1>5, ButtonWithout
<1>7. \A k \in DOMAIN s : k < 1 => s[k].kind \notin {"gained", "back"}
  BY <1>1
<1>8. NextKind(o.evdev.queue) = "mouse" => "mouse" \in o.evdev.grabbed
  BY MouseQueued
<1>9. o.app.batch = <<>>
  BY DEF Good, BatchOK
<1>10. Core(x) /\ Within(v, x)
  BY <1>1, <1>5, <1>6, <1>7, <1>8, HandleSdlKeeps
<1> HIDE DEF x
<1>11. Good(x) /\ x.app.last = o.app.last
  BY <1>5, <1>9, <1>10, HandledIsGood
<1> QED
  BY <1>2, <1>3, <1>11 DEF x

\* A press that the pump leaves behind a loss of focus is excused.
LEMMA PumpSdlKeeps ==
    ASSUME NEW o, Good(o), o.app.phase = "pump", ~o.evdev.sweeping, ~o.app.sampling,
           NEW P, P = {i \in DOMAIN o.tv.sdl : o.tv.sdl[i].kind = "button" => ~o.app.streaming},
           NEW i \in P,
           \A j \in P \ {i} :
               \/ PumpRank(o.tv.sdl[i].kind) < PumpRank(o.tv.sdl[j].kind)
               \/ PumpRank(o.tv.sdl[i].kind) = PumpRank(o.tv.sdl[j].kind) /\ i < j
    PROVE  LET e == o.tv.sdl[i]
               w == [o EXCEPT !.tv.sdl = RemoveAt(@, i),
                              !.tv.stale = IF e.kind = "lost" THEN @ \cup Queued(o, i) ELSE @]
               x == IF e.kind = "button" THEN w ELSE HandleSdl(w, e, "body")
           IN  Good(x) /\ x.app.last = o.app.last
<1> DEFINE s == o.tv.sdl
           e == s[i]
           r == RemoveAt(s, i)
           S == IF e.kind = "lost" THEN o.tv.stale \cup Queued(o, i) ELSE o.tv.stale
           t == [o.tv EXCEPT !.sdl = r, !.stale = S]
           v == [o EXCEPT !.tv = t]
           w == [o EXCEPT !.tv.sdl = RemoveAt(@, i),
                          !.tv.stale = IF e.kind = "lost" THEN @ \cup Queued(o, i) ELSE @]
           x == IF e.kind = "button" THEN v ELSE HandleSdl(v, e, "body")
<1>1. /\ Core(o) /\ o \in Worlds /\ o.tv \in Tv /\ s \in Seq(Signal) /\ i \in DOMAIN s
      /\ o.app.batch = <<>>
  BY DEF Good, Core, Worlds, BatchOK
<1>2. Without(s, i, r)
  BY <1>1, RemoveAtIsWithout
<1>3. w = v
  BY <1>1 DEF Worlds, Tv
<1>4. S \in SUBSET Buttons /\ o.tv.stale \subseteq S
  BY <1>1 DEF Tv, Queued
<1>5. e.kind = "lost" => Queued(o, i) \subseteq S
  OBVIOUS
<1> HIDE DEF r, S, w
<1>6. Popped(o, v, i) /\ v.tv.sdl = r /\ v.tv.stale = S
  <2>1. t \in Tv /\ Taken(o.tv, t, i)
    BY <1>1, <1>2, <1>4, TakenIsTv, Zenon
  <2>2. t.sdl = r /\ t.stale = S
    BY <1>1 DEF Tv
  <2> HIDE DEF t
  <2> QED
    BY <1>1, <2>1, <2>2, TakenIsPopped
<1> HIDE DEF v
<1> HIDE DEF x
<1>7. \A k \in DOMAIN s : k \in Nat
  BY <1>1
<1>8. ASSUME e.kind = "button" PROVE Good(x) /\ x.app.last = o.app.last
  <2>1. ~o.app.streaming /\ ~o.app.panel /\ P = DOMAIN s
    BY <1>1, <1>8 DEF Core, PanelOK
  <2>2. PumpRank(e.kind) = 4 /\ \A j \in DOMAIN s : PumpRank(s[j].kind) \in 1..4
    <3>1. \A j \in DOMAIN s : s[j].kind \in {"button", "colour", "lost", "gained", "away", "back"}
      BY <1>1 DEF Signal, SdlEvent
    <3> QED
      BY <1>8, <3>1 DEF PumpRank
  <2>3. \A j \in DOMAIN s : j # i => i < j
    BY <2>1, <2>2
  <2>4. i = 1
    BY <1>1, <2>3
  <2>5. Plain(v, v)
    BY <1>6 DEF Popped, Plain, SameScreen, SamePlace
  <2>6. Popped(o, v, 1) /\ o.tv.sdl[1].kind = "button"
    BY <1>6, <1>8, <2>4
  <2>7. Core(v) /\ Within(v, v)
    BY <1>1, <2>1, <2>5, <2>6, PlainTaken
  <2>8. Good(v) /\ v.app.last = o.app.last
    BY <1>1, <1>6, <2>7, HandledIsGood
  <2> QED
    BY <1>8, <2>8 DEF x
<1>9. ASSUME e.kind # "button" PROVE Good(x) /\ x.app.last = o.app.last
  <2>1. ASSUME e.kind = "lost", NEW k \in DOMAIN s, k < i
        PROVE  s[k].kind \notin {"gained", "back"}
    <3> SUFFICES ASSUME s[k].kind \in {"gained", "back"}
                 PROVE  FALSE
      OBVIOUS
    <3>1. k \in P \ {i}
      BY <1>1, <1>7, <2>1
    <3>2. PumpRank(s[k].kind) \in {1, 3} /\ PumpRank(e.kind) = 3
      BY <2>1 DEF PumpRank
    <3>3. PumpRank(e.kind) < PumpRank(s[k].kind) \/ i < k
      BY <3>1
    <3> QED
      BY <1>1, <1>7, <2>1, <3>2, <3>3
  <2>2. ASSUME e.kind = "lost", NEW b \in Buttons, LeavesDown(r, b)
        PROVE  LeavesDown(s, b) \/ b \in S
    <3>1. LeavesDown(s, b) \/ \E k \in DOMAIN s : k < i /\ Presses(s[k], b)
      BY <1>1, <1>2, <2>2, ButtonWithout
    <3>2. ASSUME NEW k \in DOMAIN s, k < i, Presses(s[k], b)
          PROVE  b \in Queued(o, i)
      <4>1. k \in 1..i
        BY <1>1, <3>2
      <4> QED
        BY <3>2, <4>1 DEF Queued, Presses
    <3> QED
      BY <1>5, <2>2, <3>1, <3>2
  <2>3. NextKind(o.evdev.queue) = "mouse" => "mouse" \in o.evdev.grabbed
    BY MouseQueued
  <2>4. \A b \in Buttons : e.kind = "lost" /\ LeavesDown(v.tv.sdl, b)
            => LeavesDown(o.tv.sdl, b) \/ b \in v.tv.stale
    BY <1>6, <2>2
  <2> DEFINE y == HandleSdl(v, s[i], "body")
  <2>5. Core(y) /\ Within(v, y)
    BY <1>1, <1>6, <1>9, <2>1, <2>3, <2>4, HandleSdlKeeps
  <2> HIDE DEF y
  <2>6. Good(y) /\ y.app.last = o.app.last
    BY <1>1, <1>6, <2>5, HandledIsGood
  <2> QED
    BY <1>9, <2>6 DEF x, y
<1>10. LET z == IF e.kind = "button" THEN w ELSE HandleSdl(w, e, "body")
       IN  Good(z) /\ z.app.last = o.app.last
  BY <1>3, <1>8, <1>9 DEF x
<1> QED
  BY <1>10 DEF w

LEMMA EventsDoneKeeps ==
    ASSUME NEW o, Good(o), o.app.phase \in {"sdl", "pump"}, ~LossIn(o.tv.sdl),
           ~o.evdev.sweeping, ~o.app.sampling, NEW raised \in BOOLEAN,
           raised => o.app.streaming /\ ~o.app.panel
    PROVE  LET w == [o EXCEPT !.app.phase = "tick"]
               x == IF raised THEN ShowPanel(w) ELSE w
           IN  Good(x) /\ x.app.last = o.app.last
<1> DEFINE h == o.app.hub
           w == [o EXCEPT !.app.hub = h, !.app.phase = "tick"]
           x == IF raised THEN ShowPanel(w) ELSE w
<1>1. Core(o) /\ o \in Worlds /\ h \in BOOLEAN /\ o.app.batch = <<>>
  BY DEF Good, Core, Worlds, App, BatchOK
<1>2. [o EXCEPT !.app.phase = "tick"] = w
  BY <1>1, PhaseAlone
<1>3. /\ Core(w) /\ Carried(o, w) /\ w.app.batch = o.app.batch
      /\ ~w.evdev.sweeping /\ ~w.app.sampling /\ SameScreen(o, w)
  BY <1>1, PhaseTurned, Zenon
<1> HIDE DEF w
<1>4. Good(w) /\ w.app.last = o.app.last
  BY <1>1, <1>3, CarriedIsGood DEF Carried
<1>5. ASSUME raised PROVE Core(ShowPanel(w)) /\ Within(w, ShowPanel(w))
  BY <1>3, <1>5, ShowPanelKeeps DEF SameScreen
<1>6. ASSUME raised
      PROVE  Good(ShowPanel(w)) /\ ShowPanel(w).app.last = o.app.last
  <2>1. ShowPanel(w).app.batch = <<>>
    BY <1>1, <1>3, <1>5, <1>6 DEF Within, SamePlace
  <2> QED
    BY <1>4, <1>5, <1>6, <2>1, WithinIsCarried, CarriedIsGood DEF Carried
<1>7. Good(x) /\ x.app.last = o.app.last
  BY <1>4, <1>6
<1> QED
  BY <1>2, <1>7

LEMMA SuperviseKeeps ==
    ASSUME NEW o, Good(o), o.app.phase = "tick", ~o.evdev.sweeping, ~o.app.sampling
    PROVE  LET w == Entered(Armed(Supervised(o)))
               x == [w EXCEPT !.app.phase = "present"]
           IN  Good(x) /\ x.app.last = o.app.last
<1> DEFINE a == Supervised(o)
           b == Armed(a)
           w == Entered(b)
           h == w.app.hub
           x == [w EXCEPT !.app.hub = h, !.app.phase = "present"]
<1>1. Core(o) /\ o.app.batch = <<>>
  BY DEF Good, BatchOK
<1>2. Core(a) /\ Within(o, a) /\ ~a.app.sampling
  BY <1>1, SupervisedKeeps
<1> HIDE DEF a
<1>3. ~a.evdev.sweeping /\ a.app.phase \notin {"sdl", "pump"}
  BY <1>2 DEF Within, Emptied, SamePlace
<1>4. Core(b) /\ Within(a, b) /\ ~b.app.sampling
  BY <1>2, <1>3, ArmedKeeps
<1> HIDE DEF b
<1>5. ~b.evdev.sweeping /\ b.app.phase \notin {"sdl", "pump"}
  BY <1>3, <1>4 DEF Within, Emptied, SamePlace
<1>6. Core(w) /\ Within(b, w)
  BY <1>4, <1>5, EnteredKeeps
<1> HIDE DEF w
<1>7. Within(o, w)
  BY <1>2, <1>4, <1>6, WithinTwice
<1>8. w.app.phase \notin {"sdl", "pump"} /\ w.app.batch = <<>>
  BY <1>1, <1>7 DEF Within, SamePlace
<1>9. Good(w) /\ w.app.last = o.app.last
  BY <1>6, <1>7, <1>8, WithinIsCarried, CarriedIsGood DEF Carried
<1>10. w \in Worlds /\ h \in BOOLEAN
  BY <1>6 DEF Core, Worlds, App
<1>11. [w EXCEPT !.app.phase = "present"] = x
  BY <1>10, PhaseAlone
<1>12. Core(x) /\ Carried(w, x) /\ x.app.batch = w.app.batch
  BY <1>6, <1>8, <1>10, PhaseTurned, Zenon
<1> HIDE DEF x, h
<1>13. Good(x) /\ x.app.last = o.app.last
  BY <1>8, <1>9, <1>12, CarriedIsGood DEF Carried
<1>14. Good([w EXCEPT !.app.phase = "present"])
       /\ [w EXCEPT !.app.phase = "present"].app.last = o.app.last
  BY <1>11, <1>13
<1> QED
  BY <1>14 DEF w, b, a

\* The world after a frame.
Presented(o, idle, leave) ==
    LET w == IF idle THEN Hide(o) ELSE o
    IN  [w EXCEPT !.app.hub = @ /\ ~leave, !.app.phase = TopOf(w)]

LEMMA PresentKeeps ==
    ASSUME NEW o, Good(o), o.app.phase = "present", ~o.evdev.sweeping, ~o.app.sampling,
           NEW idle \in BOOLEAN, NEW leave
    PROVE  LET x == Presented(o, idle, leave) IN Good(x) /\ x.app.last = o.app.last
<1> DEFINE w == IF idle THEN Hide(o) ELSE o
           h == w.app.hub /\ ~leave
           p == TopOf(w)
           x == [w EXCEPT !.app.hub = h, !.app.phase = p]
<1>1. Core(o) /\ o.app.batch = <<>>
  BY DEF Good, BatchOK
<1>2. Core(w) /\ Within(o, w)
  BY <1>1, HideKeeps, WithinItself
<1> HIDE DEF w
<1>3. w.app.phase \notin {"sdl", "pump"} /\ w.app.batch = <<>>
  BY <1>1, <1>2 DEF Within, SamePlace
<1>4. Good(w) /\ w.app.last = o.app.last
  BY <1>2, <1>3, WithinIsCarried, CarriedIsGood DEF Carried
<1>5. h \in BOOLEAN /\ p \in {"drain", "sdl", "pump", "tick", "present"}
  BY DEF TopOf
<1> HIDE DEF h, p
<1>6. Core(x) /\ Carried(w, x) /\ x.app.batch = w.app.batch
  BY <1>2, <1>3, <1>5, PhaseTurned, Zenon
<1> HIDE DEF x
<1>7. Good(x) /\ x.app.last = o.app.last
  BY <1>3, <1>4, <1>6, CarriedIsGood DEF Carried
<1> QED
  BY <1>7 DEF Presented, x, h, p, w

\* The buttons a panel takes over from the mice are down now.
LEMMA SampleKeeps ==
    ASSUME NEW o, Good(o), o.app.sampling
    PROVE  LET x == [o EXCEPT !.app.sampling = FALSE,
                              !.app.mask = {b \in Buttons : <<"mouse", b>> \in o.tv.pressed}]
           IN  Good(x) /\ x.app.last = o.app.last
<1> DEFINE M == {b \in Buttons : <<"mouse", b>> \in o.tv.pressed}
           a == [o.app EXCEPT !.sampling = FALSE, !.mask = M]
           x == [o EXCEPT !.app.sampling = FALSE, !.app.mask = M]
<1>1. Core(o) /\ o \in Worlds /\ o.app \in App
  BY DEF Good, Core, Worlds
<1>2. M \in SUBSET Buttons /\ \A b \in M : DownOn(o, b)
  BY DEF DownOn
<1>3. x = [o EXCEPT !.app = a]
  OBVIOUS
<1> HIDE DEF M, x
<1>4. /\ a \in App /\ a.batch = o.app.batch /\ a.last = o.app.last /\ a.phase = o.app.phase
      /\ a.mask = M /\ a.held = o.app.held /\ a.armed = o.app.armed
      /\ ~a.sampling /\ a.slot = o.app.slot
      /\ a.streaming = o.app.streaming /\ a.panel = o.app.panel
      /\ a.unfocused = o.app.unfocused /\ a.away = o.app.away
  BY <1>1, <1>2 DEF App
<1> HIDE DEF a
<1>5. x \in Worlds /\ x.app = a /\ x.evdev = o.evdev /\ x.tv = o.tv /\ x.server = o.server
  BY <1>1, <1>3, <1>4 DEF Worlds
<1>6. IdleOK(x) /\ GrabOK(x) /\ PanelOK(x) /\ FocusOK(x)
  BY <1>1, <1>4, <1>5 DEF Core, IdleOK, GrabOK, PanelOK, FocusOK, Focused
<1>7. ArmedOK(x) /\ HeldOK(x) /\ QueuedOK(x)
  BY <1>1, <1>4, <1>5 DEF Core, ArmedOK, HeldOK, QueuedOK, OpenOn, Focused
<1>8. ClicksOK(x)
  BY <1>1, <1>4, <1>5 DEF Core, ClicksOK, Clicks, Excused, DownOn
<1>9. MaskOK(x)
  <2> SUFFICES ASSUME NEW b \in M, Silent(o.tv.sdl, b)
               PROVE  Excused(x, b)
    BY <1>4, <1>5 DEF MaskOK
  <2>1. ~LossIn(o.tv.sdl)
    BY DEF LossIn, Silent, Mentions
  <2>2. o.tv.focus = "ours"
    BY <1>1, <2>1 DEF Core, FocusOK
  <2> QED
    BY <1>2, <1>5, <2>2 DEF Excused, DownOn
<1>10. Core(x)
  BY <1>1, <1>5, <1>6, <1>7, <1>8, <1>9 DEF Core
<1>11. Carried(o, x)
  BY <1>4, <1>5 DEF Carried
<1>12. Typed(x) /\ ReaderOK(x) /\ TimesOK(x)
  BY <1>10, <1>11, CarriedKeeps DEF Good
<1>13. BatchOK(x)
  BY <1>4, <1>5 DEF Good, BatchOK
<1>14. Good(x) /\ x.app.last = o.app.last
  BY <1>4, <1>5, <1>10, <1>12, <1>13 DEF Good
<1> QED
  BY <1>14 DEF x, M

-----------------------------------------------------------------------------
(* The reader.                                                             *)

Queues == [events: Seq(Event), reset: BOOLEAN, before: Nat]

LEMMA ResetIsEmpty ==
    ASSUME NEW q \in Queues
    PROVE  /\ Reset(q) \in Queues /\ Reset(q).events = <<>> /\ Reset(q).reset
           /\ Reset(q).before = q.before
<1> DEFINE none == <<>>
           r == [q EXCEPT !.events = none, !.reset = TRUE]
<1>1. none \in Seq(Event)
  OBVIOUS
<1>2. Reset(q) = r
  BY DEF Reset
<1>3. none = <<>>
  OBVIOUS
<1> HIDE DEF none
<1>4. r \in Queues /\ r.events = none /\ r.reset /\ r.before = q.before
  BY <1>1 DEF Queues
<1> HIDE DEF r
<1> QED
  BY <1>2, <1>3, <1>4

\* A device is given back, and the release of everything is asked for.
LEMMA LetGo ==
    ASSUME NEW w, Core(w), w.evdev.started, NEW v, v \in Worlds,
           v.app = w.app, v.server = w.server, v.evdev.started, v.evdev.queue.reset,
           v.tv.pressed = w.tv.pressed, v.tv.focus = w.tv.focus,
           v.tv.sdl = w.tv.sdl, v.tv.stale = w.tv.stale,
           "mouse" \in v.evdev.grabbed =>
               "mouse" \in w.evdev.grabbed /\ ("mouse" \in w.tv.hung => "mouse" \in v.tv.hung)
    PROVE  Core(v)
<1>1. IdleOK(v) /\ GrabOK(v) /\ PanelOK(v) /\ FocusOK(v)
  BY DEF Core, IdleOK, GrabOK, PanelOK, FocusOK, Focused
<1>2. ArmedOK(v) /\ HeldOK(v)
  BY DEF Core, ArmedOK, HeldOK, Focused
<1>3. \A b : OpenOn(w, b) => OpenOn(v, b)
  BY DEF OpenOn
<1>4. QueuedOK(v)
  BY <1>3 DEF Core, QueuedOK
<1>5. MaskOK(v) /\ ClicksOK(v)
  BY DEF Core, MaskOK, ClicksOK, Clicks, Excused, DownOn
<1> QED
  BY <1>1, <1>2, <1>4, <1>5 DEF Core

LEMMA SweepBeginKeeps ==
    ASSUME NEW o, Good(o), o.evdev.running
    PROVE  LET v == [o EXCEPT !.evdev = [o.evdev EXCEPT !.sweeping = TRUE, !.scan = o.tv.news,
                         !.todo = o.evdev.grabbed, !.cutoff = o.tv.now + 1, !.queued = FALSE]]
           IN  Good(v) /\ v.app.last = o.app.last
<1> DEFINE c == o.tv.now + 1
           n == o.tv.news
           x == [o.evdev EXCEPT !.sweeping = TRUE, !.scan = n,
                     !.todo = o.evdev.grabbed, !.cutoff = c, !.queued = FALSE]
           v == [o EXCEPT !.evdev = x]
<1>1. Core(o) /\ o \in Worlds /\ o.evdev \in Evdev /\ o.tv \in Tv
  BY DEF Good, Core, Worlds
<1>2. c \in Nat /\ n \in BOOLEAN
  BY <1>1 DEF Tv
<1> HIDE DEF c, n
<1>3. /\ x \in Evdev /\ x.started = o.evdev.started /\ x.running = o.evdev.running
      /\ x.grabbed = o.evdev.grabbed /\ x.queue = o.evdev.queue /\ x.sweeping
      /\ x.todo = o.evdev.grabbed /\ x.cutoff = c
  BY <1>1, <1>2 DEF Evdev
<1> HIDE DEF x
<1>4. v \in Worlds /\ v.app = o.app /\ v.evdev = x /\ v.tv = o.tv /\ v.server = o.server
  BY <1>1, <1>3 DEF Worlds
<1> HIDE DEF v
<1>5. Turned(o, v)
  BY <1>4, <1>3 DEF Turned, SameScreen
<1>6. Core(v)
  BY <1>1, <1>5, TurnedKeeps
<1>7. Typed(v) /\ ReaderOK(v) /\ BatchOK(v)
  <2>1. Typed(v)
    BY <1>4, <1>3 DEF Good, Typed
  <2>2. ReaderOK(v)
    BY <1>4, <1>3 DEF Good, ReaderOK
  <2>3. BatchOK(v)
    BY <1>4, <1>3 DEF Good, BatchOK
  <2> QED
    BY <2>1, <2>2, <2>3
<1>8. TimesOK(v)
  <2>1. \A d \in Usb : d \notin x.todo => NotBefore(o.tv.fd[d], x.cutoff)
    BY <1>3 DEF Good, ReaderOK, NotBefore
  <2>2. x.cutoff <= o.tv.now + 1
    BY <1>1, <1>3 DEF Tv, c
  <2> QED
    BY <1>4, <1>3, <2>1, <2>2 DEF Good, TimesOK
<1>9. Good(v) /\ v.app.last = o.app.last
  BY <1>4, <1>6, <1>7, <1>8 DEF Good
<1> QED
  BY <1>9 DEF v, x, c, n

LEMMA RemovedKeeps ==
    ASSUME NEW o, Good(o), o.evdev.sweeping, NEW d \in Usb
    PROVE  Good(Removed(o, d)) /\ Removed(o, d).app.last = o.app.last
<1> DEFINE q == Reset(o.evdev.queue)
           x == [o.evdev EXCEPT !.grabbed = @ \ {d}, !.todo = @ \ {d}, !.queue = q]
           none == <<>>
           f == [o.tv.fd EXCEPT ![d] = none]
           t == [o.tv EXCEPT !.fd = f, !.hung = @ \ {d}, !.ready = @ \ {d}]
           v == [o EXCEPT !.evdev = x, !.tv = t]
<1>1. Core(o) /\ o \in Worlds /\ o.evdev \in Evdev /\ o.tv \in Tv
      /\ o.tv.fd \in [Usb -> Seq(Event)]
  BY DEF Good, Core, Worlds, Tv
<1>2. Removed(o, d) = v
  BY <1>1 DEF Removed, Worlds, Evdev, Tv
<1>3. /\ q \in Queues /\ q.events = <<>> /\ q.reset /\ q.before = o.evdev.queue.before
  <2>1. o.evdev.queue \in Queues
    BY <1>1 DEF Evdev, Queues
  <2> QED
    BY <2>1, ResetIsEmpty
<1>4. none \in Seq(Event) /\ none \in Seq(UsbEvent(d))
      /\ Sorted(none) /\ \A n : NotAfter(none, n) /\ NotBefore(none, n)
  BY DEF Sorted, NotAfter, NotBefore
<1>5. none = <<>>
  OBVIOUS
<1> HIDE DEF q, none
<1>6. /\ x \in Evdev /\ x.started = o.evdev.started /\ x.running = o.evdev.running
      /\ x.grabbed = o.evdev.grabbed \ {d} /\ x.queue = q
      /\ x.sweeping = o.evdev.sweeping /\ x.todo = o.evdev.todo \ {d}
      /\ x.cutoff = o.evdev.cutoff
  BY <1>1, <1>3 DEF Evdev, Queues
<1>7. f \in [Usb -> Seq(Event)] /\ f[d] = none /\ \A g \in Usb : g # d => f[g] = o.tv.fd[g]
  BY <1>1, <1>4
<1> HIDE DEF x, f
<1>8. /\ t \in Tv /\ t.fd = f /\ t.hung = o.tv.hung \ {d} /\ t.pressed = o.tv.pressed
      /\ t.focus = o.tv.focus /\ t.sdl = o.tv.sdl /\ t.stale = o.tv.stale /\ t.now = o.tv.now
  BY <1>1, <1>7 DEF Tv
<1> HIDE DEF t
<1>9. /\ v \in Worlds /\ v.app = o.app /\ v.server = o.server /\ v.evdev = x /\ v.tv = t
  BY <1>1, <1>6, <1>8 DEF Worlds
<1> HIDE DEF v
<1>10. o.evdev.running /\ o.evdev.started
  BY <1>1 DEF Good, ReaderOK, Core, IdleOK
<1>11. Core(v)
  BY <1>1, <1>3, <1>6, <1>8, <1>9, <1>10, LetGo
<1>12. Typed(v)
  <2>1. \A g \in Usb : f[g] \in Seq(UsbEvent(g))
    BY <1>4, <1>7 DEF Good, Typed
  <2>2. q.events \in Seq(AnyEvent)
    BY <1>3
  <2> QED
    BY <1>6, <1>8, <1>9, <2>1, <2>2 DEF Good, Typed
<1>13. ReaderOK(v)
  <2>1. \A g \in Usb \ x.grabbed : f[g] = <<>>
    BY <1>5, <1>6, <1>7 DEF Good, ReaderOK
  <2> QED
    BY <1>3, <1>6, <1>8, <1>9, <2>1 DEF Good, ReaderOK
<1>14. BatchOK(v)
  <2>1. v.app = o.app /\ v.evdev.started /\ v.evdev.queue.reset
    BY <1>3, <1>6, <1>9, <1>10
  <2> QED
    BY <2>1 DEF Good, BatchOK
<1>15. TimesOK(v)
  <2>1. Sorted(q.events) /\ \A n : NotBefore(q.events, n)
    BY <1>3 DEF Sorted, NotBefore
  <2>2. \A g \in Usb :
          /\ Sorted(f[g]) /\ NotAfter(f[g], o.tv.now)
          /\ NotBefore(f[g], o.app.last) /\ NotBefore(f[g], o.evdev.queue.before)
          /\ \A i \in DOMAIN o.app.batch : NotBefore(f[g], o.app.batch[i].time)
          /\ o.evdev.sweeping /\ g \notin x.todo => NotBefore(f[g], o.evdev.cutoff)
    BY <1>4, <1>6, <1>7 DEF Good, TimesOK
  <2> QED
    BY <1>3, <1>6, <1>8, <1>9, <2>1, <2>2 DEF Good, TimesOK
<1> QED
  BY <1>2, <1>9, <1>11, <1>12, <1>13, <1>14, <1>15 DEF Good

LEMMA ReaderDiesKeeps ==
    ASSUME NEW o, Good(o), o.evdev.running, ~o.evdev.sweeping
    PROVE  LET v == [o EXCEPT !.evdev = [o.evdev EXCEPT !.running = FALSE, !.grabbed = {},
                                                         !.queue = Reset(@), !.queued = FALSE],
                              !.tv.fd = [d \in Usb |-> <<>>], !.tv.ready = {}, !.tv.hung = {}]
           IN  Good(v) /\ v.app.last = o.app.last
<1> DEFINE q == Reset(o.evdev.queue)
           x == [o.evdev EXCEPT !.running = FALSE, !.grabbed = {}, !.queue = q, !.queued = FALSE]
           f == [d \in Usb |-> <<>>]
           t == [o.tv EXCEPT !.fd = f, !.ready = {}, !.hung = {}]
           v == [o EXCEPT !.evdev = x, !.tv = t]
<1>1. Core(o) /\ o \in Worlds /\ o.evdev \in Evdev /\ o.tv \in Tv
  BY DEF Good, Core, Worlds
<1>2. [o EXCEPT !.evdev = [o.evdev EXCEPT !.running = FALSE, !.grabbed = {},
                                           !.queue = Reset(@), !.queued = FALSE],
                !.tv.fd = [d \in Usb |-> <<>>], !.tv.ready = {}, !.tv.hung = {}] = v
  OBVIOUS
<1>3. /\ q \in Queues /\ q.events = <<>> /\ q.reset /\ q.before = o.evdev.queue.before
  <2>1. o.evdev.queue \in Queues
    BY <1>1 DEF Evdev, Queues
  <2> QED
    BY <2>1, ResetIsEmpty
<1>4. f \in [Usb -> Seq(Event)] /\ \A d \in Usb : f[d] = <<>>
  OBVIOUS
<1> HIDE DEF q, f
<1>5. /\ x \in Evdev /\ x.started = o.evdev.started /\ ~x.running
      /\ x.grabbed = {} /\ x.queue = q /\ x.sweeping = o.evdev.sweeping
  BY <1>1, <1>3 DEF Evdev, Queues
<1>6. /\ t \in Tv /\ t.fd = f /\ t.hung = {} /\ t.pressed = o.tv.pressed
      /\ t.focus = o.tv.focus /\ t.sdl = o.tv.sdl /\ t.stale = o.tv.stale /\ t.now = o.tv.now
  BY <1>1, <1>4 DEF Tv
<1> HIDE DEF x, t, q
<1>7. /\ v \in Worlds /\ v.app = o.app /\ v.server = o.server /\ v.evdev = x /\ v.tv = t
  BY <1>1, <1>5, <1>6 DEF Worlds
<1> HIDE DEF v
<1>8. o.evdev.started
  BY <1>1 DEF Core, IdleOK
<1>9. Core(v)
  BY <1>1, <1>3, <1>5, <1>6, <1>7, <1>8, LetGo
<1>10. Typed(v)
  <2>1. \A g \in Usb : f[g] \in Seq(UsbEvent(g))
    BY <1>4
  <2>2. q.events \in Seq(AnyEvent)
    BY <1>3
  <2> QED
    BY <1>5, <1>6, <1>7, <2>1, <2>2 DEF Good, Typed
<1>11. ReaderOK(v) /\ BatchOK(v)
  <2>1. ReaderOK(v)
    BY <1>3, <1>4, <1>5, <1>6, <1>7 DEF ReaderOK
  <2>2. v.app = o.app /\ v.evdev.started /\ v.evdev.queue.reset
    BY <1>3, <1>5, <1>7, <1>8
  <2>3. BatchOK(v)
    BY <2>2 DEF Good, BatchOK
  <2> QED
    BY <2>1, <2>3
<1>12. TimesOK(v)
  BY <1>3, <1>4, <1>5, <1>6, <1>7 DEF Good, TimesOK, Sorted, NotBefore, NotAfter
<1>13. Good(v) /\ v.app.last = o.app.last
  BY <1>7, <1>9, <1>10, <1>11, <1>12 DEF Good
<1> QED
  BY <1>2, <1>13

\* A push asks for the release of everything, or puts the event in its place.
LEMMA PushKeeps ==
    ASSUME NEW q \in Queues, q.events \in Seq(AnyEvent), NEW e \in AnyEvent
    PROVE  /\ Push(q, e) \in Queues /\ Push(q, e).before = q.before
           /\ Push(q, e).events \in Seq(AnyEvent)
           /\ q.reset => Push(q, e).reset
           /\ (q.reset => q.events = <<>>) => (Push(q, e).reset => Push(q, e).events = <<>>)
           /\ Sorted(q.events) => Sorted(Push(q, e).events)
           /\ \A k \in DOMAIN Push(q, e).events :
                  \/ Push(q, e).events[k] = e
                  \/ \E j \in DOMAIN q.events : Push(q, e).events[k] = q.events[j]
<1> DEFINE s == Inserted(q.events, e)
           p == Push(q, e)
           r == [q EXCEPT !.events = s]
<1>1. /\ s \in Seq(AnyEvent) /\ (Sorted(q.events) => Sorted(s))
      /\ \A k \in DOMAIN s : s[k] = e \/ \E j \in DOMAIN q.events : s[k] = q.events[j]
  BY EventsAreTimed, InsertedInOrder
<1> HIDE DEF s
<1>2. r \in Queues /\ r.events = s /\ r.before = q.before /\ r.reset = q.reset
  BY <1>1, EventsAreTimed DEF Queues
<1>3. p = IF q.reset THEN q ELSE IF Len(q.events) = Capacity THEN Reset(q) ELSE r
  BY DEF Push, s
<1> HIDE DEF r, p
<1>4. CASE q.reset
  <2>1. p = q
    BY <1>3, <1>4
  <2> QED
    BY <2>1 DEF p
<1>5. CASE ~q.reset /\ Len(q.events) = Capacity
  <2>1. p = Reset(q)
    BY <1>3, <1>5
  <2>2. p \in Queues /\ p.events = <<>> /\ p.reset /\ p.before = q.before
    BY <2>1, ResetIsEmpty
  <2>3. Sorted(p.events) /\ DOMAIN p.events = {} /\ p.events \in Seq(AnyEvent)
    BY <2>2 DEF Sorted
  <2> QED
    BY <2>2, <2>3 DEF p
<1>6. CASE ~q.reset /\ Len(q.events) # Capacity
  <2>1. p = r
    BY <1>3, <1>6
  <2> QED
    BY <1>1, <1>2, <1>6, <2>1 DEF p
<1> QED
  BY <1>4, <1>5, <1>6

\* A device that has no more to read is done with.
LEMMA DrainedEmptyKeeps ==
    ASSUME NEW o, Good(o), o.evdev.sweeping, NEW d \in Usb, o.tv.fd[d] = <<>>
    PROVE  Good(Drained(o, d)) /\ Drained(o, d).app.last = o.app.last
<1> DEFINE x == [o.evdev EXCEPT !.todo = @ \ {d}]
           t == [o.tv EXCEPT !.ready = @ \ {d}]
           v == [o EXCEPT !.evdev = x, !.tv = t]
<1>1. Core(o) /\ o \in Worlds /\ o.evdev \in Evdev /\ o.tv \in Tv
  BY DEF Good, Core, Worlds
<1>2. Drained(o, d) = v
  BY <1>1 DEF Drained, Worlds, Evdev, Tv
<1>3. /\ x \in Evdev /\ x.started = o.evdev.started /\ x.running = o.evdev.running
      /\ x.grabbed = o.evdev.grabbed /\ x.queue = o.evdev.queue
      /\ x.sweeping = o.evdev.sweeping /\ x.todo = o.evdev.todo \ {d}
      /\ x.cutoff = o.evdev.cutoff
  BY <1>1 DEF Evdev
<1>4. /\ t \in Tv /\ t.fd = o.tv.fd /\ t.hung = o.tv.hung /\ t.pressed = o.tv.pressed
      /\ t.focus = o.tv.focus /\ t.sdl = o.tv.sdl /\ t.stale = o.tv.stale /\ t.now = o.tv.now
  BY <1>1 DEF Tv
<1> HIDE DEF x, t
<1>5. v \in Worlds /\ v.app = o.app /\ v.server = o.server /\ v.evdev = x /\ v.tv = t
  BY <1>1, <1>3, <1>4 DEF Worlds
<1> HIDE DEF v
<1>6. Turned(o, v)
  BY <1>3, <1>4, <1>5 DEF Turned, SameScreen
<1>7. Core(v)
  BY <1>1, <1>6, TurnedKeeps
<1>8. Typed(v)
  BY <1>3, <1>4, <1>5 DEF Good, Typed
<1>9. ReaderOK(v)
  BY <1>3, <1>4, <1>5 DEF Good, ReaderOK
<1>10. BatchOK(v)
  BY <1>3, <1>5 DEF Good, BatchOK
<1>11. TimesOK(v)
  <2>1. \A n : NotBefore(o.tv.fd[d], n)
    BY DEF NotBefore
  <2>2. \A g \in Usb : g \notin x.todo => NotBefore(o.tv.fd[g], o.evdev.cutoff)
    BY <1>3, <2>1 DEF Good, TimesOK
  <2> QED
    BY <1>3, <1>4, <1>5, <2>2 DEF Good, TimesOK
<1> QED
  BY <1>2, <1>5, <1>7, <1>8, <1>9, <1>10, <1>11 DEF Good

\* One event more is read from a device.
EventRead(w, d, todo, queued, ready) ==
    LET x == [w.evdev EXCEPT !.queue = Push(@, Head(w.tv.fd[d])), !.todo = todo,
                             !.queued = queued]
        t == [w.tv EXCEPT !.fd[d] = Tail(@), !.ready = ready]
    IN  [w EXCEPT !.evdev = x, !.tv = t]

\* The device is done with if the event is newer than the sweep.
LEMMA EventReadKeeps ==
    ASSUME NEW o, Good(o), o.evdev.sweeping, NEW d \in o.evdev.todo, o.tv.fd[d] # <<>>,
           NEW T \in SUBSET Usb, NEW n \in BOOLEAN, NEW R \in SUBSET Usb,
           \/ T = o.evdev.todo
           \/ T = o.evdev.todo \ {d} /\ ~(Head(o.tv.fd[d]).time < o.evdev.cutoff)
    PROVE  Good(EventRead(o, d, T, n, R)) /\ EventRead(o, d, T, n, R).app.last = o.app.last
<1> DEFINE s == o.tv.fd[d]
           e == Head(s)
           r == Tail(s)
           q == o.evdev.queue
           p == Push(q, e)
           x == [o.evdev EXCEPT !.queue = p, !.todo = T, !.queued = n]
           f == [o.tv.fd EXCEPT ![d] = r]
           t == [o.tv EXCEPT !.fd = f, !.ready = R]
           v == [o EXCEPT !.evdev = x, !.tv = t]
<1>1. /\ Core(o) /\ o \in Worlds /\ o.evdev \in Evdev /\ o.tv \in Tv /\ q \in Queues
      /\ o.tv.fd \in [Usb -> Seq(Event)] /\ q.events \in Seq(AnyEvent)
      /\ o.app.last \in Nat /\ o.evdev.cutoff \in Nat /\ q.before \in Nat /\ o.tv.now \in Nat
  BY DEF Good, Typed, Worlds, App, Evdev, Tv, Queues
<1>2. /\ d \in Usb /\ s \in Seq(UsbEvent(d)) /\ s # <<>>
      /\ o.evdev.running /\ o.evdev.started /\ d \in o.evdev.grabbed
  BY <1>1 DEF Good, Typed, ReaderOK, Core, IdleOK, Evdev
<1>3. /\ e \in UsbEvent(d) /\ r \in Seq(UsbEvent(d)) /\ e = s[1] /\ 1 \in DOMAIN s
      /\ \A k \in DOMAIN r : k + 1 \in DOMAIN s /\ r[k] = s[k + 1] /\ k \in Nat /\ 1 < k + 1
  BY <1>2
<1>4. e \in AnyEvent /\ e.kind = d /\ e.time \in Nat /\ \A k \in DOMAIN s : s[k].time \in Nat
  <2>1. \A z \in UsbEvent(d) : z \in AnyEvent /\ z.kind = d /\ z.time \in Nat
    BY <1>2 DEF UsbEvent, AnyEvent, Event, Usb
  <2> QED
    BY <1>2, <1>3, <2>1
<1>5. r \in Seq(Event)
  <2>1. UsbEvent(d) \subseteq Event
    BY DEF UsbEvent
  <2> QED
    BY <1>3, <2>1
<1>6. /\ p \in Queues /\ p.before = q.before /\ p.events \in Seq(AnyEvent)
      /\ q.reset => p.reset
      /\ (q.reset => q.events = <<>>) => (p.reset => p.events = <<>>)
      /\ Sorted(q.events) => Sorted(p.events)
      /\ \A k \in DOMAIN p.events :
             p.events[k] = e \/ \E j \in DOMAIN q.events : p.events[k] = q.events[j]
  BY <1>1, <1>4, PushKeeps
<1> HIDE DEF e, r, p
<1>7. /\ x \in Evdev /\ x.started = o.evdev.started /\ x.running = o.evdev.running
      /\ x.grabbed = o.evdev.grabbed /\ x.queue = p
      /\ x.sweeping = o.evdev.sweeping /\ x.todo = T /\ x.cutoff = o.evdev.cutoff
  BY <1>1, <1>6 DEF Evdev, Queues
<1>8. f \in [Usb -> Seq(Event)] /\ f[d] = r /\ \A g \in Usb : g # d => f[g] = o.tv.fd[g]
  BY <1>1, <1>2, <1>5
<1> HIDE DEF x, f
<1>9. /\ t \in Tv /\ t.fd = f /\ t.hung = o.tv.hung /\ t.pressed = o.tv.pressed
      /\ t.focus = o.tv.focus /\ t.sdl = o.tv.sdl /\ t.stale = o.tv.stale /\ t.now = o.tv.now
  BY <1>1, <1>8 DEF Tv
<1> HIDE DEF t
<1>10. v \in Worlds /\ v.app = o.app /\ v.server = o.server /\ v.evdev = x /\ v.tv = t
  BY <1>1, <1>7, <1>9 DEF Worlds
<1> HIDE DEF v
<1>11. Turned(o, v)
  BY <1>2, <1>6, <1>7, <1>9, <1>10 DEF Turned, SameScreen
<1>12. Core(v)
  BY <1>1, <1>11, TurnedKeeps
<1>13. Typed(v)
  <2>1. \A g \in Usb : f[g] \in Seq(UsbEvent(g))
    BY <1>3, <1>8 DEF Good, Typed
  <2> QED
    BY <1>6, <1>7, <1>9, <1>10, <2>1 DEF Good, Typed
<1>14. ReaderOK(v)
  <2>1. T \subseteq o.evdev.grabbed
    BY DEF Good, ReaderOK
  <2>2. \A g \in Usb \ o.evdev.grabbed : f[g] = <<>>
    BY <1>2, <1>8 DEF Good, ReaderOK
  <2>3. p.reset => p.events = <<>>
    BY <1>6 DEF Good, ReaderOK
  <2>4. \/ "mouse" \in o.evdev.grabbed \/ p.reset
        \/ \A i \in DOMAIN p.events : p.events[i].kind # "mouse"
    <3>1. "mouse" \notin o.evdev.grabbed => d # "mouse"
      BY <1>2
    <3>2. \/ "mouse" \in o.evdev.grabbed \/ q.reset
          \/ \A i \in DOMAIN q.events : q.events[i].kind # "mouse"
      BY DEF Good, ReaderOK
    <3> HIDE DEF q
    <3> QED
      BY <1>4, <1>6, <3>1, <3>2
  <2> QED
    BY <1>2, <1>7, <1>9, <1>10, <2>1, <2>2, <2>3, <2>4 DEF ReaderOK
<1>15. BatchOK(v)
  <2>1. v.app = o.app /\ v.evdev.started /\ v.evdev.grabbed = o.evdev.grabbed
        /\ (o.evdev.queue.reset => v.evdev.queue.reset)
    BY <1>2, <1>6, <1>7, <1>10
  <2> QED
    BY <2>1 DEF Good, BatchOK
<1>16. TimesOK(v)
  <2>1. /\ Sorted(s) /\ NotAfter(s, o.tv.now) /\ NotBefore(s, o.app.last)
        /\ NotBefore(s, q.before)
        /\ \A i \in DOMAIN o.app.batch : NotBefore(s, o.app.batch[i].time)
    BY <1>2 DEF Good, TimesOK
  <2>2. Sorted(q.events) /\ NotBefore(q.events, o.app.last)
        /\ \A i \in DOMAIN o.app.batch : NotBefore(q.events, o.app.batch[i].time)
    BY DEF Good, TimesOK
  <2>3. ASSUME NEW m, NotBefore(s, m), NotBefore(q.events, m)
        PROVE  NotBefore(p.events, m)
    <3>1. m <= e.time
      BY <1>3, <2>3 DEF NotBefore
    <3> QED
      BY <1>6, <2>3, <3>1 DEF NotBefore
  <2>4. ASSUME NEW m, NotBefore(s, m)
        PROVE  NotBefore(r, m)
    BY <1>3, <2>4 DEF NotBefore
  <2>5. NotAfter(r, o.tv.now)
    BY <1>3, <2>1 DEF NotAfter
  <2>6. Sorted(r)
    <3> SUFFICES ASSUME NEW i \in DOMAIN r, NEW j \in DOMAIN r, i < j
                 PROVE  r[i].time <= r[j].time
      BY DEF Sorted
    <3>1. i + 1 < j + 1
      BY <1>3
    <3> QED
      BY <1>3, <2>1, <3>1 DEF Sorted
  <2>7. d \notin T => NotBefore(r, o.evdev.cutoff)
    <3> SUFFICES ASSUME d \notin T, NEW k \in DOMAIN r
                 PROVE  o.evdev.cutoff <= r[k].time
      BY DEF NotBefore
    <3>1. o.evdev.cutoff <= e.time
      BY <1>1, <1>4 DEF e
    <3>2. e.time <= r[k].time /\ r[k].time \in Nat
      BY <1>3, <1>4, <2>1 DEF Sorted
    <3> QED
      BY <1>1, <1>4, <3>1, <3>2
  <2>8. \A g \in Usb :
          /\ Sorted(f[g]) /\ NotAfter(f[g], o.tv.now)
          /\ NotBefore(f[g], o.app.last) /\ NotBefore(f[g], q.before)
          /\ \A i \in DOMAIN o.app.batch : NotBefore(f[g], o.app.batch[i].time)
          /\ g \notin T => NotBefore(f[g], o.evdev.cutoff)
    <3>1. ASSUME NEW g \in Usb, g # d
          PROVE  /\ Sorted(f[g]) /\ NotAfter(f[g], o.tv.now)
                 /\ NotBefore(f[g], o.app.last) /\ NotBefore(f[g], q.before)
                 /\ \A i \in DOMAIN o.app.batch : NotBefore(f[g], o.app.batch[i].time)
                 /\ g \notin T => NotBefore(f[g], o.evdev.cutoff)
      BY <1>8, <3>1 DEF Good, TimesOK
    <3>2. /\ Sorted(f[d]) /\ NotAfter(f[d], o.tv.now)
          /\ NotBefore(f[d], o.app.last) /\ NotBefore(f[d], q.before)
          /\ \A i \in DOMAIN o.app.batch : NotBefore(f[d], o.app.batch[i].time)
          /\ d \notin T => NotBefore(f[d], o.evdev.cutoff)
      BY <1>8, <2>1, <2>4, <2>5, <2>6, <2>7
    <3> QED
      BY <3>1, <3>2
  <2>9. /\ Sorted(p.events) /\ NotBefore(p.events, o.app.last)
        /\ \A i \in DOMAIN o.app.batch : NotBefore(p.events, o.app.batch[i].time)
    BY <1>6, <2>1, <2>2, <2>3
  <2>10. /\ Sorted(o.app.batch) /\ NotBefore(o.app.batch, o.app.last)
         /\ o.app.last <= o.tv.now /\ NotAfter(o.app.batch, o.tv.now)
         /\ q.before <= o.tv.now + 1 /\ o.evdev.cutoff <= o.tv.now + 1
    BY DEF Good, TimesOK
  <2> HIDE DEF q
  <2> QED
    BY <1>6, <1>7, <1>9, <1>10, <2>8, <2>9, <2>10 DEF TimesOK
<1>17. Good(v) /\ v.app.last = o.app.last
  BY <1>10, <1>12, <1>13, <1>14, <1>15, <1>16 DEF Good
<1> QED
  BY <1>17 DEF EventRead, v, t, f, x, p, e, r

LEMMA DrainedKeeps ==
    ASSUME NEW o, Good(o), o.evdev.sweeping, NEW d \in o.evdev.todo
    PROVE  Good(Drained(o, d)) /\ Drained(o, d).app.last = o.app.last
<1> DEFINE e == Head(o.tv.fd[d])
           read == [o EXCEPT !.evdev.queue = Push(@, e), !.tv.fd[d] = Tail(@)]
<1>1. o \in Worlds /\ o.evdev \in Evdev /\ o.tv \in Tv /\ d \in Usb
      /\ o.evdev.todo \in SUBSET Usb /\ o.tv.ready \in SUBSET Usb /\ o.evdev.queued \in BOOLEAN
  BY DEF Good, Core, Worlds, Evdev, Tv
<1>2. CASE o.tv.fd[d] = <<>>
  BY <1>1, <1>2, DrainedEmptyKeeps
<1>3. CASE o.tv.fd[d] # <<>> /\ e.time < o.evdev.cutoff
  <2>1. Good(EventRead(o, d, o.evdev.todo, o.evdev.queued, o.tv.ready))
        /\ EventRead(o, d, o.evdev.todo, o.evdev.queued, o.tv.ready).app.last = o.app.last
    BY <1>1, <1>3, EventReadKeeps
  <2>2. Drained(o, d) = read
    BY <1>3 DEF Drained
  <2>3. read = EventRead(o, d, o.evdev.todo, o.evdev.queued, o.tv.ready)
    BY <1>1 DEF EventRead, Worlds, Evdev, Tv
  <2> QED
    BY <2>1, <2>2, <2>3
<1>4. CASE o.tv.fd[d] # <<>> /\ ~(e.time < o.evdev.cutoff)
  <2> DEFINE T == o.evdev.todo \ {d}
             R == o.tv.ready \ {d}
             yes == TRUE
  <2>1. T \in SUBSET Usb /\ R \in SUBSET Usb /\ yes \in BOOLEAN
    BY <1>1
  <2>2. Good(EventRead(o, d, T, yes, R)) /\ EventRead(o, d, T, yes, R).app.last = o.app.last
    <3>1. T = o.evdev.todo \ {d} /\ ~(Head(o.tv.fd[d]).time < o.evdev.cutoff)
      BY <1>4
    <3> HIDE DEF T, R, e, yes
    <3> QED
      BY <1>4, <2>1, <3>1, EventReadKeeps
  <2>3. Drained(o, d) = [read EXCEPT !.evdev.todo = @ \ {d}, !.evdev.queued = TRUE,
                                     !.tv.ready = @ \ {d}]
    BY <1>4 DEF Drained
  <2>4. [read EXCEPT !.evdev.todo = @ \ {d}, !.evdev.queued = TRUE, !.tv.ready = @ \ {d}]
            = EventRead(o, d, T, yes, R)
    BY <1>1 DEF EventRead, Worlds, Evdev, Tv
  <2> QED
    BY <2>2, <2>3, <2>4
<1> QED
  BY <1>2, <1>3, <1>4

\* What a sweep read is published up to its beginning: no event older than that is
\* still on a device.
LEMMA PublishedKeeps ==
    ASSUME NEW o, Good(o), o.evdev.sweeping, o.evdev.todo = {}
    PROVE  LET queue == PublishBefore(o.evdev.queue, o.evdev.cutoff)
               v == [o EXCEPT !.evdev = [o.evdev EXCEPT !.queue = queue, !.sweeping = FALSE,
                                             !.queued = @ \/ queue.events # <<>>]]
           IN  Good(v) /\ v.app.last = o.app.last /\ v.evdev.running
<1> DEFINE q == PublishBefore(o.evdev.queue, o.evdev.cutoff)
           n == o.evdev.queued \/ q.events # <<>>
           x == [o.evdev EXCEPT !.queue = q, !.sweeping = FALSE, !.queued = n]
           v == [o EXCEPT !.evdev = x]
<1>1. Core(o) /\ o \in Worlds /\ o.evdev \in Evdev /\ o.tv \in Tv
      /\ o.evdev.queue \in Queues /\ o.evdev.cutoff \in Nat
  BY DEF Good, Core, Worlds, Evdev, Queues
<1>2. /\ q \in Queues /\ q.events = o.evdev.queue.events
      /\ q.reset = o.evdev.queue.reset /\ q.before = o.evdev.cutoff
  BY <1>1 DEF PublishBefore, Queues
<1>3. n \in BOOLEAN
  OBVIOUS
<1>4. [o EXCEPT !.evdev = [o.evdev EXCEPT !.queue = q, !.sweeping = FALSE,
                                           !.queued = @ \/ q.events # <<>>]] = v
  BY <1>1 DEF Evdev
<1> HIDE DEF q, n
<1>5. /\ x \in Evdev /\ x.started = o.evdev.started /\ x.running = o.evdev.running
      /\ x.grabbed = o.evdev.grabbed /\ x.queue = q /\ ~x.sweeping
  BY <1>1, <1>2, <1>3 DEF Evdev, Queues
<1> HIDE DEF x
<1>6. v \in Worlds /\ v.app = o.app /\ v.evdev = x /\ v.tv = o.tv /\ v.server = o.server
  BY <1>1, <1>5 DEF Worlds
<1> HIDE DEF v
<1>7. o.evdev.running /\ o.evdev.started
  BY <1>1 DEF Good, ReaderOK, Core, IdleOK
<1>8. Turned(o, v)
  BY <1>2, <1>5, <1>6, <1>7 DEF Turned, SameScreen
<1>9. Core(v)
  BY <1>1, <1>8, TurnedKeeps
<1>10. Typed(v)
  BY <1>2, <1>5, <1>6 DEF Good, Typed
<1>11. ReaderOK(v)
  BY <1>2, <1>5, <1>6 DEF Good, ReaderOK
<1>12. BatchOK(v)
  BY <1>2, <1>5, <1>6 DEF Good, BatchOK
<1>13. TimesOK(v)
  BY <1>2, <1>5, <1>6 DEF Good, TimesOK
<1>14. Good(v) /\ v.app.last = o.app.last /\ v.evdev.running
  BY <1>5, <1>6, <1>7, <1>9, <1>10, <1>11, <1>12, <1>13 DEF Good
<1> QED
  BY <1>4, <1>14 DEF q

\* A mouse that is grabbed now may have left a press among the queued events.
LEMMA RescannedKeeps ==
    ASSUME NEW o, Good(o), o.evdev.running
    PROVE  Good(Rescanned(o)) /\ Rescanned(o).app.last = o.app.last
<1> DEFINE x == [o.evdev EXCEPT !.grabbed = @ \cup o.tv.plugged]
           S == o.tv.stale \cup Queued(o, Len(o.tv.sdl))
           t == [o.tv EXCEPT !.news = FALSE, !.stale = S]
           v == [o EXCEPT !.evdev = x, !.tv = t]
<1>1. Core(o) /\ o \in Worlds /\ o.evdev \in Evdev /\ o.tv \in Tv
      /\ o.tv.sdl \in Seq(Signal) /\ o.evdev.started
  BY DEF Good, Core, Worlds, IdleOK
<1>2. SUFFICES ASSUME o.evdev.scan
               PROVE  Good(Rescanned(o)) /\ Rescanned(o).app.last = o.app.last
  BY DEF Rescanned
<1>3. Rescanned(o) = v
  BY <1>1, <1>2 DEF Rescanned, Worlds, Evdev, Tv
<1>4. S \in SUBSET Buttons
  BY <1>1 DEF Queued, Tv
<1>5. \A b \in Buttons : LeavesDown(o.tv.sdl, b) => b \in S
  BY <1>1 DEF LeavesDown, Presses, Queued
<1>6. o.tv.stale \subseteq S
  OBVIOUS
<1> HIDE DEF S
<1>7. /\ x \in Evdev /\ x.started = o.evdev.started /\ x.running = o.evdev.running
      /\ x.grabbed = o.evdev.grabbed \cup o.tv.plugged /\ x.queue = o.evdev.queue
      /\ x.sweeping = o.evdev.sweeping /\ x.todo = o.evdev.todo
      /\ x.cutoff = o.evdev.cutoff
  BY <1>1 DEF Evdev, Tv
<1>8. /\ t \in Tv /\ t.fd = o.tv.fd /\ t.pressed = o.tv.pressed /\ t.focus = o.tv.focus
      /\ t.sdl = o.tv.sdl /\ t.stale = S /\ t.now = o.tv.now
  BY <1>1, <1>4 DEF Tv
<1> HIDE DEF x, t
<1>9. v \in Worlds /\ v.app = o.app /\ v.evdev = x /\ v.tv = t /\ v.server = o.server
  BY <1>1, <1>7, <1>8 DEF Worlds
<1> HIDE DEF v
<1>10. Core(v)
  <2>1. IdleOK(v) /\ GrabOK(v) /\ PanelOK(v) /\ FocusOK(v)
    BY <1>1, <1>7, <1>8, <1>9 DEF Core, IdleOK, GrabOK, PanelOK, FocusOK, Focused
  <2>2. ArmedOK(v) /\ HeldOK(v)
    BY <1>1, <1>7, <1>8, <1>9 DEF Core, ArmedOK, HeldOK, Focused
  <2>3. QueuedOK(v)
    BY <1>5, <1>8, <1>9 DEF QueuedOK
  <2>4. MaskOK(v) /\ ClicksOK(v)
    BY <1>1, <1>6, <1>7, <1>8, <1>9 DEF Core, MaskOK, ClicksOK, Clicks, Excused, DownOn
  <2> QED
    BY <1>1, <1>8, <1>9, <2>1, <2>2, <2>3, <2>4 DEF Core
<1>11. Typed(v)
  BY <1>7, <1>8, <1>9 DEF Good, Typed
<1>12. ReaderOK(v)
  BY <1>7, <1>8, <1>9, Zenon DEF Good, ReaderOK
<1>13. BatchOK(v)
  BY <1>7, <1>9 DEF Good, BatchOK
<1>14. TimesOK(v)
  BY <1>7, <1>8, <1>9 DEF Good, TimesOK
<1> QED
  BY <1>3, <1>9, <1>10, <1>11, <1>12, <1>13, <1>14 DEF Good

LEMMA SweepDoneKeeps ==
    ASSUME NEW o, Good(o), o.evdev.sweeping, o.evdev.todo = {}
    PROVE  LET queue == PublishBefore(o.evdev.queue, o.evdev.cutoff)
               v == Rescanned([o EXCEPT !.evdev = [o.evdev EXCEPT !.queue = queue,
                        !.sweeping = FALSE, !.queued = @ \/ queue.events # <<>>]])
           IN  Good(v) /\ v.app.last = o.app.last
<1> DEFINE q == PublishBefore(o.evdev.queue, o.evdev.cutoff)
           v == [o EXCEPT !.evdev = [o.evdev EXCEPT !.queue = q, !.sweeping = FALSE,
                                         !.queued = @ \/ q.events # <<>>]]
<1>1. Good(v) /\ v.app.last = o.app.last /\ v.evdev.running
  BY PublishedKeeps, Zenon
<1> HIDE DEF v
<1>2. Good(Rescanned(v)) /\ Rescanned(v).app.last = o.app.last
  BY <1>1, RescannedKeeps
<1> QED
  BY <1>2 DEF v

-----------------------------------------------------------------------------
(* The world outside.                                                      *)

\* A change outside keeps what the SDL thread relies on if the queued events
\* still account for the buttons.
LEMMA OutsideKeeps ==
    ASSUME NEW w, Core(w), NEW v, v \in Worlds, v.app = w.app, v.evdev = w.evdev,
           ~w.evdev.started => v.tv.fd = w.tv.fd,
           v.tv.stale = w.tv.stale, v.tv.sdl \in Seq(Signal),
           LossIn(w.tv.sdl) => LossIn(v.tv.sdl),
           PanelOK(v), HeldOK(v), FocusOK(v), QueuedOK(v),
           \A b \in Buttons : Silent(v.tv.sdl, b) /\ "mouse" \notin w.evdev.grabbed =>
               Silent(w.tv.sdl, b) /\ (Excused(w, b) => Excused(v, b))
    PROVE  Core(v)
<1>1. IdleOK(v)
  BY DEF Core, IdleOK
<1>2. GrabOK(v) /\ ArmedOK(v)
  BY DEF Core, GrabOK, ArmedOK, Focused
<1>3. MaskOK(v)
  <2>1. v.app.panel => "mouse" \notin w.evdev.grabbed
    BY DEF Core, GrabOK, IdleOK
  <2>2. w.app.mask \subseteq Buttons
    BY DEF Core, Worlds, App
  <2> QED
    BY <2>1, <2>2 DEF Core, MaskOK
<1>4. ClicksOK(v)
  <2>1. Clicks(v) = Clicks(w) /\ Clicks(w) \subseteq Buttons
    BY DEF Clicks
  <2> QED
    BY <2>1 DEF Core, ClicksOK
<1> QED
  BY <1>1, <1>2, <1>3, <1>4 DEF Core

LEMMA EventAppended ==
    ASSUME NEW S, \A x \in S : x.time \in Nat, NEW s \in Seq(S), NEW e \in S
    PROVE  /\ Append(s, e) \in Seq(S)
           /\ Sorted(s) /\ NotAfter(s, e.time) => Sorted(Append(s, e))
           /\ NotAfter(s, e.time) => NotAfter(Append(s, e), e.time)
           /\ \A m : NotBefore(s, m) /\ m <= e.time => NotBefore(Append(s, e), m)
<1> DEFINE r == Append(s, e)
<1>1. r \in Seq(S) /\ DOMAIN r = 1..(Len(s) + 1) /\ DOMAIN s = 1..Len(s) /\ Len(s) \in Nat
      /\ r[Len(s) + 1] = e /\ (\A i \in DOMAIN s : r[i] = s[i] /\ s[i].time \in Nat)
      /\ e.time \in Nat
  OBVIOUS
<1> HIDE DEF r
<1>2. \A i \in DOMAIN r : i = Len(s) + 1 \/ i \in DOMAIN s
  BY <1>1
<1>3. ASSUME Sorted(s), NotAfter(s, e.time)
      PROVE  Sorted(r)
  <2> SUFFICES ASSUME NEW i \in DOMAIN r, NEW j \in DOMAIN r, i < j
               PROVE  r[i].time <= r[j].time
    BY DEF Sorted
  <2>1. i \in DOMAIN s
    BY <1>1
  <2> QED
    BY <1>1, <1>2, <1>3, <2>1 DEF Sorted, NotAfter
<1>4. NotAfter(s, e.time) => NotAfter(r, e.time)
  BY <1>1, <1>2 DEF NotAfter
<1>5. \A m : NotBefore(s, m) /\ m <= e.time => NotBefore(r, m)
  BY <1>1, <1>2 DEF NotBefore
<1> QED
  BY <1>1, <1>3, <1>4, <1>5 DEF r

\* Time passes, and at most one event is added to a device, or a device's are lost.
LEMMA ElapsedIsGood ==
    ASSUME NEW w, Good(w), NEW v, Core(v), v.app = w.app, v.evdev = w.evdev,
           v.tv.now = w.tv.now \/ v.tv.now = w.tv.now + 1,
           \A d \in Usb :
               \/ v.tv.fd[d] = w.tv.fd[d]
               \/ v.tv.fd[d] = <<>>
               \/ /\ d \in w.evdev.grabbed /\ v.tv.now = w.tv.now + 1
                  /\ \E e \in UsbEvent(d) :
                        e.time = v.tv.now /\ v.tv.fd[d] = Append(w.tv.fd[d], e)
    PROVE  Good(v) /\ v.app.last = w.app.last
<1>1. /\ w.tv.now \in Nat /\ v.tv.now \in Nat /\ w.tv.now <= v.tv.now
      /\ w.app.last \in Nat /\ w.evdev.cutoff \in Nat /\ w.evdev.queue.before \in Nat
      /\ w.app.batch \in Seq(AnyEvent)
      /\ \A i \in DOMAIN w.app.batch : w.app.batch[i].time \in Nat
  <2>1. w \in Worlds /\ w.tv \in Tv /\ w.app \in App /\ w.evdev \in Evdev
    BY DEF Good, Core, Worlds
  <2>2. w.app.batch \in Seq(AnyEvent)
    BY DEF Good, Typed
  <2>3. \A i \in DOMAIN w.app.batch : w.app.batch[i].time \in Nat
    BY <2>2, EventsAreTimed
  <2> QED
    BY <2>1, <2>2, <2>3 DEF Tv, App, Evdev
<1>2. \A d \in Usb : \A x \in UsbEvent(d) : x.time \in Nat
  BY DEF UsbEvent, Event
<1>3. ASSUME NEW d \in Usb
      PROVE  /\ v.tv.fd[d] \in Seq(UsbEvent(d))
             /\ d \notin w.evdev.grabbed => v.tv.fd[d] = <<>>
             /\ Sorted(v.tv.fd[d]) /\ NotAfter(v.tv.fd[d], v.tv.now)
             /\ NotBefore(v.tv.fd[d], w.app.last) /\ NotBefore(v.tv.fd[d], w.evdev.queue.before)
             /\ \A i \in DOMAIN w.app.batch : NotBefore(v.tv.fd[d], w.app.batch[i].time)
             /\ w.evdev.sweeping /\ d \notin w.evdev.todo
                    => NotBefore(v.tv.fd[d], w.evdev.cutoff)
  <2> DEFINE s == w.tv.fd[d]
  <2>1. s \in Seq(UsbEvent(d)) /\ (d \notin w.evdev.grabbed => s = <<>>)
    BY DEF Good, Typed, ReaderOK
  <2>2. /\ Sorted(s) /\ NotAfter(s, w.tv.now)
        /\ NotBefore(s, w.app.last) /\ NotBefore(s, w.evdev.queue.before)
        /\ \A i \in DOMAIN w.app.batch : NotBefore(s, w.app.batch[i].time)
        /\ w.evdev.sweeping /\ d \notin w.evdev.todo => NotBefore(s, w.evdev.cutoff)
    BY DEF Good, TimesOK
  <2>3. NotAfter(s, v.tv.now)
    <3>1. \A i \in DOMAIN s : s[i].time \in Nat
      BY <1>2, <2>1
    <3> QED
      BY <1>1, <2>2, <3>1 DEF NotAfter
  <2> HIDE DEF s
  <2>4. CASE v.tv.fd[d] = s
    BY <2>1, <2>2, <2>3, <2>4
  <2>5. CASE v.tv.fd[d] = <<>>
    BY <2>5 DEF Sorted, NotAfter, NotBefore
  <2>6. CASE /\ d \in w.evdev.grabbed /\ v.tv.now = w.tv.now + 1
             /\ \E e \in UsbEvent(d) : e.time = v.tv.now /\ v.tv.fd[d] = Append(s, e)
    <3>1. PICK e \in UsbEvent(d) : e.time = v.tv.now /\ v.tv.fd[d] = Append(s, e)
      BY <2>6
    <3>2. /\ v.tv.fd[d] \in Seq(UsbEvent(d))
          /\ Sorted(v.tv.fd[d]) /\ NotAfter(v.tv.fd[d], v.tv.now)
          /\ \A m : NotBefore(s, m) /\ m <= v.tv.now => NotBefore(v.tv.fd[d], m)
      BY <1>2, <2>1, <2>2, <2>3, <3>1, EventAppended
    <3>3. w.app.last <= v.tv.now /\ w.evdev.queue.before <= v.tv.now
          /\ (w.evdev.sweeping => w.evdev.cutoff <= v.tv.now)
      BY <1>1, <2>6 DEF Good, TimesOK
    <3>4. \A i \in DOMAIN w.app.batch : w.app.batch[i].time <= v.tv.now
      BY <1>1 DEF Good, TimesOK, NotAfter
    <3> QED
      BY <2>2, <2>6, <3>2, <3>3, <3>4
  <2> QED
    BY <2>4, <2>5, <2>6 DEF s
<1>4. Typed(v)
  BY <1>3 DEF Good, Typed, Core
<1>5. ReaderOK(v)
  BY <1>3 DEF Good, ReaderOK
<1>6. BatchOK(v)
  BY DEF Good, BatchOK
<1>7. TimesOK(v)
  <2>1. w.app.last <= v.tv.now /\ w.evdev.queue.before <= v.tv.now + 1
        /\ (w.evdev.sweeping => w.evdev.cutoff <= v.tv.now + 1)
    BY <1>1 DEF Good, TimesOK
  <2>2. NotAfter(w.app.batch, v.tv.now)
    BY <1>1 DEF Good, TimesOK, NotAfter
  <2> QED
    BY <1>3, <2>1, <2>2 DEF Good, TimesOK
<1> QED
  BY <1>4, <1>5, <1>6, <1>7 DEF Good

\* A change of the sessions, by a worker.
WithSessions(w, now, sessions) ==
    [w EXCEPT !.tv = [w.tv EXCEPT !.now = now], !.server = sessions]

LEMMA SessionsKeep ==
    ASSUME NEW o, Good(o), NEW n, n = o.tv.now \/ n = o.tv.now + 1,
           NEW srv \in [Slots -> Server], NEW s \in Slots,
           srv[s].down = {}, srv[s].state # "gone", \A r \in Slots : r # s => srv[r] = o.server[r]
    PROVE  LET v == WithSessions(o, n, srv) IN Good(v) /\ v.app.last = o.app.last
<1> DEFINE t == [o.tv EXCEPT !.now = n]
           v == [o EXCEPT !.tv = t, !.server = srv]
<1>1. Core(o) /\ o \in Worlds /\ o.tv \in Tv /\ o.app \in App
  BY DEF Good, Core, Worlds
<1>2. n \in Nat
  BY <1>1 DEF Tv
<1>3. /\ t \in Tv /\ t.fd = o.tv.fd /\ t.pressed = o.tv.pressed /\ t.focus = o.tv.focus
      /\ t.sdl = o.tv.sdl /\ t.stale = o.tv.stale /\ t.now = n /\ t.hung = o.tv.hung
  BY <1>1, <1>2 DEF Tv
<1> HIDE DEF t
<1>4. v \in Worlds /\ v.app = o.app /\ v.evdev = o.evdev /\ v.tv = t /\ v.server = srv
  BY <1>1, <1>3 DEF Worlds
<1> HIDE DEF v
<1>5. PanelOK(v) /\ HeldOK(v)
  <2>1. o.app.slot \in Slots
    BY <1>1 DEF App
  <2> QED
    BY <1>1, <1>4, <2>1 DEF Core, PanelOK, HeldOK
<1>6. FocusOK(v) /\ QueuedOK(v) /\ v.tv.sdl \in Seq(Signal)
  BY <1>1, <1>3, <1>4 DEF Core, FocusOK, QueuedOK, OpenOn
<1>7. \A b : Excused(o, b) => Excused(v, b)
  BY <1>3, <1>4 DEF Excused, DownOn
<1>8. Core(v)
  BY <1>1, <1>3, <1>4, <1>5, <1>6, <1>7, OutsideKeeps
<1>9. Good(v) /\ v.app.last = o.app.last
  BY <1>3, <1>4, <1>8, ElapsedIsGood
<1> QED
  BY <1>9 DEF WithSessions, v, t

LEMMA PlugKeeps ==
    ASSUME NEW o, Good(o), NEW d \in Usb
    PROVE  LET v == [o EXCEPT !.tv = [o.tv EXCEPT !.now = @ + 1, !.plugged = @ \cup {d},
                                                  !.news = o.evdev.running]]
           IN  Good(v) /\ v.app.last = o.app.last
<1> DEFINE n == o.tv.now + 1
           p == o.tv.plugged \cup {d}
           y == o.evdev.running
           t == [o.tv EXCEPT !.now = n, !.plugged = p, !.news = y]
           v == [o EXCEPT !.tv = t]
<1>1. Core(o) /\ o \in Worlds /\ o.tv \in Tv
  BY DEF Good, Core, Worlds
<1>2. n \in Nat /\ n = o.tv.now + 1 /\ p \in SUBSET Usb /\ y \in BOOLEAN
  BY <1>1 DEF Tv, Worlds, Evdev
<1> HIDE DEF n, p, y
<1>3. /\ t \in Tv /\ t.fd = o.tv.fd /\ t.pressed = o.tv.pressed /\ t.focus = o.tv.focus
      /\ t.sdl = o.tv.sdl /\ t.stale = o.tv.stale /\ t.now = n /\ t.hung = o.tv.hung
  BY <1>1, <1>2 DEF Tv
<1> HIDE DEF t
<1>4. v \in Worlds /\ v.app = o.app /\ v.evdev = o.evdev /\ v.tv = t /\ v.server = o.server
  BY <1>1, <1>3 DEF Worlds
<1> HIDE DEF v
<1>5. PanelOK(v) /\ HeldOK(v) /\ FocusOK(v) /\ QueuedOK(v) /\ v.tv.sdl \in Seq(Signal)
  BY <1>1, <1>3, <1>4 DEF Core, PanelOK, HeldOK, FocusOK, QueuedOK, OpenOn
<1>6. \A b : Excused(o, b) => Excused(v, b)
  BY <1>3, <1>4 DEF Excused, DownOn
<1>7. Core(v)
  BY <1>1, <1>3, <1>4, <1>5, <1>6, OutsideKeeps
<1>8. Good(v) /\ v.app.last = o.app.last
  BY <1>3, <1>4, <1>7, <1>2, ElapsedIsGood
<1> QED
  BY <1>8 DEF v, t, n, p, y

LEMMA NoticesAppended ==
    ASSUME NEW s \in Seq(Signal)
    PROVE  /\ s \o <<Notice("lost")>> = Append(s, Notice("lost"))
           /\ s \o <<Notice("gained")>> = Append(s, Notice("gained"))
           /\ s \o <<Notice("lost"), Notice("away")>>
                  = Append(Append(s, Notice("lost")), Notice("away"))
           /\ s \o <<Notice("back"), Notice("gained")>>
                  = Append(Append(s, Notice("back")), Notice("gained"))
           /\ \A k \in {"lost", "gained", "away", "back"} :
                  Notice(k) \in Signal /\ Notice(k).kind = k /\ ~Notice(k).down
<1>1. ASSUME NEW k \in {"lost", "gained", "away", "back"}
      PROVE  Notice(k) \in Signal /\ Notice(k).kind = k /\ ~Notice(k).down
  BY DEF Notice, Signal, SdlEvent
<1>2. ASSUME NEW a \in Signal PROVE s \o <<a>> = Append(s, a)
  OBVIOUS
<1>3. ASSUME NEW a \in Signal, NEW b \in Signal
      PROVE  s \o <<a, b>> = Append(Append(s, a), b)
  OBVIOUS
<1> QED
  BY <1>1, <1>2, <1>3

\* The focus goes with a loss behind everything queued, or comes back.
LEMMA FocusChangeKeeps ==
    ASSUME NEW o, Good(o), NEW focus \in {"ours", "lost", "away"}, NEW notices,
           \/ focus = "lost" /\ notices = <<Notice("lost")>>
           \/ focus = "away" /\ notices = <<Notice("lost"), Notice("away")>>
           \/ focus = "ours" /\ o.tv.focus # "ours" /\ notices = <<Notice("gained")>>
           \/ focus = "ours" /\ o.tv.focus # "ours"
                  /\ notices = <<Notice("back"), Notice("gained")>>
    PROVE  LET v == [o EXCEPT !.tv = [o.tv EXCEPT !.now = @ + 1, !.focus = focus,
                                                  !.sdl = @ \o notices]]
           IN  Good(v) /\ v.app.last = o.app.last
<1> DEFINE s == o.tv.sdl
           r == s \o notices
           n == o.tv.now + 1
           t == [o.tv EXCEPT !.now = n, !.focus = focus, !.sdl = r]
           v == [o EXCEPT !.tv = t]
<1>1. Core(o) /\ o \in Worlds /\ o.tv \in Tv /\ s \in Seq(Signal) /\ n \in Nat
  BY DEF Good, Core, Worlds, Tv
<1>2. /\ r \in Seq(Signal) /\ (LossIn(s) => LossIn(r))
      /\ focus # "ours" => LossIn(r) /\ LostAgain(r)
      /\ focus = "ours" => o.tv.focus # "ours"
      /\ \A b : /\ Silent(r, b) => Silent(s, b) /\ focus = "ours"
                /\ LeavesDown(r, b) => LeavesDown(s, b) /\ focus = "ours"
  <2> HIDE DEF s
  <2> DEFINE lost == Notice("lost")
             gained == Notice("gained")
             away == Notice("away")
             back == Notice("back")
  <2>1. /\ lost \in Signal /\ lost.kind = "lost"
        /\ gained \in Signal /\ gained.kind = "gained"
        /\ away \in Signal /\ away.kind = "away"
        /\ back \in Signal /\ back.kind = "back"
    BY <1>1, NoticesAppended
  <2>2. /\ s \o <<lost>> = Append(s, lost) /\ s \o <<gained>> = Append(s, gained)
        /\ s \o <<lost, away>> = Append(Append(s, lost), away)
        /\ s \o <<back, gained>> = Append(Append(s, back), gained)
    BY <1>1, NoticesAppended
  <2>3. CASE focus = "lost" /\ notices = <<lost>>
    <3>1. r = Append(s, lost)
      BY <2>2, <2>3
    <3> HIDE DEF r, lost
    <3>2. r \in Seq(Signal) /\ LossIn(r) /\ LostAgain(r)
          /\ \A b : /\ Silent(r, b) => ~Mentions(lost, b)
                    /\ LeavesDown(r, b) => Presses(lost, b) \/ ~Mentions(lost, b)
      BY <1>1, <2>1, <3>1, NewsAppended
    <3> QED
      BY <2>1, <2>3, <3>2 DEF Mentions, Presses
  <2>4. CASE focus = "away" /\ notices = <<lost, away>>
    <3> DEFINE a == Append(s, lost)
    <3>1. r = Append(a, away)
      BY <2>2, <2>4
    <3> HIDE DEF r, lost, away
    <3>2. a \in Seq(Signal) /\ LossIn(a) /\ LostAgain(a)
          /\ \A b : /\ Silent(a, b) => ~Mentions(lost, b)
                    /\ LeavesDown(a, b) => Presses(lost, b) \/ ~Mentions(lost, b)
      BY <1>1, <2>1, NewsAppended
    <3> HIDE DEF a
    <3>3. r \in Seq(Signal) /\ LossIn(r) /\ LostAgain(r)
          /\ \A b : /\ Silent(r, b) => Silent(a, b)
                    /\ LeavesDown(r, b) => Presses(away, b) \/ LeavesDown(a, b)
      BY <2>1, <3>1, <3>2, NewsAppended
    <3> QED
      BY <2>1, <2>4, <3>2, <3>3 DEF Mentions, Presses
  <2>5. CASE focus = "ours" /\ o.tv.focus # "ours" /\ notices = <<gained>>
    <3>1. r = Append(s, gained)
      BY <2>2, <2>5
    <3> HIDE DEF r, gained
    <3>2. r \in Seq(Signal) /\ (LossIn(s) => LossIn(r))
          /\ \A b : /\ Silent(r, b) => Silent(s, b)
                    /\ LeavesDown(r, b) => Presses(gained, b) \/ LeavesDown(s, b)
      BY <1>1, <2>1, <3>1, NewsAppended
    <3> QED
      BY <2>1, <2>5, <3>2 DEF Presses
  <2>6. CASE focus = "ours" /\ o.tv.focus # "ours" /\ notices = <<back, gained>>
    <3> DEFINE a == Append(s, back)
    <3>1. r = Append(a, gained)
      BY <2>2, <2>6
    <3> HIDE DEF r, gained, back
    <3>2. a \in Seq(Signal) /\ (LossIn(s) => LossIn(a))
          /\ \A b : /\ Silent(a, b) => Silent(s, b)
                    /\ LeavesDown(a, b) => Presses(back, b) \/ LeavesDown(s, b)
      BY <1>1, <2>1, NewsAppended
    <3> HIDE DEF a
    <3>3. r \in Seq(Signal) /\ (LossIn(a) => LossIn(r))
          /\ \A b : /\ Silent(r, b) => Silent(a, b)
                    /\ LeavesDown(r, b) => Presses(gained, b) \/ LeavesDown(a, b)
      BY <2>1, <3>1, <3>2, NewsAppended
    <3> QED
      BY <2>1, <2>6, <3>2, <3>3 DEF Presses
  <2> QED
    BY <2>3, <2>4, <2>5, <2>6
<1>3. r \in Seq(SdlEvent)
  <2>1. Signal \subseteq SdlEvent
    BY DEF Signal
  <2> QED
    BY <1>2, <2>1
<1>4. n = o.tv.now + 1 /\ s = o.tv.sdl
  OBVIOUS
<1> HIDE DEF r, n, s
<1>5. /\ t \in Tv /\ t.fd = o.tv.fd /\ t.pressed = o.tv.pressed /\ t.focus = focus
      /\ t.sdl = r /\ t.stale = o.tv.stale /\ t.now = n /\ t.hung = o.tv.hung
  BY <1>1, <1>3 DEF Tv
<1> HIDE DEF t
<1>6. v \in Worlds /\ v.app = o.app /\ v.evdev = o.evdev /\ v.tv = t /\ v.server = o.server
  BY <1>1, <1>5 DEF Worlds
<1> HIDE DEF v
<1>7. PanelOK(v) /\ HeldOK(v)
  BY <1>1, <1>6 DEF Core, PanelOK, HeldOK
<1>8. FocusOK(v) /\ QueuedOK(v)
  BY <1>1, <1>2, <1>5, <1>6, <1>4 DEF Core, FocusOK, QueuedOK
<1>9. \A b : focus = "ours" /\ Excused(o, b) => Excused(v, b)
  BY <1>2, <1>5, <1>6 DEF Excused
<1>10. Core(v)
  BY <1>1, <1>2, <1>5, <1>6, <1>7, <1>8, <1>9, <1>4, OutsideKeeps
<1>11. Good(v) /\ v.app.last = o.app.last
  BY <1>5, <1>6, <1>10, <1>4, ElapsedIsGood
<1> QED
  BY <1>11 DEF v, t, r, n, s

\* What can be pressed: each control is a code of its own device.
Controls == {c \in Devices \X Codes : c[2] \in Has[c[1]]}

\* The releases SDL queues for a mouse that went with its buttons down.
LEMMA UnplugKeeps ==
    ASSUME NEW o, Good(o), NEW d \in Usb, d \notin o.tv.hung
    PROVE  LET lost == {c \in o.tv.pressed : c[1] = d}
               seen == IF d \in o.evdev.grabbed \/ o.tv.focus # "ours" THEN <<>>
                       ELSE SetToSeq({c[2] : c \in lost} \cap Buttons)
               v == [o EXCEPT !.tv = [o.tv EXCEPT !.now = @ + 1, !.plugged = @ \ {d},
                         !.pressed = @ \ lost, !.fd[d] = <<>>,
                         !.hung = IF d \in o.evdev.grabbed THEN @ \cup {d} ELSE @,
                         !.sdl = @ \o [i \in DOMAIN seen |-> Pointed(seen[i], FALSE)]]]
           IN  Good(v) /\ v.app.last = o.app.last
<1> DEFINE lost == {c \in o.tv.pressed : c[1] = d}
           up == {c[2] : c \in lost} \cap Buttons
           seen == IF d \in o.evdev.grabbed \/ o.tv.focus # "ours" THEN <<>> ELSE SetToSeq(up)
           u == [i \in DOMAIN seen |-> Pointed(seen[i], FALSE)]
           s == o.tv.sdl
           r == s \o u
           n == o.tv.now + 1
           p == o.tv.pressed \ lost
           none == <<>>
           f == [o.tv.fd EXCEPT ![d] = none]
           h == IF d \in o.evdev.grabbed THEN o.tv.hung \cup {d} ELSE o.tv.hung
           t == [o.tv EXCEPT !.now = n, !.plugged = @ \ {d}, !.pressed = p, !.fd = f,
                             !.hung = h, !.sdl = r]
           v == [o EXCEPT !.tv = t]
<1>1. /\ Core(o) /\ o \in Worlds /\ o.tv \in Tv /\ s \in Seq(Signal) /\ n \in Nat
      /\ o.tv.fd \in [Usb -> Seq(Event)]
  BY DEF Good, Core, Worlds, Tv
<1>2. [o EXCEPT !.tv = [o.tv EXCEPT !.now = @ + 1, !.plugged = @ \ {d},
                 !.pressed = @ \ lost, !.fd[d] = <<>>,
                 !.hung = IF d \in o.evdev.grabbed THEN @ \cup {d} ELSE @,
                 !.sdl = @ \o [i \in DOMAIN seen |-> Pointed(seen[i], FALSE)]]] = v
  OBVIOUS
<1>3. /\ u \in Seq(Signal) /\ \A i \in DOMAIN u : u[i].kind = "button" /\ ~u[i].down
      /\ d \notin o.evdev.grabbed /\ o.tv.focus = "ours"
             => \A b \in up : \E i \in DOMAIN u : u[i].code = b
  <2>1. /\ seen \in Seq(Buttons)
        /\ d \notin o.evdev.grabbed /\ o.tv.focus = "ours"
               => \A b \in up : \E i \in DOMAIN seen : seen[i] = b
    <3>1. SetToSeq(up) \in Seq(up) /\ \A b \in up : \E i \in DOMAIN SetToSeq(up) :
                                                        SetToSeq(up)[i] = b
      BY ButtonsListed
    <3>2. SetToSeq(up) \in Seq(Buttons)
      BY <3>1
    <3> HIDE DEF up
    <3> QED
      BY <3>1, <3>2
  <2> HIDE DEF seen, up
  <2>2. ASSUME NEW b \in Buttons
        PROVE  /\ Pointed(b, FALSE) \in Signal /\ Pointed(b, FALSE).kind = "button"
               /\ ~Pointed(b, FALSE).down /\ Pointed(b, FALSE).code = b
    BY SlotsAssumption DEF Pointed, Signal, SdlEvent, Codes, Buttons
  <2>3. \A i \in DOMAIN u : /\ u[i] \in Signal /\ u[i].kind = "button" /\ ~u[i].down
                            /\ u[i].code = seen[i]
    <3>1. \A i \in DOMAIN u : u[i] = Pointed(seen[i], FALSE) /\ seen[i] \in Buttons
      BY <2>1
    <3> HIDE DEF u
    <3> QED
      BY <2>2, <3>1, Zenon
  <2>4. DOMAIN u = 1..Len(seen) /\ Len(seen) \in Nat /\ DOMAIN u = DOMAIN seen
    BY <2>1
  <2> HIDE DEF u
  <2>5. u \in Seq(Signal)
    <3>1. u = [i \in 1..Len(seen) |-> u[i]]
      BY <2>4 DEF u
    <3> QED
      BY <2>3, <2>4, <3>1
  <2> QED
    BY <2>1, <2>3, <2>4, <2>5
<1>4. /\ r \in Seq(Signal) /\ (LossIn(s) <=> LossIn(r)) /\ (LostAgain(s) => LostAgain(r))
      /\ \A b : /\ Silent(r, b) => Silent(s, b) /\ \A i \in DOMAIN u : u[i].code # b
                /\ LeavesDown(r, b) => LeavesDown(s, b) /\ \A i \in DOMAIN u : u[i].code # b
  <2> HIDE DEF u, s
  <2>1. /\ r \in Seq(Signal) /\ (LossIn(s) <=> LossIn(r))
        /\ \A b : /\ Silent(r, b) => Silent(s, b) /\ \A i \in DOMAIN u : u[i].code # b
                  /\ LeavesDown(r, b) => LeavesDown(s, b) /\ \A i \in DOMAIN u : u[i].code # b
    BY <1>1, <1>3, ReleasesAdded
  <2>2. /\ DOMAIN s = 1..Len(s) /\ DOMAIN u = 1..Len(u) /\ Len(s) \in Nat /\ Len(u) \in Nat
        /\ DOMAIN r = 1..(Len(s) + Len(u))
        /\ \A i \in DOMAIN r : r[i] = IF i <= Len(s) THEN s[i] ELSE u[i - Len(s)]
    BY <1>1, <1>3
  <2>3. ASSUME LostAgain(s) PROVE LostAgain(r)
    <3> SUFFICES ASSUME NEW i \in DOMAIN r, r[i].kind \in {"gained", "back"}
                 PROVE  \E j \in DOMAIN r : i < j /\ r[j].kind = "lost"
      BY DEF LostAgain
    <3>1. i \in DOMAIN s /\ r[i] = s[i]
      <4>1. CASE i <= Len(s)
        BY <2>2, <4>1
      <4>2. CASE ~(i <= Len(s))
        <5>1. i - Len(s) \in DOMAIN u /\ r[i] = u[i - Len(s)]
          BY <2>2, <4>2
        <5> QED
          BY <1>3, <5>1
      <4> QED
        BY <4>1, <4>2
    <3>2. PICK j \in DOMAIN s : i < j /\ s[j].kind = "lost"
      BY <2>3, <3>1 DEF LostAgain
    <3>3. j \in DOMAIN r /\ r[j] = s[j]
      BY <2>2
    <3> QED
      BY <3>2, <3>3
  <2> QED
    BY <2>1, <2>3
<1>5. r \in Seq(SdlEvent)
  <2>1. Signal \subseteq SdlEvent
    BY DEF Signal
  <2> QED
    BY <1>4, <2>1
<1>6. /\ p \in SUBSET (Devices \X Codes) /\ h \in SUBSET Usb
      /\ p \subseteq o.tv.pressed /\ (\A c \in o.tv.pressed : c \notin p => c[1] = d)
      /\ \A b \in Buttons : <<d, b>> \in o.tv.pressed => b \in up
      /\ d \in o.evdev.grabbed => d \in h
      /\ \A g \in Usb : g # d => (g \in h <=> g \in o.tv.hung)
  <2>1. o.tv.pressed \in SUBSET (Devices \X Codes) /\ o.tv.hung \in SUBSET Usb
    BY <1>1 DEF Tv
  <2>2. p \in SUBSET (Devices \X Codes) /\ p \subseteq o.tv.pressed
        /\ \A c \in o.tv.pressed : c \notin p => c[1] = d
    BY <2>1
  <2>3. ASSUME NEW b \in Buttons, <<d, b>> \in o.tv.pressed PROVE b \in up
    <3>1. <<d, b>> \in lost /\ <<d, b>>[2] = b
      BY <2>3
    <3> HIDE DEF lost
    <3> QED
      BY <3>1
  <2>4. h \in SUBSET Usb /\ (d \in o.evdev.grabbed => d \in h)
        /\ \A g \in Usb : g # d => (g \in h <=> g \in o.tv.hung)
    BY <2>1
  <2> QED
    BY <2>2, <2>3, <2>4
<1>7. /\ none \in Seq(Event) /\ none = <<>>
  OBVIOUS
<1> HIDE DEF none
<1>8. f \in [Usb -> Seq(Event)] /\ f[d] = none /\ \A g \in Usb : g # d => f[g] = o.tv.fd[g]
  BY <1>1, <1>7
<1>9. n = o.tv.now + 1 /\ s = o.tv.sdl
  OBVIOUS
<1> HIDE DEF r, n, s, p, f, h, u, up, seen, lost
<1>10. /\ t \in Tv /\ t.fd = f /\ t.pressed = p /\ t.focus = o.tv.focus
       /\ t.sdl = r /\ t.stale = o.tv.stale /\ t.now = n /\ t.hung = h
  BY <1>1, <1>5, <1>6, <1>8 DEF Tv
<1> HIDE DEF t
<1>11. v \in Worlds /\ v.app = o.app /\ v.evdev = o.evdev /\ v.tv = t /\ v.server = o.server
  BY <1>1, <1>10 DEF Worlds
<1> HIDE DEF v
<1>12. ~o.evdev.started => f = o.tv.fd
  <2> SUFFICES ASSUME ~o.evdev.started PROVE f = o.tv.fd
    OBVIOUS
  <2>1. o.tv.fd = [g \in Usb |-> <<>>]
    BY <1>1 DEF Core, IdleOK
  <2>2. \A g \in Usb : f[g] = o.tv.fd[g]
    BY <1>7, <1>8, <2>1
  <2> QED
    BY <1>1, <1>8, <2>2
<1>13. PanelOK(v) /\ HeldOK(v) /\ FocusOK(v)
  BY <1>1, <1>4, <1>9, <1>10, <1>11 DEF Core, PanelOK, HeldOK, FocusOK
<1>14. ASSUME NEW b \in Buttons, o.tv.focus = "ours", \A i \in DOMAIN u : u[i].code # b
       PROVE  /\ OpenOn(o, b) => OpenOn(v, b)
              /\ "mouse" \notin o.evdev.grabbed /\ DownOn(o, b) => DownOn(v, b)
  <2>1. <<"pointer", b>> \in o.tv.pressed => <<"pointer", b>> \in p
    BY <1>6 DEF Usb
  <2>2. d = "mouse" /\ d \notin o.evdev.grabbed => <<"mouse", b>> \notin o.tv.pressed
    BY <1>3, <1>6, <1>14
  <2>3. d # "mouse" => ("mouse" \in h <=> "mouse" \in o.tv.hung)
                       /\ (<<"mouse", b>> \in o.tv.pressed => <<"mouse", b>> \in p)
    BY <1>6 DEF Usb
  <2> QED
    BY <1>10, <1>11, <2>1, <2>2, <2>3 DEF OpenOn, DownOn
<1>15. QueuedOK(v)
  BY <1>1, <1>4, <1>9, <1>10, <1>11, <1>14 DEF Core, QueuedOK
<1>16. \A b \in Buttons : Silent(r, b) /\ "mouse" \notin o.evdev.grabbed =>
           Silent(s, b) /\ (Excused(o, b) => Excused(v, b))
  BY <1>4, <1>10, <1>11, <1>14 DEF Excused
<1>17. Core(v)
  BY <1>1, <1>4, <1>9, <1>10, <1>11, <1>12, <1>13, <1>15, <1>16, OutsideKeeps
<1>18. \A g \in Usb : f[g] = o.tv.fd[g] \/ f[g] = <<>>
  BY <1>7, <1>8
<1>19. Good(v) /\ v.app.last = o.app.last
  BY <1>9, <1>10, <1>11, <1>17, <1>18, ElapsedIsGood
<1> QED
  BY <1>2, <1>19 DEF seen, up, lost

\* A control that goes down or up, on a device the reader reads.
EdgeRead(o, c, now, pressed, e) ==
    LET w == [o EXCEPT !.tv = [o.tv EXCEPT !.now = now, !.pressed = pressed]]
    IN  [w EXCEPT !.tv.fd[c[1]] = Append(@, e), !.tv.ready = @ \cup {c[1]}]

LEMMA EdgeReadKeeps ==
    ASSUME NEW o, Good(o), NEW c \in Controls, c[1] \in o.evdev.grabbed, c[1] \notin o.tv.hung,
           NEW n, n = o.tv.now + 1, NEW e \in UsbEvent(c[1]), e.time = n,
           NEW p, p = (IF c \in o.tv.pressed THEN o.tv.pressed \ {c} ELSE o.tv.pressed \cup {c})
    PROVE  LET v == EdgeRead(o, c, n, p, e) IN Good(v) /\ v.app.last = o.app.last
<1> DEFINE d == c[1]
           w == [o EXCEPT !.tv = [o.tv EXCEPT !.now = n, !.pressed = p]]
           r == Append(o.tv.fd[d], e)
           f == [o.tv.fd EXCEPT ![d] = r]
           y == o.tv.ready \cup {d}
           t == [o.tv EXCEPT !.now = n, !.pressed = p, !.fd = f, !.ready = y]
           v == [o EXCEPT !.tv = t]
<1>1. /\ Core(o) /\ o \in Worlds /\ o.tv \in Tv /\ o.evdev \in Evdev /\ o.app \in App
      /\ o.tv.fd \in [Usb -> Seq(Event)] /\ n \in Nat /\ o.tv.sdl \in Seq(Signal)
  BY DEF Good, Core, Worlds, Tv
<1>2. d \in Usb /\ d \notin o.tv.hung /\ d \in o.evdev.grabbed /\ c \in Devices \X Codes
  BY <1>1 DEF Evdev, Controls
<1>3. EdgeRead(o, c, n, p, e) = v
  <2>1. [w EXCEPT !.tv.fd[c[1]] = Append(@, e), !.tv.ready = @ \cup {c[1]}] = v
    BY <1>1 DEF Worlds, Tv
  <2> QED
    BY <2>1 DEF EdgeRead
<1>4. r \in Seq(Event)
  <2>1. e \in Event
    BY DEF UsbEvent
  <2> QED
    BY <1>1, <1>2, <2>1
<1>5. /\ p \in SUBSET (Devices \X Codes) /\ y \in SUBSET Usb
      /\ \A b : /\ <<"pointer", b>> \in p <=> <<"pointer", b>> \in o.tv.pressed
                /\ d # "mouse" => (<<"mouse", b>> \in p <=> <<"mouse", b>> \in o.tv.pressed)
  <2>1. o.tv.pressed \in SUBSET (Devices \X Codes) /\ o.tv.ready \in SUBSET Usb
    BY <1>1 DEF Tv
  <2>2. \A x : x # c => (x \in p <=> x \in o.tv.pressed)
    OBVIOUS
  <2>3. \A b : <<"pointer", b>> # c /\ (d # "mouse" => <<"mouse", b>> # c)
    BY <1>2 DEF Usb
  <2> QED
    BY <1>2, <2>1, <2>2, <2>3
<1>6. r = Append(o.tv.fd[d], e)
  OBVIOUS
<1> HIDE DEF r
<1>7. f \in [Usb -> Seq(Event)] /\ f[d] = r /\ \A g \in Usb : g # d => f[g] = o.tv.fd[g]
  BY <1>1, <1>2, <1>4
<1> HIDE DEF f, y
<1>8. /\ t \in Tv /\ t.fd = f /\ t.pressed = p /\ t.focus = o.tv.focus
      /\ t.sdl = o.tv.sdl /\ t.stale = o.tv.stale /\ t.now = n /\ t.hung = o.tv.hung
  BY <1>1, <1>5, <1>7 DEF Tv
<1> HIDE DEF t
<1>9. v \in Worlds /\ v.app = o.app /\ v.evdev = o.evdev /\ v.tv = t /\ v.server = o.server
  BY <1>1, <1>8 DEF Worlds
<1> HIDE DEF v
<1>10. o.evdev.started
  BY <1>1, <1>2 DEF Core, IdleOK
<1>11. PanelOK(v) /\ HeldOK(v) /\ FocusOK(v)
  BY <1>1, <1>8, <1>9 DEF Core, PanelOK, HeldOK, FocusOK
<1>12. \A b : /\ OpenOn(o, b) => OpenOn(v, b)
              /\ "mouse" \notin o.evdev.grabbed /\ DownOn(o, b) => DownOn(v, b)
  BY <1>2, <1>5, <1>8, <1>9 DEF OpenOn, DownOn
<1>13. QueuedOK(v)
  BY <1>1, <1>8, <1>9, <1>12 DEF Core, QueuedOK
<1>14. \A b : "mouse" \notin o.evdev.grabbed => (Excused(o, b) => Excused(v, b))
  BY <1>8, <1>9, <1>12 DEF Excused
<1>15. Core(v)
  BY <1>1, <1>8, <1>9, <1>10, <1>11, <1>13, <1>14, OutsideKeeps
<1>16. \A g \in Usb :
          \/ f[g] = o.tv.fd[g]
          \/ /\ g \in o.evdev.grabbed
             /\ \E x \in UsbEvent(g) : x.time = n /\ f[g] = Append(o.tv.fd[g], x)
  BY <1>2, <1>6, <1>7
<1>17. Good(v) /\ v.app.last = o.app.last
  BY <1>8, <1>9, <1>15, <1>16, ElapsedIsGood
<1> QED
  BY <1>3, <1>17

\* A control that goes down or up, on a device SDL is given the events of.
EdgeSeen(o, c, now, pressed, down) ==
    Delivered([o EXCEPT !.tv = [o.tv EXCEPT !.now = now, !.pressed = pressed]], c[2], down)

LEMMA EdgeSeenKeeps ==
    ASSUME NEW o, Good(o), NEW c \in Controls, c[1] \in o.evdev.grabbed => c[1] \in o.tv.hung,
           NEW n, n = o.tv.now + 1, NEW down \in BOOLEAN, down <=> c \notin o.tv.pressed,
           NEW p, p = (IF c \in o.tv.pressed THEN o.tv.pressed \ {c} ELSE o.tv.pressed \cup {c})
    PROVE  LET v == EdgeSeen(o, c, n, p, down) IN Good(v) /\ v.app.last = o.app.last
<1> DEFINE w == [o EXCEPT !.tv = [o.tv EXCEPT !.now = n, !.pressed = p]]
           d == c[1]
           k == c[2]
           e == Pointed(k, down)
           s == o.tv.sdl
           r == IF o.tv.focus # "ours" \/ k \notin Buttons \cup Slots THEN s ELSE Append(s, e)
           t == [o.tv EXCEPT !.now = n, !.pressed = p, !.sdl = r]
           v == [o EXCEPT !.tv = t]
<1>1. /\ Core(o) /\ o \in Worlds /\ o.tv \in Tv /\ o.evdev \in Evdev /\ o.app \in App
      /\ s \in Seq(Signal) /\ n \in Nat
  BY DEF Good, Core, Worlds, Tv
<1>2. d \in Devices /\ c = <<d, k>> /\ k \in Has[d] /\ c \in Devices \X Codes
  BY DEF Controls
<1>3. Delivered(w, k, down) = v
  <2>1. w.tv.focus = o.tv.focus /\ w.tv.sdl = s
    BY <1>1 DEF Worlds, Tv
  <2>2. CASE o.tv.focus # "ours" \/ k \notin Buttons \cup Slots
    <3>1. r = o.tv.sdl /\ Delivered(w, k, down) = w
      BY <2>1, <2>2 DEF Delivered
    <3> HIDE DEF r
    <3>2. [o.tv EXCEPT !.now = n, !.pressed = p] = t
      BY <1>1, <3>1 DEF Tv
    <3> HIDE DEF t
    <3> QED
      BY <3>1, <3>2
  <2>3. CASE ~(o.tv.focus # "ours" \/ k \notin Buttons \cup Slots)
    <3>1. r = Append(s, e) /\ Delivered(w, k, down) = [w EXCEPT !.tv.sdl = Append(@, e)]
      BY <2>1, <2>3 DEF Delivered
    <3> HIDE DEF e, r
    <3> QED
      BY <1>1, <3>1 DEF Worlds, Tv
  <2> QED
    BY <2>2, <2>3
<1>4. k \in Buttons \cup Slots =>
          /\ e \in Signal /\ e.kind \in {"button", "colour"}
          /\ \A b \in Buttons : /\ Mentions(e, b) <=> b = k
                                /\ Presses(e, b) <=> b = k /\ down
  BY SlotsAssumption DEF Pointed, Signal, SdlEvent, Codes, Mentions, Presses
<1> HIDE DEF e
<1>5. /\ r \in Seq(Signal) /\ (LossIn(s) <=> LossIn(r))
      /\ o.tv.focus # "ours" => r = s
      /\ \A b \in Buttons :
           /\ Silent(r, b) => Silent(s, b) /\ (o.tv.focus # "ours" \/ b # k)
           /\ LeavesDown(r, b) => \/ o.tv.focus = "ours" /\ b = k /\ down
                                  \/ LeavesDown(s, b) /\ (o.tv.focus # "ours" \/ b # k)
  <2>1. CASE o.tv.focus # "ours" \/ k \notin Buttons \cup Slots
    <3>1. r = s
      BY <2>1
    <3> QED
      BY <1>1, <2>1, <3>1
  <2>2. CASE ~(o.tv.focus # "ours" \/ k \notin Buttons \cup Slots)
    <3>1. r = Append(s, e)
      BY <2>2
    <3> HIDE DEF r, s
    <3>2. /\ r \in Seq(Signal) /\ (LossIn(r) <=> LossIn(s) \/ e.kind = "lost")
          /\ \A b : /\ Silent(r, b) => Silent(s, b) /\ ~Mentions(e, b)
                    /\ LeavesDown(r, b)
                           => Presses(e, b) \/ (~Mentions(e, b) /\ LeavesDown(s, b))
      BY <1>1, <1>4, <2>2, <3>1, NewsAppended
    <3> QED
      BY <1>4, <2>2, <3>2
  <2> QED
    BY <2>1, <2>2
<1>6. r \in Seq(SdlEvent)
  <2>1. Signal \subseteq SdlEvent
    BY DEF Signal
  <2> QED
    BY <1>5, <2>1
<1>7. /\ p \in SUBSET (Devices \X Codes)
      /\ \A g, b : b # k => (<<g, b>> \in p <=> <<g, b>> \in o.tv.pressed)
      /\ down => <<d, k>> \in p
  <2>1. o.tv.pressed \in SUBSET (Devices \X Codes)
    BY <1>1 DEF Tv
  <2>2. \A x : x # c => (x \in p <=> x \in o.tv.pressed)
    OBVIOUS
  <2>3. \A g, b : b # k => <<g, b>> # c
    BY <1>2
  <2>4. down => c \in p
    OBVIOUS
  <2>5. p \in SUBSET (Devices \X Codes)
    BY <1>2, <2>1
  <2> QED
    BY <1>2, <2>2, <2>3, <2>4, <2>5
<1>8. k \in Buttons => d \in {"mouse", "pointer"}
  BY <1>2, SlotsAssumption DEF Devices, Usb, Has, Buttons
<1>9. s = o.tv.sdl
  OBVIOUS
<1> HIDE DEF r, s
<1>10. /\ t \in Tv /\ t.fd = o.tv.fd /\ t.pressed = p /\ t.focus = o.tv.focus
       /\ t.sdl = r /\ t.stale = o.tv.stale /\ t.now = n /\ t.hung = o.tv.hung
  BY <1>1, <1>6, <1>7 DEF Tv
<1> HIDE DEF t
<1>11. v \in Worlds /\ v.app = o.app /\ v.evdev = o.evdev /\ v.tv = t /\ v.server = o.server
  BY <1>1, <1>10 DEF Worlds
<1> HIDE DEF v
<1>12. PanelOK(v) /\ HeldOK(v) /\ FocusOK(v)
  BY <1>1, <1>5, <1>9, <1>10, <1>11 DEF Core, PanelOK, HeldOK, FocusOK
<1>13. ASSUME NEW b \in Buttons, b # k
       PROVE  (OpenOn(o, b) => OpenOn(v, b)) /\ (DownOn(o, b) => DownOn(v, b))
  BY <1>7, <1>10, <1>11, <1>13 DEF OpenOn, DownOn
<1>14. QueuedOK(v)
  <2> SUFFICES ASSUME NEW b \in Buttons, LeavesDown(r, b), b \notin o.tv.stale
               PROVE  o.tv.focus = "ours" /\ OpenOn(v, b)
    BY <1>10, <1>11 DEF QueuedOK
  <2>1. CASE o.tv.focus = "ours" /\ b = k /\ down
    BY <1>7, <1>8, <1>10, <1>11, <2>1 DEF OpenOn
  <2>2. CASE LeavesDown(s, b) /\ (o.tv.focus # "ours" \/ b # k)
    <3>1. o.tv.focus = "ours" /\ OpenOn(o, b)
      BY <1>1, <1>9, <2>2 DEF Core, QueuedOK
    <3> QED
      BY <1>13, <2>2, <3>1
  <2> QED
    BY <1>5, <2>1, <2>2
<1>15. \A b \in Buttons : Silent(r, b) => Silent(s, b) /\ (Excused(o, b) => Excused(v, b))
  BY <1>5, <1>10, <1>11, <1>13 DEF Excused
<1>16. Core(v)
  BY <1>1, <1>5, <1>9, <1>10, <1>11, <1>12, <1>14, <1>15, OutsideKeeps
<1>17. Good(v) /\ v.app.last = o.app.last
  BY <1>10, <1>11, <1>16, ElapsedIsGood
<1>18. EdgeSeen(o, c, n, p, down) = v
  BY <1>3 DEF EdgeSeen
<1> QED
  BY <1>17, <1>18

-----------------------------------------------------------------------------
(* The steps.                                                              *)

\* A step leads to a good world, in which no older event was routed.
Leads(v) == Become(v) /\ Good(v) /\ World.app.last <= v.app.last

LEMMA WorldIs ==
    World.app = app /\ World.evdev = evdev /\ World.tv = tv /\ World.server = server
BY DEF World

LEMMA Becomes ==
    ASSUME NEW v, Leads(v), scenario \in Scenarios
    PROVE  IInv' /\ app.last <= app'.last
<1>1. v \in Worlds
  BY DEF Leads, Good, Core
<1>2. World' = v
  BY <1>1 DEF Leads, Become, World, Worlds
<1>3. scenario' \in Scenarios
  BY DEF Leads, Become
<1>4. Good(World')
  BY <1>2 DEF Leads
<1>5. app.last <= app'.last
  BY WorldIs DEF Leads, Become
<1> QED
  BY <1>3, <1>4, <1>5 DEF IInv

LEMMA LastIsNat ==
    ASSUME NEW o, Good(o) PROVE o.app.last <= o.app.last
BY DEF Good, Core, Worlds, App

LEMMA RouteEventKeeps ==
    ASSUME NEW o, Good(o), o.app.phase = "drain", o.app.batch # <<>>,
           ~o.evdev.sweeping, ~o.app.sampling
    PROVE  LET e == Head(o.app.batch)
               w == [o EXCEPT !.app.batch = Tail(@), !.app.last = e.time]
               v == IF e.kind = "mouse" THEN RouteMouse(w, e) ELSE RouteKeyboard(w, e)
           IN  Good(v) /\ o.app.last <= v.app.last
<1> DEFINE e == Head(o.app.batch)
           w == [o EXCEPT !.app.batch = Tail(@), !.app.last = e.time]
<1>1. /\ Good(w) /\ w.evdev = o.evdev /\ w.app.sampling = o.app.sampling
      /\ o.app.last <= w.app.last /\ e \in AnyEvent
      /\ e.kind = "mouse" => w.evdev.started
                             /\ ("mouse" \in w.evdev.grabbed \/ w.evdev.queue.reset)
      /\ e.kind # "mouse" => \A i \in DOMAIN w.app.batch : w.app.batch[i].kind # "mouse"
  BY EventTaken, Zenon
<1> HIDE DEF w, e
<1>2. ~w.evdev.sweeping /\ ~w.app.sampling
  BY <1>1
<1>3. e.kind = "mouse" => Good(RouteMouse(w, e)) /\ RouteMouse(w, e).app.last = w.app.last
  BY <1>1, <1>2, RouteMouseKeeps
<1>4. e.kind # "mouse" => Good(RouteKeyboard(w, e)) /\ RouteKeyboard(w, e).app.last = w.app.last
  BY <1>1, <1>2, RouteKeyboardKeeps
<1>5. LET v == IF e.kind = "mouse" THEN RouteMouse(w, e) ELSE RouteKeyboard(w, e)
      IN  Good(v) /\ o.app.last <= v.app.last
  BY <1>1, <1>3, <1>4
<1> QED
  BY <1>5 DEF e, w

\* What a step is, with the world as a whole in place of the variables.
LEMMA DrainKeeps ==
    ASSUME IInv, DrainReset \/ TakeBatch \/ RouteEvent \/ DrainDone
    PROVE  \E v : Leads(v)
<1> DEFINE o == World
<1>1. o.app = app /\ o.evdev = evdev /\ o.tv = tv /\ o.server = server /\ Good(o)
  BY WorldIs DEF IInv
<1>2. o.app.last <= o.app.last
  BY <1>1, LastIsNat
<1>3. CASE DrainReset
  <2>1. o.app.batch = <<>> /\ o.evdev.started /\ NextKind(o.evdev.queue) = "reset"
    BY <1>1, <1>3 DEF DrainReset
  <2>2. o.evdev.queue.reset
    <3>1. o.evdev.queue.events \in Seq(AnyEvent)
      BY <1>1 DEF Good, Typed
    <3>2. o.evdev.queue.events # <<>> => Head(o.evdev.queue.events) \in AnyEvent
      BY <3>1
    <3>3. o.evdev.queue.events # <<>> => Head(o.evdev.queue.events).kind # "reset"
      BY <3>2, EventsAreTimed DEF Usb
    <3> QED
      BY <2>1, <3>3 DEF NextKind
  <2> QED
    BY <1>1, <1>2, <1>3, <2>1, <2>2, DrainResetKeeps DEF DrainReset, Leads
<1>4. CASE TakeBatch
  <2>1. o.app.phase = "drain" /\ o.app.batch = <<>> /\ o.evdev.started
        /\ NextKind(o.evdev.queue) \in Usb
    BY <1>1, <1>4 DEF TakeBatch, UiAt
  <2> QED
    BY <1>1, <1>2, <1>4, <2>1, TakeBatchKeeps, Zenon DEF TakeBatch, Leads
<1>5. CASE RouteEvent
  <2>1. o.app.phase = "drain" /\ o.app.batch # <<>> /\ ~o.evdev.sweeping /\ ~o.app.sampling
    BY <1>1, <1>5 DEF RouteEvent, UiAt, Unlocked
  <2> QED
    BY <1>1, <1>5, <2>1, RouteEventKeeps, Zenon DEF RouteEvent, Leads
<1>6. CASE DrainDone
  <2>1. o.app.batch = <<>>
    BY <1>1, <1>6 DEF DrainDone
  <2> QED
    BY <1>1, <1>2, <1>6, <2>1, DrainDoneKeeps DEF DrainDone, Leads
<1> QED
  BY <1>3, <1>4, <1>5, <1>6

LEMMA SdlKeeps ==
    ASSUME IInv, PollSdl \/ PumpSdl \/ EventsDone
    PROVE  \E v : Leads(v)
<1> DEFINE o == World
<1>1. o.app = app /\ o.evdev = evdev /\ o.tv = tv /\ o.server = server /\ Good(o)
  BY WorldIs DEF IInv
<1>2. o.app.last <= o.app.last
  BY <1>1, LastIsNat
<1>3. CASE PollSdl
  <2>1. o.app.phase = "sdl" /\ o.tv.sdl # <<>> /\ ~o.evdev.sweeping /\ ~o.app.sampling
    BY <1>1, <1>3 DEF PollSdl, UiAt, Unlocked
  <2>2. PICK where \in {"outside", "fader", "body"} :
            Become(HandleSdl([o EXCEPT !.tv.sdl = Tail(@)], Head(o.tv.sdl), where))
    BY <1>1, <1>3 DEF PollSdl
  <2>3. LET x == HandleSdl([o EXCEPT !.tv.sdl = Tail(@)], Head(o.tv.sdl), where)
        IN  Good(x) /\ x.app.last = o.app.last
    BY <1>1, <2>1, PollSdlKeeps
  <2> QED
    BY <1>2, <2>2, <2>3 DEF Leads
<1>4. CASE PumpSdl
  <2>1. o.app.phase = "pump" /\ ~o.evdev.sweeping /\ ~o.app.sampling
    BY <1>1, <1>4, Zenon DEF PumpSdl, UiAt, Unlocked
  <2> DEFINE P == Pumped
             W(i) == [o EXCEPT !.tv.sdl = RemoveAt(@, i),
                               !.tv.stale = IF o.tv.sdl[i].kind = "lost" THEN @ \cup Queued(o, i)
                                            ELSE @]
  <2>2. P = {i \in DOMAIN o.tv.sdl : o.tv.sdl[i].kind = "button" => ~o.app.streaming}
    BY <1>1 DEF Pumped
  <2>3. PICK i \in P :
            /\ \A j \in P \ {i} :
                  \/ PumpRank(o.tv.sdl[i].kind) < PumpRank(o.tv.sdl[j].kind)
                  \/ PumpRank(o.tv.sdl[i].kind) = PumpRank(o.tv.sdl[j].kind) /\ i < j
            /\ Become(IF o.tv.sdl[i].kind = "button" THEN W(i)
                      ELSE HandleSdl(W(i), o.tv.sdl[i], "body"))
    BY <1>1, <1>4, Zenon DEF PumpSdl
  <2> HIDE DEF P
  <2>4. LET x == IF o.tv.sdl[i].kind = "button" THEN W(i)
                 ELSE HandleSdl(W(i), o.tv.sdl[i], "body")
        IN  Good(x) /\ x.app.last = o.app.last
    BY <1>1, <2>1, <2>2, <2>3, PumpSdlKeeps, Zenon
  <2> HIDE DEF W
  <2> QED
    BY <1>2, <2>3, <2>4 DEF Leads
<1>5. CASE EventsDone
  <2>1. o.app.phase \in {"sdl", "pump"} /\ ~o.evdev.sweeping /\ ~o.app.sampling
    BY <1>1, <1>5 DEF EventsDone, UiAt, Unlocked
  <2>2. ~LossIn(o.tv.sdl)
    BY <1>1, <1>5 DEF EventsDone, Pumped, LossIn
  <2> DEFINE w == [o EXCEPT !.app.phase = "tick"]
  <2>3. PICK raised \in BOOLEAN : /\ raised => o.app.streaming /\ ~o.app.panel
                                  /\ Become(IF raised THEN ShowPanel(w) ELSE w)
    BY <1>1, <1>5 DEF EventsDone
  <2>4. LET x == IF raised THEN ShowPanel(w) ELSE w IN Good(x) /\ x.app.last = o.app.last
    BY <1>1, <2>1, <2>2, <2>3, EventsDoneKeeps
  <2> HIDE DEF w
  <2> QED
    BY <1>2, <2>3, <2>4 DEF Leads
<1> QED
  BY <1>3, <1>4, <1>5

LEMMA TickKeeps ==
    ASSUME IInv, Supervise \/ Present \/ Sample
    PROVE  \E v : Leads(v)
<1> DEFINE o == World
<1>1. o.app = app /\ o.evdev = evdev /\ o.tv = tv /\ o.server = server /\ Good(o)
  BY WorldIs DEF IInv
<1>2. o.app.last <= o.app.last
  BY <1>1, LastIsNat
<1>3. CASE Supervise
  <2>1. o.app.phase = "tick" /\ ~o.evdev.sweeping /\ ~o.app.sampling
    BY <1>1, <1>3 DEF Supervise, UiAt, Unlocked
  <2> QED
    BY <1>1, <1>2, <1>3, <2>1, SuperviseKeeps DEF Supervise, Leads
<1>4. CASE Present
  <2>1. o.app.phase = "present" /\ ~o.evdev.sweeping /\ ~o.app.sampling
    BY <1>1, <1>4, Zenon DEF Present, UiAt, Unlocked
  <2>2. PICK idle \in BOOLEAN, leave \in BOOLEAN : Become(Presented(o, idle, leave))
    BY <1>4, Zenon DEF Present, Presented
  <2>3. Good(Presented(o, idle, leave)) /\ Presented(o, idle, leave).app.last = o.app.last
    BY <1>1, <2>1, PresentKeeps
  <2> QED
    BY <1>2, <2>2, <2>3 DEF Leads
<1>5. CASE Sample
  <2>1. o.app.sampling
    BY <1>1, <1>5 DEF Sample
  <2> QED
    BY <1>1, <1>2, <1>5, <2>1, SampleKeeps, Zenon DEF Sample, Leads
<1> QED
  BY <1>3, <1>4, <1>5

LEMMA SweepKeeps ==
    ASSUME IInv, SweepBegin \/ SweepDevice \/ SweepDone \/ ReaderDies
    PROVE  \E v : Leads(v)
<1> DEFINE o == World
<1>1. o.app = app /\ o.evdev = evdev /\ o.tv = tv /\ o.server = server /\ Good(o)
  BY WorldIs DEF IInv
<1>2. o.app.last <= o.app.last /\ o \in Worlds
  BY <1>1, LastIsNat DEF Good, Core
<1>3. CASE SweepBegin
  <2> DEFINE x == [o.evdev EXCEPT !.sweeping = TRUE, !.scan = o.tv.news,
                         !.todo = o.evdev.grabbed, !.cutoff = o.tv.now + 1, !.queued = FALSE]
             v == [o EXCEPT !.evdev = x]
  <2>1. Good(v) /\ v.app.last = o.app.last
    BY <1>1, <1>3, SweepBeginKeeps, Zenon DEF SweepBegin
  <2>2. evdev' = x /\ app' = app /\ tv' = tv /\ server' = server /\ scenario' = scenario
    BY <1>1, <1>3 DEF SweepBegin
  <2> HIDE DEF x
  <2>3. v.app = o.app /\ v.evdev = x /\ v.tv = o.tv /\ v.server = o.server
    BY <1>2 DEF Worlds
  <2> HIDE DEF v
  <2>4. Become(v)
    BY <1>1, <2>2, <2>3 DEF Become
  <2> QED
    BY <1>2, <2>1, <2>4 DEF Leads
<1>4. CASE SweepDevice
  <2>1. PICK d \in o.evdev.todo : Become(IF d \in o.tv.hung THEN Removed(o, d) ELSE Drained(o, d))
    BY <1>1, <1>4 DEF SweepDevice
  <2>2. o.evdev.sweeping /\ d \in Usb
    BY <1>1, <1>2, <1>4 DEF SweepDevice, Worlds, Evdev
  <2>3. Good(Removed(o, d)) /\ Removed(o, d).app.last = o.app.last
    BY <1>1, <2>2, RemovedKeeps
  <2>4. Good(Drained(o, d)) /\ Drained(o, d).app.last = o.app.last
    BY <1>1, <2>1, <2>2, DrainedKeeps
  <2> QED
    BY <1>2, <2>1, <2>3, <2>4 DEF Leads
<1>5. CASE SweepDone
  <2>1. o.evdev.sweeping /\ o.evdev.todo = {}
    BY <1>1, <1>5 DEF SweepDone
  <2> DEFINE q == PublishBefore(o.evdev.queue, o.evdev.cutoff)
             v == Rescanned([o EXCEPT !.evdev = [o.evdev EXCEPT !.queue = q,
                        !.sweeping = FALSE, !.queued = @ \/ q.events # <<>>]])
  <2>2. Good(v) /\ v.app.last = o.app.last
    BY <1>1, <2>1, SweepDoneKeeps, Zenon
  <2>3. Become(v)
    BY <1>1, <1>5 DEF SweepDone
  <2> HIDE DEF v
  <2> QED
    BY <1>2, <2>2, <2>3 DEF Leads
<1>6. CASE ReaderDies
  <2>1. o.evdev.running /\ ~o.evdev.sweeping
    BY <1>1, <1>6 DEF ReaderDies
  <2> DEFINE v == [o EXCEPT !.evdev = [o.evdev EXCEPT !.running = FALSE, !.grabbed = {},
                                                       !.queue = Reset(@), !.queued = FALSE],
                            !.tv.fd = [d \in Usb |-> <<>>], !.tv.ready = {}, !.tv.hung = {}]
  <2>2. Good(v) /\ v.app.last = o.app.last
    BY <1>1, <2>1, ReaderDiesKeeps
  <2>3. Become(v)
    BY <1>1, <1>6 DEF ReaderDies
  <2> HIDE DEF v
  <2> QED
    BY <1>2, <2>2, <2>3 DEF Leads
<1> QED
  BY <1>3, <1>4, <1>5, <1>6

LEMMA HandsKeep ==
    ASSUME IInv, Edge \/ Unplug \/ Plug
    PROVE  \E v : Leads(v)
<1> DEFINE o == World
<1>1. o.app = app /\ o.evdev = evdev /\ o.tv = tv /\ o.server = server /\ Good(o)
  BY WorldIs DEF IInv
<1>2. o.app.last <= o.app.last /\ o.tv \in Tv /\ scenario \in Scenarios
  BY <1>1, LastIsNat DEF Good, Core, Worlds, IInv
<1>3. CASE Edge
  <2>1. PICK c \in scenario.controls :
          LET down == c \notin o.tv.pressed
              w == [o EXCEPT !.tv = [o.tv EXCEPT !.now = @ + 1,
                        !.pressed = IF down THEN @ \cup {c} ELSE @ \ {c}]]
              e == [time |-> o.tv.now + 1, kind |-> c[1], code |-> c[2], down |-> down]
          IN  Become(IF c[1] \in o.evdev.grabbed /\ c[1] \notin o.tv.hung
                     THEN [w EXCEPT !.tv.fd[c[1]] = Append(@, e), !.tv.ready = @ \cup {c[1]}]
                     ELSE Delivered(w, c[2], down))
    BY <1>1, <1>3, Zenon DEF Edge
  <2> DEFINE down == c \notin o.tv.pressed
             n == o.tv.now + 1
             p == IF c \in o.tv.pressed THEN o.tv.pressed \ {c} ELSE o.tv.pressed \cup {c}
             e == [time |-> n, kind |-> c[1], code |-> c[2], down |-> down]
             read == EdgeRead(o, c, n, p, e)
             seen == EdgeSeen(o, c, n, p, down)
  <2>2. c \in Controls
    BY <1>2, InputScenariosAssumption DEF IsScenario, Controls
  <2>3. p = IF down THEN o.tv.pressed \cup {c} ELSE o.tv.pressed \ {c}
    OBVIOUS
  <2>4. Become(IF c[1] \in o.evdev.grabbed /\ c[1] \notin o.tv.hung THEN read ELSE seen)
    BY <2>1, <2>3 DEF EdgeRead, EdgeSeen
  <2>5. CASE c[1] \in o.evdev.grabbed /\ c[1] \notin o.tv.hung
    <3>1. e \in UsbEvent(c[1]) /\ e.time = n
      <4>1. n \in Nat /\ down \in BOOLEAN /\ c[2] \in Has[c[1]] /\ c[2] \in Codes /\ c[1] \in Usb
        BY <1>1, <1>2, <2>2, <2>5 DEF Good, Core, Worlds, Evdev, Tv, Controls
      <4> HIDE DEF n, down
      <4> QED
        BY <4>1 DEF UsbEvent, Event
    <3> HIDE DEF e
    <3>2. n = o.tv.now + 1
      OBVIOUS
    <3>3. p = IF c \in o.tv.pressed THEN o.tv.pressed \ {c} ELSE o.tv.pressed \cup {c}
      OBVIOUS
    <3> HIDE DEF n, p
    <3>4. Good(read) /\ read.app.last = o.app.last
      BY <1>1, <2>2, <2>5, <3>1, <3>2, <3>3, EdgeReadKeeps
    <3> HIDE DEF read
    <3> QED
      BY <1>2, <2>4, <2>5, <3>4 DEF Leads
  <2>6. CASE ~(c[1] \in o.evdev.grabbed /\ c[1] \notin o.tv.hung)
    <3>1. down \in BOOLEAN /\ (down <=> c \notin o.tv.pressed) /\ n = o.tv.now + 1
      OBVIOUS
    <3>2. p = IF c \in o.tv.pressed THEN o.tv.pressed \ {c} ELSE o.tv.pressed \cup {c}
      OBVIOUS
    <3> HIDE DEF n, p, down
    <3>3. Good(seen) /\ seen.app.last = o.app.last
      BY <1>1, <2>2, <2>6, <3>1, <3>2, EdgeSeenKeeps
    <3> HIDE DEF seen
    <3> QED
      BY <1>2, <2>4, <2>6, <3>3 DEF Leads
  <2> QED
    BY <2>5, <2>6
<1>4. CASE Unplug
  <2>1. PICK d \in o.tv.plugged \ o.tv.hung :
          LET lost == {c \in o.tv.pressed : c[1] = d}
              seen == IF d \in o.evdev.grabbed \/ o.tv.focus # "ours" THEN <<>>
                      ELSE SetToSeq({c[2] : c \in lost} \cap Buttons)
          IN  Become([o EXCEPT !.tv = [o.tv EXCEPT !.now = @ + 1, !.plugged = @ \ {d},
                         !.pressed = @ \ lost, !.fd[d] = <<>>,
                         !.hung = IF d \in o.evdev.grabbed THEN @ \cup {d} ELSE @,
                         !.sdl = @ \o [i \in DOMAIN seen |-> Pointed(seen[i], FALSE)]]])
    BY <1>1, <1>4, Zenon DEF Unplug
  <2> DEFINE lost == {c \in o.tv.pressed : c[1] = d}
             seen == IF d \in o.evdev.grabbed \/ o.tv.focus # "ours" THEN <<>>
                     ELSE SetToSeq({c[2] : c \in lost} \cap Buttons)
             v == [o EXCEPT !.tv = [o.tv EXCEPT !.now = @ + 1, !.plugged = @ \ {d},
                         !.pressed = @ \ lost, !.fd[d] = <<>>,
                         !.hung = IF d \in o.evdev.grabbed THEN @ \cup {d} ELSE @,
                         !.sdl = @ \o [i \in DOMAIN seen |-> Pointed(seen[i], FALSE)]]]
  <2>2. d \in Usb /\ d \notin o.tv.hung
    BY <1>2 DEF Tv
  <2>3. Good(v) /\ v.app.last = o.app.last
    BY <1>1, <2>2, UnplugKeeps, Zenon
  <2>4. Become(v)
    BY <2>1
  <2> HIDE DEF v
  <2> QED
    BY <1>2, <2>3, <2>4 DEF Leads
<1>5. CASE Plug
  <2> DEFINE V(d) == [o EXCEPT !.tv = [o.tv EXCEPT !.now = @ + 1, !.plugged = @ \cup {d},
                                                   !.news = o.evdev.running]]
  <2>1. PICK d \in Usb : Become(V(d))
    BY <1>1, <1>5 DEF Plug
  <2>2. Good(V(d)) /\ V(d).app.last = o.app.last
    BY <1>1, PlugKeeps
  <2> HIDE DEF V
  <2> QED
    BY <1>2, <2>1, <2>2 DEF Leads
<1> QED
  BY <1>3, <1>4, <1>5

LEMMA FocusKeeps ==
    ASSUME IInv, Blur \/ GoAway \/ Refocus
    PROVE  \E v : Leads(v)
<1> DEFINE o == World
           V(focus, notices) == [o EXCEPT !.tv = [o.tv EXCEPT !.now = @ + 1, !.focus = focus,
                                                              !.sdl = @ \o notices]]
<1>1. o.app = app /\ o.evdev = evdev /\ o.tv = tv /\ o.server = server /\ Good(o)
  BY WorldIs DEF IInv
<1>2. o.app.last <= o.app.last
  BY <1>1, LastIsNat
<1>3. PICK focus, notices :
         /\ focus \in {"ours", "lost", "away"}
         /\ \/ focus = "lost" /\ notices = <<Notice("lost")>>
            \/ focus = "away" /\ notices = <<Notice("lost"), Notice("away")>>
            \/ focus = "ours" /\ o.tv.focus # "ours" /\ notices = <<Notice("gained")>>
            \/ focus = "ours" /\ o.tv.focus # "ours"
                   /\ notices = <<Notice("back"), Notice("gained")>>
         /\ Become(V(focus, notices))
  <2>1. ASSUME Blur PROVE Become(V("lost", <<Notice("lost")>>))
    BY <1>1, <2>1 DEF Blur, FocusChange
  <2>2. ASSUME GoAway PROVE Become(V("away", <<Notice("lost"), Notice("away")>>))
    BY <1>1, <2>2 DEF GoAway, FocusChange
  <2>3. ASSUME Refocus
        PROVE  /\ o.tv.focus # "ours"
               /\ \/ Become(V("ours", <<Notice("gained")>>))
                  \/ Become(V("ours", <<Notice("back"), Notice("gained")>>))
    BY <1>1, <2>3 DEF Refocus, FocusChange
  <2> HIDE DEF V
  <2> QED
    BY <2>1, <2>2, <2>3
<1>4. Good(V(focus, notices)) /\ V(focus, notices).app.last = o.app.last
  BY <1>1, <1>3, FocusChangeKeeps
<1> HIDE DEF V
<1> QED
  BY <1>2, <1>3, <1>4 DEF Leads

LEMMA WorkersKeep ==
    ASSUME IInv, Reconnect \/ Reconnected \/ End
    PROVE  \E v : Leads(v)
<1> DEFINE o == World
           n == o.tv.now + 1
           F(s, to) == [o.server EXCEPT ![s] = [state |-> to, down |-> {}]]
<1>1. o.app = app /\ o.evdev = evdev /\ o.tv = tv /\ o.server = server /\ Good(o)
  BY WorldIs DEF IInv
<1>2. /\ o.app.last <= o.app.last /\ o \in Worlds /\ o.server \in [Slots -> Server]
      /\ o.app.slot \in Slots /\ HeldOK(o) /\ o.tv \in Tv
  BY <1>1, LastIsNat DEF Good, Core, Worlds, App
<1>3. ASSUME NEW s \in Slots, NEW to \in {"active", "connecting", "ended"}
      PROVE  /\ F(s, to) \in [Slots -> Server]
             /\ F(s, to)[s].down = {} /\ F(s, to)[s].state # "gone"
             /\ \A r \in Slots : r # s => F(s, to)[r] = o.server[r]
  <2> DEFINE x == [state |-> to, down |-> {}]
  <2>1. x \in Server /\ x.down = {} /\ x.state # "gone"
    BY DEF Server
  <2> HIDE DEF x
  <2> QED
    BY <1>2, <2>1 DEF x
<1>4. CASE Reconnect
  <2>1. Become(WithSessions(o, n, F(o.app.slot, "connecting")))
    BY <1>1, <1>2, <1>4 DEF Reconnect, WithSessions, Worlds, Tv
  <2> DEFINE srv == F(o.app.slot, "connecting")
  <2>2. /\ srv \in [Slots -> Server] /\ srv[o.app.slot].down = {}
        /\ srv[o.app.slot].state # "gone"
        /\ \A r \in Slots : r # o.app.slot => srv[r] = o.server[r]
    BY <1>2, <1>3
  <2> HIDE DEF srv, F
  <2>3. n = o.tv.now + 1
    OBVIOUS
  <2> HIDE DEF n
  <2>4. Good(WithSessions(o, n, srv)) /\ WithSessions(o, n, srv).app.last = o.app.last
    BY <1>1, <1>2, <2>2, <2>3, SessionsKeep
  <2> QED
    BY <1>2, <2>1, <2>4 DEF Leads, srv
<1>5. CASE End
  <2>1. PICK s \in Slots : Become(WithSessions(o, n, F(s, "ended")))
    BY <1>1, <1>2, <1>5 DEF End, WithSessions, Worlds, Tv
  <2> DEFINE srv == F(s, "ended")
  <2>2. /\ srv \in [Slots -> Server] /\ srv[s].down = {} /\ srv[s].state # "gone"
        /\ \A r \in Slots : r # s => srv[r] = o.server[r]
    BY <1>2, <1>3
  <2> HIDE DEF srv, F
  <2>3. n = o.tv.now + 1
    OBVIOUS
  <2> HIDE DEF n
  <2>4. Good(WithSessions(o, n, srv)) /\ WithSessions(o, n, srv).app.last = o.app.last
    BY <1>1, <1>2, <2>2, <2>3, SessionsKeep
  <2> QED
    BY <1>2, <2>1, <2>4 DEF Leads, srv
<1>6. CASE Reconnected
  <2>1. PICK s \in Slots : /\ o.server[s].state = "connecting"
                           /\ server' = [o.server EXCEPT ![s].state = "active"]
                           /\ app' = app /\ evdev' = evdev /\ tv' = tv /\ scenario' = scenario
    BY <1>1, <1>6 DEF Reconnected
  <2> DEFINE srv == F(s, "active")
  <2>2. o.server[s].down = {} /\ o.server[s] \in Server
    BY <1>2, <2>1 DEF HeldOK
  <2>3. [o.server EXCEPT ![s].state = "active"] = srv
    <3>1. [o.server[s] EXCEPT !.state = "active"] = [state |-> "active", down |-> {}]
      BY <2>2 DEF Server
    <3> QED
      BY <3>1
  <2>4. /\ srv \in [Slots -> Server] /\ srv[s].down = {} /\ srv[s].state # "gone"
        /\ \A r \in Slots : r # s => srv[r] = o.server[r]
    BY <1>2, <1>3
  <2> HIDE DEF srv, F
  <2>5. Good(WithSessions(o, o.tv.now, srv)) /\ WithSessions(o, o.tv.now, srv).app.last = o.app.last
    BY <1>1, <1>2, <2>4, SessionsKeep
  <2>6. Become(WithSessions(o, o.tv.now, srv))
    <3>1. [o.tv EXCEPT !.now = o.tv.now] = o.tv
      BY <1>2 DEF Tv
    <3>2. /\ WithSessions(o, o.tv.now, srv).app = o.app
          /\ WithSessions(o, o.tv.now, srv).evdev = o.evdev
          /\ WithSessions(o, o.tv.now, srv).tv = o.tv
          /\ WithSessions(o, o.tv.now, srv).server = srv
      BY <1>2, <3>1 DEF WithSessions, Worlds
    <3> QED
      BY <1>1, <2>1, <2>3, <3>2 DEF Become
  <2> QED
    BY <1>2, <2>5, <2>6 DEF Leads
<1> QED
  BY <1>4, <1>5, <1>6

LEMMA NextKeeps ==
    ASSUME IInv, [Next]_vars
    PROVE  IInv' /\ app.last <= app'.last
<1>1. CASE Next
  <2>1. \E v : Leads(v)
    <3>1. CASE Ui
      BY <3>1, DrainKeeps, SdlKeeps, TickKeeps DEF Ui
    <3>2. CASE Reader \/ ReaderDies
      BY <3>2, SweepKeeps DEF Reader
    <3>3. CASE Outside
      BY <3>3, HandsKeep, FocusKeeps, WorkersKeep DEF Outside
    <3> QED
      BY <1>1, <3>1, <3>2, <3>3 DEF Next
  <2>2. scenario \in Scenarios
    BY DEF IInv
  <2> QED
    BY <2>1, <2>2, Becomes
<1>2. CASE UNCHANGED vars
  <2>1. World' = World /\ scenario' = scenario /\ app' = app
    BY <1>2 DEF vars, World
  <2>2. Good(World) /\ scenario \in Scenarios
    BY DEF IInv
  <2>3. app.last <= app.last
    BY <2>2, WorldIs, LastIsNat
  <2>4. Good(World')
    BY <2>1, <2>2
  <2> QED
    BY <2>1, <2>2, <2>3, <2>4 DEF IInv
<1> QED
  BY <1>1, <1>2

LEMMA InitIsGood == Init => IInv
<1> SUFFICES ASSUME Init PROVE IInv
  OBVIOUS
<1> DEFINE o == World
           none == <<>>
<1>1. o.app = app /\ o.evdev = evdev /\ o.tv = tv /\ o.server = server
  BY WorldIs
<1>2. scenario \in Scenarios /\ scenario.plugged \in SUBSET Usb
  BY InputScenariosAssumption DEF Init, IsScenario
<1>3. /\ none \in Seq(Event) /\ none \in Seq(AnyEvent) /\ none \in Seq(SdlEvent)
      /\ none \in Seq(Signal) /\ none = <<>> /\ (\A d \in Usb : none \in Seq(UsbEvent(d)))
      /\ DOMAIN none = {}
  OBVIOUS
<1>4. /\ EmptyQueue \in Queues /\ EmptyQueue.events = none /\ ~EmptyQueue.reset
      /\ EmptyQueue.before = 0
  <2> HIDE DEF none
  <2>1. EmptyQueue = [events |-> none, reset |-> FALSE, before |-> 0]
    BY <1>3 DEF EmptyQueue
  <2> QED
    BY <1>3, <2>1 DEF Queues
<1> HIDE DEF none
<1>5. PICK s \in Slots :
        app = [slot |-> s, streaming |-> TRUE, hub |-> FALSE, armed |-> TRUE,
               unfocused |-> FALSE, away |-> FALSE,
               panel |-> FALSE, mask |-> {}, dismiss |-> None,
               closing |-> FALSE, drag |-> FALSE,
               held |-> {}, side |-> FALSE, batch |-> none, last |-> 0,
               phase |-> "drain", sampling |-> FALSE]
  <2>1. (CHOOSE x \in Slots : TRUE) \in Slots
    BY SlotsAssumption
  <2> QED
    BY <1>3, <2>1 DEF Init
<1>6. app \in App
  BY <1>3, <1>5 DEF App
<1>7. evdev \in Evdev
  <2>1. 0 \in Nat
    OBVIOUS
  <2>2. evdev = [started |-> TRUE, running |-> TRUE, grabbed |-> scenario.plugged,
                 queue |-> EmptyQueue, sweeping |-> FALSE, scan |-> FALSE, todo |-> {},
                 cutoff |-> 0, queued |-> FALSE]
    BY DEF Init
  <2> QED
    BY <1>2, <1>4, <2>1, <2>2 DEF Evdev, Queues
<1>8. /\ tv = [pressed |-> {}, plugged |-> scenario.plugged, news |-> FALSE,
               ready |-> {}, hung |-> {}, focus |-> "ours", now |-> 0,
               fd |-> [d \in Usb |-> none], sdl |-> none, stale |-> {}]
      /\ tv \in Tv
  <2>1. tv = [pressed |-> {}, plugged |-> scenario.plugged, news |-> FALSE,
               ready |-> {}, hung |-> {}, focus |-> "ours", now |-> 0,
               fd |-> [d \in Usb |-> none], sdl |-> none, stale |-> {}]
    BY <1>3 DEF Init
  <2>2. [d \in Usb |-> none] \in [Usb -> Seq(Event)]
    BY <1>3
  <2> QED
    BY <1>2, <1>3, <2>1, <2>2 DEF Tv
<1>9. /\ server \in [Slots -> Server]
      /\ \A r \in Slots : server[r].state = "active" /\ server[r].down = {}
  <2> DEFINE x == [state |-> "active", down |-> {}]
  <2>1. x \in Server /\ x.state = "active" /\ x.down = {}
    BY DEF Server
  <2>2. server = [r \in Slots |-> x]
    BY DEF Init
  <2> HIDE DEF x
  <2> QED
    BY <2>1, <2>2
<1>10. o \in Worlds
  BY <1>6, <1>7, <1>8, <1>9 DEF World, Worlds
<1>11. /\ evdev.started /\ evdev.running /\ evdev.grabbed = scenario.plugged
       /\ evdev.queue = EmptyQueue /\ ~evdev.sweeping
  BY DEF Init
<1>12. /\ app.batch = none /\ app.last = 0 /\ app.phase = "drain" /\ ~app.sampling
       /\ app.streaming /\ ~app.panel /\ ~app.unfocused /\ ~app.away /\ app.held = {}
       /\ app.slot \in Slots
  BY <1>5
<1>13. /\ tv.pressed = {} /\ tv.focus = "ours" /\ tv.now = 0 /\ tv.sdl = none /\ tv.stale = {}
       /\ \A d \in Usb : tv.fd[d] = none
  BY <1>8
<1> HIDE DEF o
<1>14. Core(o)
  <2>1. IdleOK(o) /\ GrabOK(o) /\ PanelOK(o) /\ FocusOK(o)
    BY <1>1, <1>9, <1>11, <1>12, <1>13 DEF IdleOK, GrabOK, PanelOK, FocusOK, Focused
  <2>2. ArmedOK(o) /\ HeldOK(o)
    BY <1>1, <1>9, <1>12, <1>13 DEF ArmedOK, HeldOK, Focused
  <2>3. QueuedOK(o) /\ MaskOK(o) /\ ClicksOK(o)
    BY <1>1, <1>3, <1>12, <1>13 DEF QueuedOK, LeavesDown, MaskOK, ClicksOK, Clicks
  <2> QED
    BY <1>1, <1>3, <1>10, <1>13, <2>1, <2>2, <2>3 DEF Core
<1>15. Typed(o)
  BY <1>1, <1>3, <1>4, <1>10, <1>11, <1>12, <1>13 DEF Typed
<1>16. ReaderOK(o) /\ BatchOK(o)
  BY <1>1, <1>3, <1>4, <1>11, <1>12, <1>13 DEF ReaderOK, BatchOK
<1>17. TimesOK(o)
  <2>1. Sorted(none) /\ \A n : NotBefore(none, n) /\ NotAfter(none, n)
    BY <1>3 DEF Sorted, NotBefore, NotAfter
  <2> QED
    BY <1>1, <1>3, <1>4, <1>11, <1>12, <1>13, <2>1 DEF TimesOK
<1> QED
  BY <1>2, <1>14, <1>15, <1>16, <1>17 DEF IInv, Good, o

-----------------------------------------------------------------------------
(* The theorems.                                                           *)

\* The parts of the invariant hold in every reachable state: what SDL, the reader
\* and the SDL thread know of the user's hands accounts for what the servers hold
\* down, for the grab and for the panel's buttons (native_input_route.c,
\* native_pointer.c, native_mixer_overlay.c, input_evdev.c).
THEOREM Invariance == Spec => []IInv
<1>1. Init => IInv
  BY InitIsGood
<1>2. IInv /\ [Next]_vars => IInv'
  BY NextKeeps
<1> QED
  BY <1>1, <1>2, PTL DEF Spec

\* Every variable keeps its type.
THEOREM TypeCorrect == Spec => []TypeOK
<1>1. IInv => TypeOK
  BY WorldIs DEF IInv, Good, Core, Worlds, TypeOK
<1> QED
  BY <1>1, Invariance, PTL

\* What a server holds down is what native_flush_held_inputs will release, and no
\* server that input does not drive holds anything: over panels, switches, lost
\* focus and sessions that end, every retarget, disarm and ungrab flushes first.
THEOREM Tracked == Spec => []HeldIsTracked
<1>1. IInv => HeldIsTracked
  BY WorldIs DEF IInv, Good, Core, HeldOK, HeldIsTracked
<1> QED
  BY <1>1, Invariance, PTL

\* The grab is held for a stream on screen without its panel, with the focus or
\* with the notice of its loss still queued (native_start_streaming_input and
\* native_stop_streaming_input at every place the screen changes hands).
THEOREM GrabKept == Spec => []GrabIsOurs
<1>1. IInv => GrabIsOurs
  BY WorldIs DEF IInv, Good, Core, GrabOK, LossIn, Focused, GrabIsOurs
<1> QED
  BY <1>1, Invariance, PTL

\* The panel waits for no button that nobody holds, but for those whose release
\* SDL may never give out (native_mixer_overlay_show takes the buttons over; its
\* mask is corrected by the queued events and by a loss of focus).
THEOREM MaskHonest == Spec => []MaskIsHonest
<1>1. IInv => MaskIsHonest
  <2> SUFFICES ASSUME IInv, app.panel, ~app.sampling, tv.focus = "ours",
                      NEW b \in AfterEdges(app.mask), b \notin tv.stale
               PROVE  b \in Pressed
    BY DEF MaskIsHonest
  <2> DEFINE o == World
  <2>1. o.app = app /\ o.evdev = evdev /\ o.tv = tv /\ o.server = server
    BY WorldIs
  <2>2. QueuedOK(o) /\ MaskOK(o)
    BY DEF IInv, Good, Core
  <2> HIDE DEF o
  <2>3. b \in Buttons /\ (EndsDown(b) \/ (Says(b) = {} /\ b \in app.mask))
    BY DEF AfterEdges
  <2>4. DownOn(o, b) => b \in Pressed
    <3>1. ASSUME NEW d, <<d, b>> \in tv.pressed PROVE b \in Pressed
      BY <3>1 DEF Pressed
    <3> QED
      BY <2>1, <3>1 DEF DownOn
  <2>5. CASE EndsDown(b)
    <3>1. LeavesDown(tv.sdl, b)
      BY <2>5 DEF EndsDown, Says, LeavesDown, Presses, Mentions
    <3>2. OpenOn(o, b)
      BY <2>1, <2>2, <2>3, <3>1 DEF QueuedOK
    <3> QED
      BY <2>4, <3>2 DEF OpenOn, DownOn
  <2>6. CASE Says(b) = {} /\ b \in app.mask
    <3>1. Silent(tv.sdl, b)
      BY <2>6 DEF Says, Silent, Mentions
    <3>2. Excused(o, b)
      BY <2>1, <2>2, <2>6, <3>1 DEF MaskOK
    <3> QED
      BY <2>1, <2>4, <3>2 DEF Excused
  <2> QED
    BY <2>3, <2>5, <2>6
<1> QED
  BY <1>1, Invariance, PTL

\* The SDL thread routes the events of all devices in the order of their times,
\* whatever the order a sweep reads the devices in: what is published is older than
\* all that a device may still give out (native_event_queue_publish_before).
THEOREM InOrder == Spec => InTimeOrder
<1>1. IInv /\ [Next]_vars => [app'.last >= app.last]_vars
  <2>1. ASSUME IInv, [Next]_vars PROVE app'.last >= app.last
    BY <2>1, NextKeeps
  <2> QED
    BY <2>1
<1>2. IInv /\ [Next]_vars => IInv'
  BY NextKeeps
<1>3. Init => IInv
  BY InitIsGood
<1> QED
  BY <1>1, <1>2, <1>3, PTL DEF Spec, InTimeOrder
=============================================================================
