------------------------ MODULE WorkerCommandsProofs ------------------------
(***************************************************************************)
(* Theorems about WorkerCommands, for any depth of the queue and any       *)
(* number of attempts, reactivations, keys and control calls.              *)
(***************************************************************************)
EXTENDS WorkerCommands, SequenceTheorems, TLAPS

-----------------------------------------------------------------------------
(* What sequences of commands say about toggles and edges. *)

EdgesIn(seq) == {seq[i] : i \in {j \in DOMAIN seq : IsEdge(seq[j])}}

InOrder(seq) == \A i, j \in {k \in DOMAIN seq : IsEdge(seq[k])} : i < j => seq[i].n < seq[j].n

\* The last toggle there is says b.
ToggledTo(seq, b) ==
    \E i \in DOMAIN seq : seq[i] = Toggle(b) /\ \A j \in DOMAIN seq : IsToggle(seq[j]) => j <= i

\* After these commands, the display that was d is b.
Leads(seq, d, b) == ToggledTo(seq, b) \/ (Toggles(seq) = {} /\ d = b)

AnyEdge == {Edge(n) : n \in 1..MaxPresses}

\* What a command may be, and what it is not.
LEMMA CommandKinds ==
    /\ \A b \in BOOLEAN : /\ Toggle(b) \in Command /\ IsToggle(Toggle(b)) /\ ~IsEdge(Toggle(b))
                          /\ Toggle(b).kind = "suppress" /\ Toggle(b).allow = b
    /\ \A n \in 1..MaxPresses : /\ Edge(n) \in Command /\ IsEdge(Edge(n)) /\ ~IsToggle(Edge(n))
                                /\ Edge(n).kind = "edge" /\ Edge(n).n = n
    /\ \A c \in {Move, Refresh, Ready, Stop} : c \in Command /\ ~IsToggle(c) /\ ~IsEdge(c)
    /\ Move.kind = "move" /\ Refresh.kind = "refresh" /\ Ready.kind = "ready" /\ Stop.kind = "stop"
    /\ \A c \in Command : /\ IsToggle(c) => \E b \in BOOLEAN : c = Toggle(b)
                          /\ IsEdge(c) <=> c \in AnyEdge
                          /\ c.kind = "move" => c = Move
                          /\ c.kind = "refresh" => c = Refresh
<1> USE DEF IsToggle, IsEdge, Move, Refresh, Ready, Stop
<1>1. /\ \A b \in BOOLEAN : Toggle(b).kind = "suppress" /\ Toggle(b).allow = b
      /\ \A n \in 1..MaxPresses : Edge(n).kind = "edge" /\ Edge(n).n = n
  BY DEF Toggle, Edge
<1>2. /\ Move.kind = "move" /\ Refresh.kind = "refresh"
      /\ Ready.kind = "ready" /\ Stop.kind = "stop"
  OBVIOUS
<1>3. /\ \A b \in BOOLEAN : Toggle(b) \in Command
      /\ \A n \in 1..MaxPresses : Edge(n) \in Command
      /\ \A c \in {Move, Refresh, Ready, Stop} : c \in Command
  BY Zenon DEF Command
<1>4. ASSUME NEW c \in Command
      PROVE  \/ \E n \in 1..MaxPresses : c = Edge(n)
             \/ \E b \in BOOLEAN : c = Toggle(b)
             \/ c \in {Move, Refresh, Ready, Stop}
  BY Zenon DEF Command
<1> HIDE DEF Move, Refresh, Ready, Stop
<1>5. ASSUME NEW c \in Command
      PROVE  /\ IsToggle(c) => \E b \in BOOLEAN : c = Toggle(b)
             /\ IsEdge(c) <=> c \in AnyEdge
             /\ c.kind = "move" => c = Move
             /\ c.kind = "refresh" => c = Refresh
  BY <1>1, <1>2, <1>4 DEF AnyEdge
<1> QED
  BY <1>1, <1>2, <1>3, <1>5

LEMMA NoCommands ==
    /\ Toggles(<<>>) = {} /\ EdgesIn(<<>>) = {} /\ InOrder(<<>>)
    /\ \A b : ~ToggledTo(<<>>, b)
  BY DEF Toggles, EdgesIn, InOrder, ToggledTo

LEMMA OneCommand ==
    ASSUME NEW c \in Command
    PROVE  /\ <<c>> \in Seq(Command)
           /\ Toggles(<<c>>) = {} <=> ~IsToggle(c)
           /\ \A b \in BOOLEAN : ToggledTo(<<c>>, b) <=> c = Toggle(b)
           /\ EdgesIn(<<c>>) = IF IsEdge(c) THEN {c} ELSE {}
           /\ InOrder(<<c>>)
<1>1. <<c>> \in Seq(Command) /\ DOMAIN <<c>> = {1} /\ <<c>>[1] = c
  OBVIOUS
<1>2. Toggles(<<c>>) = {} <=> ~IsToggle(c)
  BY <1>1 DEF Toggles
<1>3. \A b \in BOOLEAN : ToggledTo(<<c>>, b) <=> c = Toggle(b)
  BY <1>1 DEF ToggledTo
<1>4. EdgesIn(<<c>>) = IF IsEdge(c) THEN {c} ELSE {}
  BY <1>1 DEF EdgesIn
<1>5. InOrder(<<c>>)
  BY <1>1 DEF InOrder
<1> QED
  BY <1>1, <1>2, <1>3, <1>4, <1>5

\* The places of a concatenation.
LEMMA Joined ==
    ASSUME NEW s \in Seq(Command), NEW t \in Seq(Command)
    PROVE  /\ s \o t \in Seq(Command)
           /\ DOMAIN s = 1..Len(s) /\ DOMAIN t = 1..Len(t) /\ Len(s) \in Nat /\ Len(t) \in Nat
           /\ DOMAIN (s \o t) = 1..(Len(s) + Len(t))
           /\ \A i \in 1..Len(s) : (s \o t)[i] = s[i]
           /\ \A i \in 1..Len(t) : (s \o t)[Len(s) + i] = t[i]
           /\ \A i \in 1..(Len(s) + Len(t)) : i \in 1..Len(s) \/ i - Len(s) \in 1..Len(t)
  BY ConcatProperties, LenProperties

LEMMA ToggleJoined ==
    ASSUME NEW s \in Seq(Command), NEW t \in Seq(Command)
    PROVE  /\ Toggles(s \o t) = {} <=> Toggles(s) = {} /\ Toggles(t) = {}
           /\ \A b \in BOOLEAN : ToggledTo(s \o t, b)
                  <=> ToggledTo(t, b) \/ (Toggles(t) = {} /\ ToggledTo(s, b))
<1> DEFINE u == s \o t
           m == Len(s)
           n == Len(t)
<1>1. /\ DOMAIN s = 1..m /\ DOMAIN t = 1..n /\ DOMAIN u = 1..(m + n) /\ m \in Nat /\ n \in Nat
      /\ \A i \in 1..m : u[i] = s[i]
      /\ \A i \in 1..n : u[m + i] = t[i]
      /\ \A i \in 1..(m + n) : i \in 1..m \/ i - m \in 1..n
  BY Joined
<1> HIDE DEF u, m, n
<1>2. \A i \in 1..(m + n) :
        IsToggle(u[i]) <=> \/ i \in 1..m /\ IsToggle(s[i])
                           \/ i - m \in 1..n /\ IsToggle(t[i - m])
  <2> SUFFICES ASSUME NEW i \in 1..(m + n)
               PROVE  IsToggle(u[i]) <=> \/ i \in 1..m /\ IsToggle(s[i])
                                         \/ i - m \in 1..n /\ IsToggle(t[i - m])
    OBVIOUS
  <2>1. CASE i \in 1..m
    <3>1. u[i] = s[i] /\ ~ (i - m \in 1..n)
      BY <1>1, <2>1
    <3> QED
      BY <2>1, <3>1
  <2>2. CASE i - m \in 1..n
    <3>1. m + (i - m) = i /\ ~ (i \in 1..m)
      BY <1>1, <2>2
    <3>2. u[i] = t[i - m]
      BY <1>1, <2>2, <3>1
    <3> QED
      BY <2>2, <3>1, <3>2
  <2> QED
    BY <1>1, <2>1, <2>2
<1>3. Toggles(u) = {} <=> Toggles(s) = {} /\ Toggles(t) = {}
  <2>1. ASSUME Toggles(u) = {} PROVE Toggles(s) = {} /\ Toggles(t) = {}
    <3>1. \A i \in 1..(m + n) : ~IsToggle(u[i])
      BY <1>1, <2>1 DEF Toggles
    <3>2. \A i \in 1..m : i \in 1..(m + n)
      BY <1>1
    <3>3. \A i \in 1..n : m + i \in 1..(m + n)
      BY <1>1
    <3> QED
      BY <1>1, <3>1, <3>2, <3>3 DEF Toggles
  <2>2. ASSUME Toggles(s) = {}, Toggles(t) = {} PROVE Toggles(u) = {}
    BY <1>1, <1>2, <2>2 DEF Toggles
  <2> QED
    BY <2>1, <2>2
<1>4. ASSUME NEW b \in BOOLEAN, ToggledTo(t, b) PROVE ToggledTo(u, b)
  <2>1. PICK i \in 1..n : t[i] = Toggle(b) /\ \A j \in 1..n : IsToggle(t[j]) => j <= i
    BY <1>1, <1>4 DEF ToggledTo
  <2>2. m + i \in 1..(m + n) /\ u[m + i] = Toggle(b)
    BY <1>1, <2>1
  <2>3. ASSUME NEW j \in 1..(m + n), IsToggle(u[j]) PROVE j <= m + i
    BY <1>1, <1>2, <2>1, <2>3
  <2> QED
    BY <1>1, <2>2, <2>3 DEF ToggledTo
<1>5. ASSUME NEW b \in BOOLEAN, Toggles(t) = {}, ToggledTo(s, b) PROVE ToggledTo(u, b)
  <2>1. PICK i \in 1..m : s[i] = Toggle(b) /\ \A j \in 1..m : IsToggle(s[j]) => j <= i
    BY <1>1, <1>5 DEF ToggledTo
  <2>2. i \in 1..(m + n) /\ u[i] = Toggle(b)
    BY <1>1, <2>1
  <2>3. ASSUME NEW j \in 1..(m + n), IsToggle(u[j]) PROVE j <= i
    <3>1. ~ (j - m \in 1..n /\ IsToggle(t[j - m]))
      BY <1>1, <1>5 DEF Toggles
    <3> QED
      BY <1>2, <2>1, <2>3, <3>1
  <2> QED
    BY <1>1, <2>2, <2>3 DEF ToggledTo
<1>6. ASSUME NEW b \in BOOLEAN, ToggledTo(u, b)
      PROVE  ToggledTo(t, b) \/ (Toggles(t) = {} /\ ToggledTo(s, b))
  <2>1. PICK i \in 1..(m + n) : u[i] = Toggle(b) /\ \A j \in 1..(m + n) : IsToggle(u[j]) => j <= i
    BY <1>1, <1>6 DEF ToggledTo
  <2>2. CASE i - m \in 1..n
    <3>1. t[i - m] = Toggle(b)
      <4>1. m + (i - m) = i
        BY <1>1
      <4> QED
        BY <1>1, <2>1, <2>2, <4>1
    <3>2. ASSUME NEW j \in 1..n, IsToggle(t[j]) PROVE j <= i - m
      <4>1. m + j \in 1..(m + n) /\ u[m + j] = t[j]
        BY <1>1
      <4>2. m + j <= i
        BY <2>1, <3>2, <4>1
      <4> QED
        BY <1>1, <4>2
    <3> QED
      BY <1>1, <2>2, <3>1, <3>2 DEF ToggledTo
  <2>3. CASE i \in 1..m
    <3>1. s[i] = Toggle(b)
      BY <1>1, <2>1, <2>3
    <3>2. ASSUME NEW j \in 1..n PROVE ~IsToggle(t[j])
      <4>1. m + j \in 1..(m + n) /\ u[m + j] = t[j] /\ ~ (m + j <= i)
        BY <1>1, <2>3
      <4> QED
        BY <2>1, <4>1
    <3>3. ASSUME NEW j \in 1..m, IsToggle(s[j]) PROVE j <= i
      <4>1. j \in 1..(m + n) /\ u[j] = s[j]
        BY <1>1
      <4> QED
        BY <2>1, <3>3, <4>1
    <3>4. Toggles(t) = {}
      BY <1>1, <3>2 DEF Toggles
    <3>5. ToggledTo(s, b)
      BY <1>1, <2>3, <3>1, <3>3 DEF ToggledTo
    <3> QED
      BY <3>4, <3>5
  <2> QED
    BY <1>1, <2>2, <2>3
<1> QED
  BY <1>3, <1>4, <1>5, <1>6 DEF u

LEMMA EdgesJoined ==
    ASSUME NEW s \in Seq(Command), NEW t \in Seq(Command)
    PROVE  /\ EdgesIn(s \o t) = EdgesIn(s) \cup EdgesIn(t)
           /\ InOrder(s \o t)
                  <=> /\ InOrder(s) /\ InOrder(t)
                      /\ \A a \in EdgesIn(s), b \in EdgesIn(t) : a.n < b.n
<1> DEFINE u == s \o t
           m == Len(s)
           n == Len(t)
<1>1. /\ DOMAIN s = 1..m /\ DOMAIN t = 1..n /\ DOMAIN u = 1..(m + n) /\ m \in Nat /\ n \in Nat
      /\ \A i \in 1..m : u[i] = s[i]
      /\ \A i \in 1..n : u[m + i] = t[i]
      /\ \A i \in 1..(m + n) : i \in 1..m \/ i - m \in 1..n
  BY Joined
<1> HIDE DEF u, m, n
<1>2. \A i \in 1..m : i \in 1..(m + n)
  BY <1>1
<1>3. \A i \in 1..n : m + i \in 1..(m + n)
  BY <1>1
<1>4. \A i \in 1..(m + n) : i - m \in 1..n => u[i] = t[i - m]
  <2>1. \A i \in 1..(m + n) : m + (i - m) = i
    BY <1>1
  <2> QED
    BY <1>1, <2>1
<1>5. EdgesIn(u) = EdgesIn(s) \cup EdgesIn(t)
  <2>1. EdgesIn(u) \subseteq EdgesIn(s) \cup EdgesIn(t)
    BY <1>1, <1>4 DEF EdgesIn
  <2>2. EdgesIn(s) \subseteq EdgesIn(u)
    BY <1>1, <1>2 DEF EdgesIn
  <2>3. EdgesIn(t) \subseteq EdgesIn(u)
    BY <1>1, <1>3 DEF EdgesIn
  <2> QED
    BY <2>1, <2>2, <2>3
<1>6. ASSUME InOrder(u) PROVE InOrder(s) /\ InOrder(t)
  <2>1. InOrder(s)
    BY <1>1, <1>2, <1>6 DEF InOrder
  <2>2. ASSUME NEW i \in 1..n, NEW j \in 1..n, IsEdge(t[i]), IsEdge(t[j]), i < j
        PROVE  t[i].n < t[j].n
    <3>1. m + i < m + j /\ u[m + i] = t[i] /\ u[m + j] = t[j]
      BY <1>1, <2>2
    <3>2. /\ m + i \in {k \in DOMAIN u : IsEdge(u[k])}
          /\ m + j \in {k \in DOMAIN u : IsEdge(u[k])}
      BY <1>1, <1>3, <2>2, <3>1
    <3>3. u[m + i].n < u[m + j].n
      BY <1>6, <3>1, <3>2, Zenon DEF InOrder
    <3> QED
      BY <3>1, <3>3
  <2>3. InOrder(t)
    BY <1>1, <2>2 DEF InOrder
  <2> QED
    BY <2>1, <2>3
<1>7. ASSUME InOrder(u), NEW a \in EdgesIn(s), NEW b \in EdgesIn(t) PROVE a.n < b.n
  <2>1. PICK i \in 1..m : IsEdge(s[i]) /\ a = s[i]
    BY <1>1 DEF EdgesIn
  <2>2. PICK j \in 1..n : IsEdge(t[j]) /\ b = t[j]
    BY <1>1 DEF EdgesIn
  <2>3. /\ i \in 1..(m + n) /\ m + j \in 1..(m + n) /\ i < m + j
        /\ u[i] = a /\ u[m + j] = b
    BY <1>1, <2>1, <2>2
  <2> QED
    BY <1>1, <1>7, <2>1, <2>2, <2>3 DEF InOrder
<1>8. ASSUME InOrder(s), InOrder(t), \A a \in EdgesIn(s), b \in EdgesIn(t) : a.n < b.n
      PROVE  InOrder(u)
  <2> SUFFICES ASSUME NEW i \in 1..(m + n), NEW j \in 1..(m + n), IsEdge(u[i]), IsEdge(u[j]), i < j
               PROVE  u[i].n < u[j].n
    BY <1>1 DEF InOrder
  <2>1. CASE i \in 1..m /\ j \in 1..m
    BY <1>1, <1>8, <2>1 DEF InOrder
  <2>2. CASE i - m \in 1..n /\ j - m \in 1..n
    <3>1. i - m < j - m /\ u[i] = t[i - m] /\ u[j] = t[j - m]
      BY <1>1, <1>4, <2>2
    <3> QED
      BY <1>1, <1>8, <2>2, <3>1 DEF InOrder
  <2>3. CASE i \in 1..m /\ j - m \in 1..n
    <3>1. u[i] \in EdgesIn(s)
      BY <1>1, <2>3 DEF EdgesIn
    <3>2. u[j] \in EdgesIn(t)
      BY <1>1, <1>4, <2>3 DEF EdgesIn
    <3> QED
      BY <1>8, <3>1, <3>2
  <2> QED
    BY <1>1, <2>1, <2>2, <2>3
<1> QED
  BY <1>5, <1>6, <1>7, <1>8 DEF u

\* Of two sets of edges, the first was pressed before the second.
Before(S, T) == \A a \in S, b \in T : a.n < b.n

\* A command is taken from the front.
LEMMA Taken ==
    ASSUME NEW s \in Seq(Command), s # <<>>
    PROVE  /\ Head(s) \in Command /\ Tail(s) \in Seq(Command)
           /\ Toggles(s) = {} <=> ~IsToggle(Head(s)) /\ Toggles(Tail(s)) = {}
           /\ \A b \in BOOLEAN : ToggledTo(s, b)
                  <=> ToggledTo(Tail(s), b) \/ (Toggles(Tail(s)) = {} /\ Head(s) = Toggle(b))
           /\ EdgesIn(s) = EdgesIn(<<Head(s)>>) \cup EdgesIn(Tail(s))
           /\ InOrder(s) => /\ InOrder(Tail(s))
                            /\ Before(EdgesIn(<<Head(s)>>), EdgesIn(Tail(s)))
<1>1. Head(s) \in Command /\ Tail(s) \in Seq(Command)
  BY HeadTailProperties
<1> DEFINE c == Head(s)
           t == Tail(s)
<1>2. s = <<c>> \o t
  OBVIOUS
<1>6. t \in Seq(Command)
  BY <1>1
<1> HIDE DEF c, t
<1>3. /\ <<c>> \in Seq(Command)
      /\ Toggles(<<c>>) = {} <=> ~IsToggle(c)
      /\ \A b \in BOOLEAN : ToggledTo(<<c>>, b) <=> c = Toggle(b)
  BY <1>1, OneCommand DEF c
<1>4. /\ Toggles(s) = {} <=> Toggles(<<c>>) = {} /\ Toggles(t) = {}
      /\ \A b \in BOOLEAN : ToggledTo(s, b)
             <=> ToggledTo(t, b) \/ (Toggles(t) = {} /\ ToggledTo(<<c>>, b))
  <2> DEFINE h == <<c>>
  <2>1. s = h \o t /\ h \in Seq(Command)
    BY <1>2, <1>3
  <2> HIDE DEF h
  <2>2. /\ Toggles(h \o t) = {} <=> Toggles(h) = {} /\ Toggles(t) = {}
        /\ \A b \in BOOLEAN : ToggledTo(h \o t, b)
               <=> ToggledTo(t, b) \/ (Toggles(t) = {} /\ ToggledTo(h, b))
    BY <1>6, <2>1, ToggleJoined
  <2> QED
    BY <2>1, <2>2 DEF h
<1>5. /\ EdgesIn(s) = EdgesIn(<<c>>) \cup EdgesIn(t)
      /\ InOrder(s) => InOrder(t) /\ Before(EdgesIn(<<c>>), EdgesIn(t))
  BY <1>2, <1>3, <1>6, EdgesJoined, Zenon DEF Before
<1> QED
  BY <1>1, <1>3, <1>4, <1>5 DEF c, t

\* A command is added at the end.
LEMMA Added ==
    ASSUME NEW s \in Seq(Command), NEW c \in Command
    PROVE  /\ Append(s, c) \in Seq(Command)
           /\ Toggles(Append(s, c)) = {} <=> Toggles(s) = {} /\ ~IsToggle(c)
           /\ \A b \in BOOLEAN : ToggledTo(Append(s, c), b)
                  <=> c = Toggle(b) \/ (~IsToggle(c) /\ ToggledTo(s, b))
           /\ EdgesIn(Append(s, c)) = EdgesIn(s) \cup EdgesIn(<<c>>)
           /\ InOrder(s) /\ Before(EdgesIn(s), EdgesIn(<<c>>)) => InOrder(Append(s, c))
<1> DEFINE t == <<c>>
           u == Append(s, c)
<1>1. u = s \o t
  BY AppendProperties
<1>2. /\ t \in Seq(Command) /\ InOrder(t)
      /\ Toggles(t) = {} <=> ~IsToggle(c)
      /\ \A b \in BOOLEAN : ToggledTo(t, b) <=> c = Toggle(b)
  BY OneCommand
<1> HIDE DEF t, u
<1>3. /\ Toggles(u) = {} <=> Toggles(s) = {} /\ Toggles(t) = {}
      /\ \A b \in BOOLEAN : ToggledTo(u, b)
             <=> ToggledTo(t, b) \/ (Toggles(t) = {} /\ ToggledTo(s, b))
  BY <1>1, <1>2, ToggleJoined
<1>4. /\ EdgesIn(u) = EdgesIn(s) \cup EdgesIn(t)
      /\ InOrder(s) /\ Before(EdgesIn(s), EdgesIn(t)) => InOrder(u)
  BY <1>1, <1>2, EdgesJoined DEF Before
<1>5. u \in Seq(Command)
  BY AppendProperties DEF u
<1> QED
  BY <1>2, <1>3, <1>4, <1>5 DEF t, u

-----------------------------------------------------------------------------
(* The inductive invariant. *)

Controls == {Toggle(TRUE), Toggle(FALSE), Refresh}
Inputs == {Move} \cup AnyEdge

LEMMA Kinds ==
    /\ Controls \subseteq Command /\ \A c \in Controls : ~IsEdge(c)
    /\ Inputs \subseteq Command /\ \A c \in Inputs : ~IsToggle(c)
  BY CommandKinds DEF Controls, Inputs, AnyEdge

Phases == {"connecting", "handshake", "input", "graphics", "reactivating", "backoff", "done"}

TypeOK ==
    /\ worker \in [pc: Phases, attempt: Nat, reactivations: Nat]
    /\ rx \in Seq(Command)
    /\ pending \in [control: Seq(Controls), input: Seq(Inputs)]
    /\ latched \in BOOLEAN /\ stop \in BOOLEAN
    /\ caller \in [pc: {"idle", "sending", "joining", "stopped"}, cmd: Command]
    /\ server \in [display: BOOLEAN, edges: Seq(AnyEdge)]
    /\ published \in {"connecting", "active", "reconnecting", "stopped"}
    /\ asked \in [display: BOOLEAN, edges: SUBSET AnyEdge, refresh: BOOLEAN,
                  presses: 0..MaxPresses, controls: 0..MaxControls]

\* The queue is bounded, a send that sleeps is the only command outside, and a connection
\* that is not yet served is a fresh one.
Orderly ==
    /\ Len(rx) <= Depth
    /\ caller.pc # "sending" => caller.cmd = Ready
    /\ worker.pc \in {"connecting", "handshake"} => server = NewConnection
    /\ \A i, j \in Toggles(pending.control) : i = j

\* The last call is under way, or it is what the worker believes.
CallUnderWay ==
    worker.pc # "done" =>
        \/ caller.cmd = Toggle(asked.display)
        \/ /\ ~IsToggle(caller.cmd)
           /\ \/ ToggledTo(rx, asked.display)
              \/ Toggles(rx) = {} /\ Leads(pending.control, ~latched, asked.display)

\* The server displays what the worker believes, once that is sent.
Believed == Connected /\ Toggles(pending.control) = {} => server.display = ~latched

\* Presses are numbered by the calls.
Numbered ==
    /\ \A e \in asked.edges : e.n <= asked.presses
    /\ \A e \in EdgesIn(<<caller.cmd>>) : e.n <= asked.presses

\* The edges of a connection lie, in order, with the server, aside, in the channel and with
\* the caller.
InPieces ==
    Connected =>
        /\ asked.edges = EdgesIn(server.edges) \cup EdgesIn(pending.input)
                           \cup EdgesIn(rx) \cup EdgesIn(<<caller.cmd>>)
        /\ InOrder(server.edges) /\ InOrder(pending.input) /\ InOrder(rx)
        /\ Before(EdgesIn(server.edges),
                  EdgesIn(pending.input) \cup EdgesIn(rx) \cup EdgesIn(<<caller.cmd>>))
        /\ Before(EdgesIn(pending.input), EdgesIn(rx) \cup EdgesIn(<<caller.cmd>>))
        /\ Before(EdgesIn(rx), EdgesIn(<<caller.cmd>>))

IInv == TypeOK /\ Orderly /\ CallUnderWay /\ Believed /\ Numbered /\ InPieces

-----------------------------------------------------------------------------
(* Steps. *)

\* The fields of the variables.
LEMMA Fields ==
    ASSUME TypeOK
    PROVE  /\ worker.pc \in Phases /\ rx \in Seq(Command) /\ Len(rx) \in Nat
           /\ pending.control \in Seq(Controls) /\ pending.control \in Seq(Command)
           /\ pending.input \in Seq(Inputs) /\ pending.input \in Seq(Command)
           /\ caller.cmd \in Command /\ latched \in BOOLEAN
           /\ server.display \in BOOLEAN
           /\ server.edges \in Seq(AnyEdge) /\ server.edges \in Seq(Command)
           /\ asked.display \in BOOLEAN /\ asked.edges \subseteq AnyEdge
           /\ asked.presses \in Nat /\ asked.presses <= MaxPresses
<1>1. AnyEdge \subseteq Command
  BY CommandKinds DEF AnyEdge
<1>2. MaxPresses \in Nat
  BY CommandBounds
<1>3. /\ pending.control \in Seq(Controls) /\ pending.input \in Seq(Inputs)
      /\ server.edges \in Seq(AnyEdge) /\ rx \in Seq(Command)
  BY DEF TypeOK
<1>4. /\ pending.control \in Seq(Command) /\ pending.input \in Seq(Command)
      /\ server.edges \in Seq(Command) /\ Len(rx) \in Nat
  BY <1>1, <1>3, Kinds
<1> QED
  BY <1>2, <1>3, <1>4 DEF TypeOK

\* What is put aside: no edge in the control commands, no toggle in the input.
LEMMA Aside ==
    ASSUME TypeOK
    PROVE  /\ EdgesIn(pending.control) = {} /\ Toggles(pending.input) = {}
           /\ \A b \in BOOLEAN : ~ToggledTo(pending.input, b)
<1>1. \A i \in DOMAIN pending.control : ~IsEdge(pending.control[i])
  BY Fields, Kinds
<1>2. \A i \in DOMAIN pending.input : ~IsToggle(pending.input[i])
  BY Fields, Kinds
<1>3. \A b \in BOOLEAN : IsToggle(Toggle(b))
  BY CommandKinds
<1> QED
  BY <1>1, <1>2, <1>3 DEF EdgesIn, Toggles, ToggledTo

\* A step that sends nothing, and moves no toggle and no edge.
LEMMA Unmoved ==
    ASSUME IInv,
           worker'.pc = "done" <=> worker.pc = "done", Connected' <=> Connected,
           UNCHANGED <<pending, latched, server>>,
           asked'.display = asked.display, asked'.edges = asked.edges,
           asked'.presses = asked.presses,
           \A b \in BOOLEAN : caller'.cmd = Toggle(b) <=> caller.cmd = Toggle(b),
           IsToggle(caller'.cmd) <=> IsToggle(caller.cmd),
           EdgesIn(<<caller'.cmd>>) = EdgesIn(<<caller.cmd>>),
           Toggles(rx') = {} <=> Toggles(rx) = {},
           \A b \in BOOLEAN : ToggledTo(rx', b) <=> ToggledTo(rx, b),
           EdgesIn(rx') = EdgesIn(rx), InOrder(rx) => InOrder(rx')
    PROVE  CallUnderWay' /\ Believed' /\ Numbered' /\ InPieces'
<1> USE DEF IInv
<1>1. CallUnderWay'
  <2>1. asked.display \in BOOLEAN
    BY Fields
  <2>2. CASE worker.pc = "done"
    BY <2>2 DEF CallUnderWay
  <2>3. CASE worker.pc # "done"
    BY <2>1, <2>3, Zenon DEF CallUnderWay
  <2> QED
    BY <2>2, <2>3
<1>2. Believed'
  BY DEF Believed
<1>3. Numbered'
  BY DEF Numbered
<1>4. InPieces'
  BY Zenon DEF InPieces
<1> QED
  BY <1>1, <1>2, <1>3, <1>4

Plain == {Move, Refresh, Ready, Stop}

\* What a plain command adds to a sequence.
LEMMA PlainAdds ==
    ASSUME NEW s \in Seq(Command), NEW c \in Plain
    PROVE  /\ c \in Command /\ ~IsToggle(c) /\ ~IsEdge(c) /\ EdgesIn(<<c>>) = {}
           /\ \A b \in BOOLEAN : c # Toggle(b)
           /\ Append(s, c) \in Seq(Command)
           /\ Toggles(Append(s, c)) = {} <=> Toggles(s) = {}
           /\ \A b \in BOOLEAN : ToggledTo(Append(s, c), b) <=> ToggledTo(s, b)
           /\ EdgesIn(Append(s, c)) = EdgesIn(s)
           /\ InOrder(s) => InOrder(Append(s, c))
<1>1. c \in Command /\ ~IsToggle(c) /\ ~IsEdge(c) /\ \A b \in BOOLEAN : c # Toggle(b)
  BY CommandKinds DEF Plain
<1>2. EdgesIn(<<c>>) = {}
  BY <1>1, OneCommand
<1>3. Before(EdgesIn(s), EdgesIn(<<c>>))
  BY <1>2 DEF Before
<1>4. /\ Append(s, c) \in Seq(Command)
      /\ Toggles(Append(s, c)) = {} <=> Toggles(s) = {}
      /\ InOrder(s) => InOrder(Append(s, c))
  BY <1>1, <1>3, Added, Zenon
<1>5. \A b \in BOOLEAN : ToggledTo(Append(s, c), b) <=> ToggledTo(s, b)
  <2>1. \A b \in BOOLEAN : ToggledTo(Append(s, c), b)
                             <=> c = Toggle(b) \/ (~IsToggle(c) /\ ToggledTo(s, b))
    BY <1>1, Added, Zenon
  <2> QED
    BY <1>1, <2>1, Zenon
<1>6. EdgesIn(Append(s, c)) = EdgesIn(s) \cup {}
  BY <1>1, <1>2, Added, Zenon
<1> QED
  BY <1>1, <1>2, <1>4, <1>5, <1>6

\* How the queue takes a command of an awake caller.
LEMMA Enqueued ==
    ASSUME IInv, NEW c \in Command, Enqueue(c), caller.pc = "idle"
    PROVE  \/ rx' = rx /\ caller' = caller /\ (worker.pc = "done" \/ Droppable(c))
           \/ worker.pc # "done" /\ Len(rx) < Depth /\ rx' = Append(rx, c) /\ caller' = caller
           \/ worker.pc # "done" /\ rx' = rx /\ caller' = [pc |-> "sending", cmd |-> c]
<1>1. Len(rx) \in Nat /\ Len(rx) <= Depth /\ Depth \in Nat
  BY Fields, CommandBounds DEF IInv, Orderly
<1>2. CASE worker.pc = "done"
  BY <1>2, Zenon DEF Enqueue
<1>3. CASE worker.pc # "done" /\ Len(rx) < Depth
  BY <1>3, Zenon DEF Enqueue
<1>4. CASE worker.pc # "done" /\ Len(rx) = Depth
  <2>1. ~ (Len(rx) < Depth)
    BY <1>1, <1>4
  <2> QED
    BY <1>4, <2>1, Zenon DEF Enqueue
<1> QED
  BY <1>1, <1>2, <1>3, <1>4

\* The channel and the caller after a command was taken in.
LEMMA EnqueueTyped ==
    ASSUME IInv, NEW c \in Command, Enqueue(c), caller.pc = "idle"
    PROVE  /\ rx' \in Seq(Command) /\ Len(rx') <= Depth
           /\ caller' \in [pc: {"idle", "sending", "joining", "stopped"}, cmd: Command]
           /\ caller'.pc # "sending" => caller'.cmd = Ready
<1> USE DEF IInv
<1>1. caller \in [pc: {"idle", "sending", "joining", "stopped"}, cmd: Command]
      /\ caller.cmd = Ready /\ rx \in Seq(Command) /\ Len(rx) <= Depth
  BY DEF TypeOK, Orderly
<1>2. CASE rx' = rx /\ caller' = caller
  BY <1>1, <1>2
<1>3. CASE Len(rx) < Depth /\ rx' = Append(rx, c) /\ caller' = caller
  <2>1. Append(rx, c) \in Seq(Command) /\ Len(Append(rx, c)) = Len(rx) + 1
    BY <1>1, AppendProperties
  <2> QED
    BY <1>1, <1>3, <2>1, Fields, CommandBounds
<1>4. CASE rx' = rx /\ caller' = [pc |-> "sending", cmd |-> c]
  BY <1>1, <1>4
<1> QED
  BY <1>2, <1>3, <1>4, Enqueued

\* Plain commands that go in.
LEMMA PlainCall ==
    ASSUME IInv, NEW c \in Plain, Enqueue(c), caller.pc = "idle",
           UNCHANGED <<worker, pending, latched, stop, server, published>>,
           asked' \in [display: BOOLEAN, edges: SUBSET AnyEdge, refresh: BOOLEAN,
                       presses: 0..MaxPresses, controls: 0..MaxControls],
           asked'.display = asked.display, asked'.edges = asked.edges,
           asked'.presses = asked.presses
    PROVE  IInv'
<1> USE DEF IInv
<1>1. rx \in Seq(Command) /\ caller.cmd = Ready /\ Ready \in Plain /\ c \in Command
  BY Fields, PlainAdds DEF Orderly, Plain
<1>2. TypeOK' /\ Orderly'
  <2>1. TypeOK'
    BY <1>1, EnqueueTyped DEF TypeOK
  <2>2. Orderly'
    BY <1>1, EnqueueTyped DEF Orderly
  <2> QED
    BY <2>1, <2>2
<1>3. rx' = rx \/ rx' = Append(rx, c)
  BY <1>1, Enqueued
<1>4. caller'.cmd = Ready \/ caller'.cmd = c
  BY <1>1, Enqueued
<1>5. /\ \A b \in BOOLEAN : caller'.cmd # Toggle(b) /\ caller.cmd # Toggle(b)
      /\ ~IsToggle(caller'.cmd) /\ ~IsToggle(caller.cmd)
      /\ EdgesIn(<<caller'.cmd>>) = {} /\ EdgesIn(<<caller.cmd>>) = {}
  BY <1>1, <1>4, PlainAdds
<1>6. /\ Toggles(rx') = {} <=> Toggles(rx) = {}
      /\ \A b \in BOOLEAN : ToggledTo(rx', b) <=> ToggledTo(rx, b)
      /\ EdgesIn(rx') = EdgesIn(rx) /\ (InOrder(rx) => InOrder(rx'))
  <2>1. CASE rx' = rx
    BY <2>1, Zenon
  <2>2. CASE rx' = Append(rx, c)
    <3> DEFINE r == Append(rx, c)
    <3>1. /\ Toggles(r) = {} <=> Toggles(rx) = {}
          /\ \A b \in BOOLEAN : ToggledTo(r, b) <=> ToggledTo(rx, b)
          /\ EdgesIn(r) = EdgesIn(rx) /\ (InOrder(rx) => InOrder(r))
      BY <1>1, PlainAdds
    <3> QED
      BY <2>2, <3>1
  <2> QED
    BY <1>3, <2>1, <2>2
<1>7. worker' = worker /\ (Connected' <=> Connected)
  BY DEF Connected
<1> QED
  BY <1>2, <1>5, <1>6, <1>7, Unmoved

\* The commands an awake caller leaves in its variable mean nothing.
LEMMA AwakeIsPlain ==
    /\ Awake = [pc |-> "idle", cmd |-> Ready] /\ Ready \in Command /\ ~IsToggle(Ready)
    /\ EdgesIn(<<Ready>>) = {} /\ \A b \in BOOLEAN : Ready # Toggle(b)
<1>1. Ready \in Plain /\ <<>> \in Seq(Command)
  BY DEF Plain
<1> QED
  BY <1>1, PlainAdds DEF Awake

\* Who sleeps is the only one with a command of its own.
LEMMA IdleIsPlain ==
    ASSUME IInv, caller.pc # "sending"
    PROVE  /\ ~IsToggle(caller.cmd) /\ EdgesIn(<<caller.cmd>>) = {}
           /\ \A b \in BOOLEAN : caller.cmd # Toggle(b)
<1>1. caller.cmd = Ready
  BY DEF IInv, Orderly
<1> QED
  BY <1>1, AwakeIsPlain

LEMMA PointerMoveKeeps ==
    ASSUME IInv, PointerMove PROVE IInv'
<1>1. Move \in Plain /\ Enqueue(Move) /\ caller.pc = "idle" /\ asked' = asked
  BY DEF PointerMove, Plain
<1>2. UNCHANGED <<worker, pending, latched, stop, server, published>>
  BY DEF PointerMove
<1>3. asked \in [display: BOOLEAN, edges: SUBSET AnyEdge, refresh: BOOLEAN,
                 presses: 0..MaxPresses, controls: 0..MaxControls]
  BY DEF IInv, TypeOK
<1> QED
  BY <1>1, <1>2, <1>3, PlainCall

LEMMA RequestRefreshKeeps ==
    ASSUME IInv, RequestRefresh PROVE IInv'
<1>1. Refresh \in Plain /\ Enqueue(Refresh) /\ caller.pc = "idle"
  BY DEF RequestRefresh, Plain
<1>2. UNCHANGED <<worker, pending, latched, stop, server, published>>
  BY DEF RequestRefresh
<1>3. /\ asked \in [display: BOOLEAN, edges: SUBSET AnyEdge, refresh: BOOLEAN,
                     presses: 0..MaxPresses, controls: 0..MaxControls]
      /\ asked.controls < MaxControls
      /\ asked' = [asked EXCEPT !.controls = @ + 1, !.refresh = TRUE]
  BY DEF IInv, TypeOK, RequestRefresh
<1>4. asked.controls + 1 \in 0..MaxControls
  BY <1>3, CommandBounds
<1>5. /\ asked' \in [display: BOOLEAN, edges: SUBSET AnyEdge, refresh: BOOLEAN,
                      presses: 0..MaxPresses, controls: 0..MaxControls]
      /\ asked'.display = asked.display /\ asked'.edges = asked.edges
      /\ asked'.presses = asked.presses
  BY <1>3, <1>4
<1> QED
  BY <1>1, <1>2, <1>5, PlainCall

LEMMA PressKeeps ==
    ASSUME IInv, Press PROVE IInv'
<1> USE DEF IInv
<1> DEFINE e == Edge(asked.presses + 1)
<1>1. /\ caller.pc = "idle" /\ Enqueue(e) /\ asked.presses < MaxPresses
      /\ asked' = [asked EXCEPT !.presses = @ + 1, !.edges = @ \cup {e}]
      /\ UNCHANGED <<worker, pending, latched, stop, server, published>>
  BY DEF Press
<1>2. asked.presses + 1 \in 1..MaxPresses
  BY <1>1, Fields, CommandBounds
<1>3. /\ e \in Command /\ e \in AnyEdge /\ IsEdge(e) /\ ~IsToggle(e)
      /\ e.n = asked.presses + 1 /\ ~Droppable(e)
  BY <1>2, CommandKinds DEF AnyEdge, Droppable
<1> HIDE DEF e
<1>4. EdgesIn(<<e>>) = {e}
  BY <1>3, OneCommand
<1>5. /\ asked'.display = asked.display /\ asked'.edges = asked.edges \cup {e}
      /\ asked'.presses = asked.presses + 1
      /\ asked' \in [display: BOOLEAN, edges: SUBSET AnyEdge, refresh: BOOLEAN,
                      presses: 0..MaxPresses, controls: 0..MaxControls]
  <2>1. asked \in [display: BOOLEAN, edges: SUBSET AnyEdge, refresh: BOOLEAN,
                   presses: 0..MaxPresses, controls: 0..MaxControls]
    BY DEF TypeOK
  <2>2. asked.presses + 1 \in 0..MaxPresses /\ asked.edges \cup {e} \in SUBSET AnyEdge
    BY <1>2, <1>3, <2>1, CommandBounds
  <2> QED
    BY <1>1, <2>1, <2>2
<1>6. TypeOK'
  BY <1>1, <1>3, <1>5, EnqueueTyped DEF TypeOK
<1>7. Orderly'
  BY <1>1, <1>3, EnqueueTyped DEF Orderly
<1>8. \/ worker.pc = "done" /\ rx' = rx /\ caller' = caller
      \/ worker.pc # "done" /\ rx' = Append(rx, e) /\ caller' = caller
      \/ worker.pc # "done" /\ rx' = rx /\ caller' = [pc |-> "sending", cmd |-> e]
  BY <1>1, <1>3, Enqueued
<1>9. /\ ~IsToggle(caller.cmd) /\ EdgesIn(<<caller.cmd>>) = {}
      /\ \A b \in BOOLEAN : caller.cmd # Toggle(b)
  BY <1>1, IdleIsPlain
<1>10. /\ Toggles(Append(rx, e)) = {} <=> Toggles(rx) = {}
       /\ ToggledTo(Append(rx, e), asked.display) <=> ToggledTo(rx, asked.display)
       /\ EdgesIn(Append(rx, e)) = EdgesIn(rx) \cup {e}
       /\ InOrder(rx) /\ Before(EdgesIn(rx), {e}) => InOrder(Append(rx, e))
  <2>1. rx \in Seq(Command) /\ asked.display \in BOOLEAN
    BY Fields
  <2>2. e # Toggle(asked.display)
    BY <1>3, <2>1, CommandKinds
  <2> DEFINE r == Append(rx, e)
  <2>3. /\ Toggles(r) = {} <=> Toggles(rx) = {} /\ ~IsToggle(e)
        /\ ToggledTo(r, asked.display)
               <=> e = Toggle(asked.display) \/ (~IsToggle(e) /\ ToggledTo(rx, asked.display))
    <3>1. \A b \in BOOLEAN : ToggledTo(r, b) <=> e = Toggle(b) \/ (~IsToggle(e) /\ ToggledTo(rx, b))
      BY <1>3, <2>1, Added, Zenon
    <3>2. Toggles(r) = {} <=> Toggles(rx) = {} /\ ~IsToggle(e)
      BY <1>3, <2>1, Added
    <3> QED
      BY <2>1, <3>1, <3>2, Zenon
  <2>4. /\ EdgesIn(r) = EdgesIn(rx) \cup EdgesIn(<<e>>)
        /\ InOrder(rx) /\ Before(EdgesIn(rx), EdgesIn(<<e>>)) => InOrder(r)
    BY <1>3, <2>1, Added
  <2> HIDE DEF r
  <2>5. /\ EdgesIn(r) = EdgesIn(rx) \cup {e}
        /\ InOrder(rx) /\ Before(EdgesIn(rx), {e}) => InOrder(r)
    BY <1>4, <2>4
  <2> QED
    BY <1>3, <2>2, <2>3, <2>5 DEF r
<1>11. CallUnderWay'
  <2>1. CASE worker.pc = "done"
    BY <1>1, <2>1 DEF CallUnderWay
  <2>2. CASE worker.pc # "done"
    <3>1. ~IsToggle(caller'.cmd)
      BY <1>3, <1>8, <1>9, <2>2
    <3>2. /\ Toggles(rx') = {} <=> Toggles(rx) = {}
          /\ ToggledTo(rx', asked.display) <=> ToggledTo(rx, asked.display)
      BY <1>8, <1>10, <2>2
    <3>3. \/ ToggledTo(rx, asked.display)
          \/ Toggles(rx) = {} /\ Leads(pending.control, ~latched, asked.display)
      BY <1>9, <2>2, Fields DEF CallUnderWay
    <3>4. \/ ToggledTo(rx', asked'.display)
          \/ Toggles(rx') = {} /\ Leads(pending'.control, ~latched', asked'.display)
      BY <1>1, <1>5, <3>2, <3>3, Zenon
    <3> QED
      BY <3>1, <3>4, Zenon DEF CallUnderWay
  <2> QED
    BY <2>1, <2>2
<1>12. Believed'
  BY <1>1 DEF Believed, Connected
<1>13. Numbered'
  <2>1. \A a \in asked.edges : a.n \in Nat
    BY Fields, CommandKinds DEF AnyEdge
  <2>2. \A a \in asked'.edges : a.n <= asked'.presses
    BY <1>3, <1>5, <2>1, Fields DEF Numbered
  <2>3. EdgesIn(<<caller'.cmd>>) \subseteq {e}
    BY <1>4, <1>8, <1>9
  <2> QED
    BY <1>3, <1>5, <2>2, <2>3, Fields DEF Numbered
<1>14. InPieces'
  <2> SUFFICES ASSUME Connected PROVE InPieces'
    BY <1>1 DEF InPieces, Connected
  <2>1. worker.pc # "done"
    BY DEF Connected
  <2> DEFINE sent == EdgesIn(server.edges)
             aside == EdgesIn(pending.input)
             queued == EdgesIn(rx)
  <2>2. /\ asked.edges = sent \cup aside \cup queued
        /\ InOrder(server.edges) /\ InOrder(pending.input) /\ InOrder(rx)
        /\ Before(sent, aside \cup queued) /\ Before(aside, queued)
    BY <1>9 DEF InPieces, Before
  <2>3. Before(sent \cup aside \cup queued, {e})
    <3>1. \A a \in asked.edges : a.n <= asked.presses /\ a.n \in Nat
      BY Fields, CommandKinds DEF Numbered, AnyEdge
    <3> QED
      BY <1>3, <2>2, <3>1, Fields DEF Before
  <2> HIDE DEF sent, aside, queued
  <2>4. CASE rx' = Append(rx, e) /\ caller' = caller
    <3>1. EdgesIn(rx') = queued \cup {e} /\ EdgesIn(<<caller'.cmd>>) = {} /\ InOrder(rx')
      BY <1>9, <1>10, <2>2, <2>3, <2>4 DEF queued, Before
    <3>2. /\ Before(sent, aside \cup queued \cup {e}) /\ Before(aside, queued \cup {e})
      BY <2>2, <2>3 DEF Before
    <3>3. asked'.edges = sent \cup aside \cup (queued \cup {e})
      BY <1>5, <2>2
    <3> QED
      BY <1>1, <2>2, <3>1, <3>2, <3>3 DEF InPieces, sent, aside, Before
  <2>5. CASE rx' = rx /\ caller' = [pc |-> "sending", cmd |-> e]
    <3>1. EdgesIn(rx') = queued /\ EdgesIn(<<caller'.cmd>>) = {e} /\ InOrder(rx')
      BY <1>4, <2>2, <2>5 DEF queued
    <3>2. /\ Before(sent, aside \cup queued \cup {e}) /\ Before(aside, queued \cup {e})
          /\ Before(queued, {e})
      BY <2>2, <2>3 DEF Before
    <3>3. asked'.edges = sent \cup aside \cup queued \cup {e}
      BY <1>5, <2>2
    <3> QED
      BY <1>1, <2>2, <3>1, <3>2, <3>3 DEF InPieces, sent, aside
  <2> QED
    BY <1>8, <2>1, <2>4, <2>5
<1> QED
  BY <1>6, <1>7, <1>11, <1>12, <1>13, <1>14

LEMMA SetSuppressOutputKeeps ==
    ASSUME IInv, NEW allow \in BOOLEAN, SetSuppressOutput(allow) PROVE IInv'
<1> USE DEF IInv
<1> DEFINE c == Toggle(allow)
<1>1. /\ caller.pc = "idle" /\ Enqueue(c) /\ asked.controls < MaxControls
      /\ asked' = [asked EXCEPT !.controls = @ + 1, !.display = allow, !.refresh = @ /\ allow]
      /\ UNCHANGED <<worker, pending, latched, stop, server, published>>
  BY DEF SetSuppressOutput
<1>2. c \in Command /\ IsToggle(c) /\ ~IsEdge(c) /\ ~Droppable(c)
  BY CommandKinds DEF Droppable
<1>3. /\ asked'.display = allow /\ asked'.edges = asked.edges
      /\ asked'.presses = asked.presses
      /\ asked' \in [display: BOOLEAN, edges: SUBSET AnyEdge, refresh: BOOLEAN,
                      presses: 0..MaxPresses, controls: 0..MaxControls]
  <2>1. asked \in [display: BOOLEAN, edges: SUBSET AnyEdge, refresh: BOOLEAN,
                   presses: 0..MaxPresses, controls: 0..MaxControls]
    BY DEF TypeOK
  <2>2. asked.controls + 1 \in 0..MaxControls /\ (asked.refresh /\ allow) \in BOOLEAN
    BY <1>1, <2>1, CommandBounds
  <2> QED
    BY <1>1, <2>1, <2>2, Zenon
<1>4. TypeOK'
  BY <1>1, <1>2, <1>3, EnqueueTyped DEF TypeOK
<1>5. Orderly'
  BY <1>1, <1>2, EnqueueTyped DEF Orderly
<1>6. \/ worker.pc = "done" /\ rx' = rx /\ caller' = caller
      \/ worker.pc # "done" /\ rx' = Append(rx, c) /\ caller' = caller
      \/ worker.pc # "done" /\ rx' = rx /\ caller' = [pc |-> "sending", cmd |-> c]
  BY <1>1, <1>2, Enqueued
<1>7. ~IsToggle(caller.cmd) /\ EdgesIn(<<caller.cmd>>) = {}
  BY <1>1, IdleIsPlain
<1>8. rx \in Seq(Command) /\ EdgesIn(<<c>>) = {}
  BY <1>2, Fields, OneCommand
<1>9. ToggledTo(Append(rx, c), allow)
  <2>1. \A b \in BOOLEAN : ToggledTo(Append(rx, c), b)
                            <=> c = Toggle(b) \/ (~IsToggle(c) /\ ToggledTo(rx, b))
    BY <1>2, <1>8, Added, Zenon
  <2> QED
    BY <2>1, Zenon
<1>10. EdgesIn(Append(rx, c)) = EdgesIn(rx) /\ (InOrder(rx) => InOrder(Append(rx, c)))
  <2>1. Before(EdgesIn(rx), EdgesIn(<<c>>))
    BY <1>8 DEF Before
  <2>2. EdgesIn(Append(rx, c)) = EdgesIn(rx) \cup EdgesIn(<<c>>)
    BY <1>2, <1>8, Added, Zenon
  <2>3. InOrder(rx) => InOrder(Append(rx, c))
    BY <1>2, <1>8, <2>1, Added, Zenon
  <2> QED
    BY <1>8, <2>2, <2>3
<1> HIDE DEF c
<1>11. EdgesIn(rx') = EdgesIn(rx) /\ (InOrder(rx) => InOrder(rx'))
       /\ EdgesIn(<<caller'.cmd>>) = EdgesIn(<<caller.cmd>>)
  <2>1. CASE rx' = rx /\ caller' = caller
    BY <2>1, Zenon
  <2>2. CASE rx' = Append(rx, c) /\ caller' = caller
    BY <1>10, <2>2, Zenon
  <2>3. CASE rx' = rx /\ caller' = [pc |-> "sending", cmd |-> c]
    <3>1. caller'.cmd = c
      BY <2>3
    <3> QED
      BY <1>7, <1>8, <2>3, <3>1, Zenon
  <2> QED
    BY <1>6, <2>1, <2>2, <2>3
<1>12. CallUnderWay'
  <2>1. CASE worker.pc = "done"
    BY <1>1, <2>1 DEF CallUnderWay
  <2>2. CASE worker.pc # "done" /\ rx' = Append(rx, c) /\ caller' = caller
    BY <1>3, <1>7, <1>9, <2>2 DEF CallUnderWay
  <2>3. CASE worker.pc # "done" /\ rx' = rx /\ caller' = [pc |-> "sending", cmd |-> c]
    BY <1>3, <2>3 DEF CallUnderWay, c
  <2> QED
    BY <1>6, <2>1, <2>2, <2>3
<1>13. Believed'
  BY <1>1 DEF Believed, Connected
<1>14. Numbered'
  BY <1>3, <1>11 DEF Numbered
<1>15. InPieces'
  <2>1. Connected' <=> Connected
    BY <1>1 DEF Connected
  <2> QED
    BY <1>1, <1>3, <1>11, <2>1, Zenon DEF InPieces
<1> QED
  BY <1>4, <1>5, <1>12, <1>13, <1>14, <1>15

LEMMA SendReturnsKeeps ==
    ASSUME IInv, SendReturns PROVE IInv'
<1> USE DEF IInv
<1>1. /\ worker.pc = "done" \/ Len(rx) < Depth
      /\ rx' = IF worker.pc = "done" THEN rx ELSE Append(rx, caller.cmd)
      /\ caller' = [pc |-> "idle", cmd |-> Ready]
      /\ UNCHANGED <<worker, pending, latched, stop, server, published, asked>>
  BY AwakeIsPlain DEF SendReturns
<1>2. /\ rx \in Seq(Command) /\ Len(rx) \in Nat /\ Len(rx) <= Depth /\ Depth \in Nat
      /\ caller.cmd \in Command /\ asked.display \in BOOLEAN
  BY Fields, CommandBounds DEF Orderly
<1> DEFINE c == caller.cmd
           r == Append(rx, c)
           d == asked.display
<1>3. r \in Seq(Command) /\ Len(r) = Len(rx) + 1
  BY <1>2, AppendProperties
<1>4. /\ Toggles(r) = {} <=> Toggles(rx) = {} /\ ~IsToggle(c)
      /\ EdgesIn(r) = EdgesIn(rx) \cup EdgesIn(<<c>>)
      /\ InOrder(rx) /\ Before(EdgesIn(rx), EdgesIn(<<c>>)) => InOrder(r)
  BY <1>2, Added
<1>5. ToggledTo(r, d) <=> c = Toggle(d) \/ (~IsToggle(c) /\ ToggledTo(rx, d))
  <2>1. \A b \in BOOLEAN : ToggledTo(r, b) <=> c = Toggle(b) \/ (~IsToggle(c) /\ ToggledTo(rx, b))
    BY <1>2, Added, Zenon
  <2> QED
    BY <1>2, <2>1, Zenon
<1>6. /\ caller'.cmd = Ready /\ caller'.pc = "idle" /\ ~IsToggle(Ready) /\ Ready \in Command
      /\ EdgesIn(<<Ready>>) = {}
  BY <1>1, AwakeIsPlain
<1> HIDE DEF c, r, d
<1>7. TypeOK'
  BY <1>1, <1>2, <1>3, <1>6 DEF TypeOK, r, c
<1>8. Orderly'
  BY <1>1, <1>2, <1>3, <1>6 DEF Orderly, r, c
<1>9. CASE worker.pc = "done"
  <2>1. CallUnderWay' /\ Believed' /\ InPieces'
    BY <1>1, <1>9 DEF CallUnderWay, Believed, InPieces, Connected
  <2>2. Numbered'
    BY <1>1, <1>6 DEF Numbered
  <2> QED
    BY <1>7, <1>8, <2>1, <2>2
<1>10. CASE worker.pc # "done"
  <2>1. rx' = r
    BY <1>1, <1>10 DEF r, c
  <2>2. CallUnderWay'
    <3>1. \/ c = Toggle(d)
          \/ /\ ~IsToggle(c)
             /\ \/ ToggledTo(rx, d)
                \/ Toggles(rx) = {} /\ Leads(pending.control, ~latched, d)
      BY <1>10, Zenon DEF CallUnderWay, c, d
    <3>2. ToggledTo(r, d) \/ (Toggles(r) = {} /\ Leads(pending.control, ~latched, d))
      BY <1>4, <1>5, <3>1, Zenon
    <3>3. \/ ToggledTo(rx', asked'.display)
          \/ Toggles(rx') = {} /\ Leads(pending'.control, ~latched', asked'.display)
      BY <1>1, <2>1, <3>2, Zenon DEF d
    <3> QED
      BY <1>6, <3>3, Zenon DEF CallUnderWay
  <2>3. Believed'
    BY <1>1 DEF Believed, Connected
  <2>4. Numbered'
    BY <1>1, <1>6 DEF Numbered
  <2>5. InPieces'
    <3> SUFFICES ASSUME Connected PROVE InPieces'
      BY <1>1 DEF InPieces, Connected
    <3> DEFINE sent == EdgesIn(server.edges)
               aside == EdgesIn(pending.input)
               queued == EdgesIn(rx)
               own == EdgesIn(<<c>>)
    <3>1. /\ asked.edges = sent \cup aside \cup queued \cup own
          /\ InOrder(server.edges) /\ InOrder(pending.input) /\ InOrder(rx)
          /\ Before(sent, aside \cup queued \cup own) /\ Before(aside, queued \cup own)
          /\ Before(queued, own)
      BY DEF InPieces, c
    <3>2. EdgesIn(rx') = queued \cup own /\ InOrder(rx') /\ EdgesIn(<<caller'.cmd>>) = {}
      BY <1>4, <1>6, <2>1, <3>1
    <3> HIDE DEF sent, aside, queued, own
    <3>3. /\ asked.edges = sent \cup aside \cup (queued \cup own) \cup {}
          /\ Before(sent, aside \cup (queued \cup own) \cup {})
          /\ Before(aside, (queued \cup own) \cup {}) /\ Before(queued \cup own, {})
      BY <3>1 DEF Before
    <3> QED
      BY <1>1, <3>1, <3>2, <3>3 DEF InPieces, sent, aside
  <2> QED
    BY <1>7, <1>8, <2>2, <2>3, <2>4, <2>5
<1> QED
  BY <1>9, <1>10

LEMMA MediaReadyKeeps ==
    ASSUME IInv, MediaReady PROVE IInv'
<1> USE DEF IInv
<1>1. /\ worker.pc # "done" /\ Len(rx) < Depth /\ rx' = Append(rx, Ready)
      /\ UNCHANGED <<worker, pending, latched, stop, caller, server, published, asked>>
  BY DEF MediaReady
<1>2. /\ rx \in Seq(Command) /\ Len(rx) \in Nat /\ Depth \in Nat
      /\ Ready \in Plain /\ Ready \in Command
  BY Fields, CommandBounds, CommandKinds DEF Plain
<1>3. rx' \in Seq(Command) /\ Len(rx') = Len(rx) + 1
  <2>1. Append(rx, Ready) \in Seq(Command) /\ Len(Append(rx, Ready)) = Len(rx) + 1
    BY <1>2, AppendProperties
  <2> QED
    BY <1>1, <2>1
<1>4. TypeOK' /\ Orderly'
  BY <1>1, <1>2, <1>3 DEF TypeOK, Orderly
<1> DEFINE r == Append(rx, Ready)
<1>5. /\ Toggles(r) = {} <=> Toggles(rx) = {}
      /\ \A b \in BOOLEAN : ToggledTo(r, b) <=> ToggledTo(rx, b)
      /\ EdgesIn(r) = EdgesIn(rx) /\ (InOrder(rx) => InOrder(r))
  BY <1>2, PlainAdds
<1>6. rx' = r /\ (Connected' <=> Connected)
  BY <1>1 DEF Connected
<1> HIDE DEF r
<1> QED
  BY <1>1, <1>4, <1>5, <1>6, Unmoved

LEMMA SessionStopKeeps ==
    ASSUME IInv, SessionStop PROVE IInv'
<1> USE DEF IInv
<1>1. /\ caller.pc = "idle" /\ stop' = TRUE /\ caller' = [pc |-> "joining", cmd |-> Ready]
      /\ rx' = rx \/ (Len(rx) < Depth /\ rx' = Append(rx, Stop))
      /\ UNCHANGED <<worker, pending, latched, server, published, asked>>
  BY DEF SessionStop
<1>2. rx \in Seq(Command) /\ Len(rx) \in Nat /\ Depth \in Nat /\ Stop \in Plain /\ Len(rx) <= Depth
  BY Fields, CommandBounds DEF Plain, Orderly
<1> DEFINE r == Append(rx, Stop)
<1>3. /\ r \in Seq(Command) /\ Len(r) = Len(rx) + 1
      /\ Toggles(r) = {} <=> Toggles(rx) = {}
      /\ \A b \in BOOLEAN : ToggledTo(r, b) <=> ToggledTo(rx, b)
      /\ EdgesIn(r) = EdgesIn(rx) /\ (InOrder(rx) => InOrder(r))
  BY <1>2, PlainAdds, AppendProperties
<1>4. rx' = rx \/ (Len(rx) < Depth /\ rx' = r)
  BY <1>1
<1> HIDE DEF r
<1>5. /\ rx' \in Seq(Command) /\ Len(rx') <= Depth
      /\ Toggles(rx') = {} <=> Toggles(rx) = {}
      /\ \A b \in BOOLEAN : ToggledTo(rx', b) <=> ToggledTo(rx, b)
      /\ EdgesIn(rx') = EdgesIn(rx) /\ (InOrder(rx) => InOrder(rx'))
  BY <1>2, <1>3, <1>4
<1>6. caller'.cmd = Ready /\ caller'.pc = "joining" /\ caller.cmd = Ready
  BY <1>1 DEF Orderly
<1>7. TypeOK' /\ Orderly'
  BY <1>1, <1>5, <1>6, AwakeIsPlain DEF TypeOK, Orderly
<1>8. Connected' <=> Connected
  BY <1>1 DEF Connected
<1>9. /\ \A b \in BOOLEAN : caller'.cmd = Toggle(b) <=> caller.cmd = Toggle(b)
      /\ IsToggle(caller'.cmd) <=> IsToggle(caller.cmd)
      /\ EdgesIn(<<caller'.cmd>>) = EdgesIn(<<caller.cmd>>)
  BY <1>6
<1> QED
  BY <1>1, <1>5, <1>7, <1>8, <1>9, Unmoved

LEMMA JoinReturnsKeeps ==
    ASSUME IInv, JoinReturns PROVE IInv'
<1> USE DEF IInv
<1>1. /\ caller.pc = "joining" /\ caller' = [pc |-> "stopped", cmd |-> Ready]
      /\ UNCHANGED <<worker, rx, pending, latched, stop, server, published, asked>>
  BY DEF JoinReturns
<1>2. caller'.cmd = Ready /\ caller'.pc = "stopped" /\ caller.cmd = Ready
  BY <1>1 DEF Orderly
<1>3. TypeOK' /\ Orderly'
  BY <1>1, <1>2, AwakeIsPlain DEF TypeOK, Orderly
<1>4. Connected' <=> Connected
  BY <1>1 DEF Connected
<1>5. /\ \A b \in BOOLEAN : caller'.cmd = Toggle(b) <=> caller.cmd = Toggle(b)
      /\ IsToggle(caller'.cmd) <=> IsToggle(caller.cmd)
      /\ EdgesIn(<<caller'.cmd>>) = EdgesIn(<<caller.cmd>>)
  BY <1>2
<1>6. /\ Toggles(rx') = {} <=> Toggles(rx) = {}
      /\ \A b \in BOOLEAN : ToggledTo(rx', b) <=> ToggledTo(rx, b)
      /\ EdgesIn(rx') = EdgesIn(rx) /\ (InOrder(rx) => InOrder(rx'))
  BY <1>1
<1> QED
  BY <1>1, <1>3, <1>4, <1>5, <1>6, Unmoved

\* The worker only goes on to another phase.
LEMMA PhaseKeeps ==
    ASSUME IInv, NEW pc \in Phases \ {"done"},
           worker.pc # "done", worker'.pc = pc,
           worker' \in [pc: Phases, attempt: Nat, reactivations: Nat],
           Connected' <=> Connected,
           pc \in {"connecting", "handshake"} => worker.pc \in {"connecting", "handshake"},
           asked' \in [display: BOOLEAN, edges: SUBSET AnyEdge, refresh: BOOLEAN,
                       presses: 0..MaxPresses, controls: 0..MaxControls],
           asked'.display = asked.display, asked'.edges = asked.edges,
           asked'.presses = asked.presses,
           UNCHANGED <<rx, pending, latched, stop, caller, server, published>>
    PROVE  IInv'
<1> USE DEF IInv
<1>1. TypeOK'
  BY DEF TypeOK
<1>2. Orderly'
  BY DEF Orderly
<1>3. /\ \A b \in BOOLEAN : caller'.cmd = Toggle(b) <=> caller.cmd = Toggle(b)
      /\ IsToggle(caller'.cmd) <=> IsToggle(caller.cmd)
      /\ EdgesIn(<<caller'.cmd>>) = EdgesIn(<<caller.cmd>>)
      /\ Toggles(rx') = {} <=> Toggles(rx) = {}
      /\ \A b \in BOOLEAN : ToggledTo(rx', b) <=> ToggledTo(rx, b)
      /\ EdgesIn(rx') = EdgesIn(rx) /\ (InOrder(rx) => InOrder(rx'))
  OBVIOUS
<1>4. worker'.pc = "done" <=> worker.pc = "done"
  OBVIOUS
<1> QED
  BY <1>1, <1>2, <1>3, <1>4, Unmoved

LEMMA PhasesKeep ==
    ASSUME IInv, BeginHandshake \/ InputDrained \/ EndTurn \/ BeginReactivation
                     \/ FinishReactivation
    PROVE  IInv'
<1>1. /\ worker \in [pc: Phases, attempt: Nat, reactivations: Nat]
      /\ asked \in [display: BOOLEAN, edges: SUBSET AnyEdge, refresh: BOOLEAN,
                    presses: 0..MaxPresses, controls: 0..MaxControls]
  BY DEF IInv, TypeOK
<1>2. CASE BeginHandshake
  <2>1. /\ worker.pc = "connecting" /\ worker' = [worker EXCEPT !.pc = "handshake"]
        /\ UNCHANGED <<rx, pending, latched, stop, caller, server, published, asked>>
    BY <1>2 DEF BeginHandshake
  <2>2. "handshake" \in Phases \ {"done"}
    BY DEF Phases
  <2> QED
    BY <1>1, <2>1, <2>2, PhaseKeeps DEF Connected
<1>3. CASE InputDrained
  <2>1. /\ worker.pc = "input" /\ worker' = [worker EXCEPT !.pc = "graphics"]
        /\ UNCHANGED <<rx, pending, latched, stop, caller, server, published, asked>>
    BY <1>3 DEF InputDrained
  <2>2. "graphics" \in Phases \ {"done"}
    BY DEF Phases
  <2> QED
    BY <1>1, <2>1, <2>2, PhaseKeeps DEF Connected
<1>4. CASE EndTurn
  <2>1. /\ worker.pc = "graphics" /\ worker' = [worker EXCEPT !.pc = "input"]
        /\ UNCHANGED <<rx, pending, latched, stop, caller, server, published, asked>>
    BY <1>4 DEF EndTurn
  <2>2. "input" \in Phases \ {"done"}
    BY DEF Phases
  <2> QED
    BY <1>1, <2>1, <2>2, PhaseKeeps DEF Connected
<1>5. CASE BeginReactivation
  <2>1. /\ worker.pc = "graphics"
        /\ worker' = [worker EXCEPT !.pc = "reactivating", !.reactivations = @ + 1]
        /\ UNCHANGED <<rx, pending, latched, stop, caller, server, published, asked>>
    BY <1>5 DEF BeginReactivation
  <2>2. "reactivating" \in Phases \ {"done"}
    BY DEF Phases
  <2>3. worker' \in [pc: Phases, attempt: Nat, reactivations: Nat] /\ worker'.pc = "reactivating"
    <3>1. worker.reactivations + 1 \in Nat
      BY <1>1
    <3> QED
      BY <1>1, <2>1, <2>2, <3>1, Zenon
  <2> QED
    BY <1>1, <2>1, <2>2, <2>3, PhaseKeeps DEF Connected
<1>6. CASE FinishReactivation
  <2>1. /\ worker.pc = "reactivating" /\ worker' = [worker EXCEPT !.pc = "graphics"]
        /\ asked' = [asked EXCEPT !.refresh = @ /\ ~server.display]
        /\ UNCHANGED <<rx, pending, latched, stop, caller, server, published>>
    BY <1>6 DEF FinishReactivation
  <2>2. "graphics" \in Phases \ {"done"}
    BY DEF Phases
  <2>3. /\ asked' \in [display: BOOLEAN, edges: SUBSET AnyEdge, refresh: BOOLEAN,
                        presses: 0..MaxPresses, controls: 0..MaxControls]
        /\ asked'.display = asked.display /\ asked'.edges = asked.edges
        /\ asked'.presses = asked.presses
    <3>1. (asked.refresh /\ ~server.display) \in BOOLEAN
      OBVIOUS
    <3> QED
      BY <1>1, <2>1, <3>1, Zenon
  <2> QED
    BY <1>1, <2>1, <2>2, <2>3, PhaseKeeps DEF Connected
<1> QED
  BY <1>2, <1>3, <1>4, <1>5, <1>6

LEMMA FinishKeeps ==
    ASSUME IInv, Finish PROVE IInv'
<1> USE DEF IInv
<1>1. /\ worker' = [worker EXCEPT !.pc = "done"] /\ rx' = <<>> /\ published' = "stopped"
      /\ UNCHANGED <<pending, latched, stop, caller, server, asked>>
  BY DEF Finish
<1>2. worker' \in [pc: Phases, attempt: Nat, reactivations: Nat] /\ worker'.pc = "done"
  BY <1>1 DEF TypeOK, Phases
<1>3. TypeOK'
  BY <1>1, <1>2 DEF TypeOK
<1>4. Orderly'
  BY <1>1, <1>2, CommandBounds DEF Orderly
<1>5. CallUnderWay' /\ Believed' /\ InPieces'
  BY <1>2 DEF CallUnderWay, Believed, InPieces, Connected
<1>6. Numbered'
  BY <1>1 DEF Numbered
<1> QED
  BY <1>3, <1>4, <1>5, <1>6

\* reset_session_state keeps what the worker was last told.
LEMMA KeptIsLast ==
    ASSUME IInv, NEW b \in BOOLEAN, Leads(pending.control, ~latched, b)
    PROVE  KeptSuppression(pending) = ~b
<1> DEFINE control == pending.control
<1>1. /\ \A i, j \in Toggles(control) : i = j
      /\ latched \in BOOLEAN /\ control \in Seq(Command)
  BY Fields DEF IInv, Orderly
<1>2. DOMAIN control = 1..Len(control)
  BY <1>1, LenProperties
<1>3. /\ Toggle(FALSE) # Toggle(TRUE)
      /\ \A x \in BOOLEAN : IsToggle(Toggle(x))
  BY CommandKinds
<1> HIDE DEF control
<1>4. CASE Toggles(control) = {}
  <2>1. ~ToggledTo(control, b)
    BY <1>3, <1>4 DEF ToggledTo, Toggles
  <2>2. ~latched = b
    BY <2>1 DEF Leads, control
  <2> QED
    BY <1>1, <1>4, <2>2 DEF KeptSuppression, control
<1>5. CASE Toggles(control) # {}
  <2>1. ToggledTo(control, b)
    BY <1>5 DEF Leads, control
  <2>2. PICK i \in DOMAIN control : control[i] = Toggle(b)
    BY <2>1 DEF ToggledTo
  <2>3. i \in Toggles(control)
    BY <1>3, <2>2 DEF Toggles
  <2>4. \A j \in DOMAIN control : control[j] = Toggle(FALSE) => j = i
    BY <1>1, <1>3, <2>3 DEF Toggles
  <2>5. Contains(control, Toggle(FALSE)) <=> b = FALSE
    BY <1>2, <1>3, <2>2, <2>4 DEF Contains
  <2>6. KeptSuppression(pending) = Contains(control, Toggle(FALSE))
    BY <1>5, Zenon DEF KeptSuppression, control
  <2>7. Contains(control, Toggle(FALSE)) \in BOOLEAN
    BY DEF Contains
  <2> QED
    BY <2>5, <2>6, <2>7
<1> QED
  BY <1>4, <1>5

LEMMA HandoffKeeps ==
    ASSUME IInv, Handoff PROVE IInv'
<1> USE DEF IInv
<1>1. CASE Finish
  BY <1>1, FinishKeeps
<1>2. CASE ~Finish
  <2>1. /\ worker.pc \in {"handshake", "graphics", "reactivating"}
        /\ worker' = [worker EXCEPT !.pc = "backoff", !.attempt = @ + 1]
        /\ published' = "reconnecting" /\ latched' = KeptSuppression(pending)
        /\ pending' = NothingPending
        /\ UNCHANGED <<rx, stop, caller, server, asked>>
    BY <1>2 DEF Handoff
  <2>2. worker' \in [pc: Phases, attempt: Nat, reactivations: Nat] /\ worker'.pc = "backoff"
    <3>1. worker \in [pc: Phases, attempt: Nat, reactivations: Nat] /\ worker.attempt + 1 \in Nat
      BY DEF TypeOK
    <3>2. "backoff" \in Phases
      BY DEF Phases
    <3> QED
      BY <2>1, <3>1, <3>2, Zenon
  <2>3. pending'.control = <<>> /\ pending'.input = <<>>
        /\ pending' \in [control: Seq(Controls), input: Seq(Inputs)]
    BY <2>1 DEF NothingPending
  <2>4. KeptSuppression(pending) \in BOOLEAN
    <3>1. latched \in BOOLEAN
      BY DEF TypeOK
    <3> QED
      BY <3>1 DEF KeptSuppression, Contains
  <2>5. TypeOK'
    BY <2>1, <2>2, <2>3, <2>4 DEF TypeOK
  <2>6. Orderly'
    BY <2>1, <2>2, <2>3, NoCommands DEF Orderly
  <2>7. CallUnderWay'
    <3>1. /\ caller' = caller /\ rx' = rx /\ asked' = asked /\ worker.pc # "done"
          /\ asked.display \in BOOLEAN
      BY <2>1, Fields
    <3>2. CASE /\ ~IsToggle(caller.cmd) /\ Toggles(rx) = {}
               /\ Leads(pending.control, ~latched, asked.display)
      <4>1. latched' = ~asked.display
        BY <2>1, <3>1, <3>2, KeptIsLast
      <4>2. Leads(pending'.control, ~latched', asked'.display)
        BY <2>3, <3>1, <4>1, NoCommands DEF Leads
      <4> QED
        BY <3>1, <3>2, <4>2, Zenon DEF CallUnderWay
    <3>3. CASE \/ caller.cmd = Toggle(asked.display)
               \/ ~IsToggle(caller.cmd) /\ ToggledTo(rx, asked.display)
      BY <3>1, <3>3, Zenon DEF CallUnderWay
    <3> QED
      BY <3>1, <3>2, <3>3, Zenon DEF CallUnderWay
  <2>8. Believed' /\ InPieces'
    BY <2>2 DEF Believed, InPieces, Connected
  <2>9. Numbered'
    BY <2>1 DEF Numbered
  <2> QED
    BY <2>5, <2>6, <2>7, <2>8, <2>9
<1> QED
  BY <1>1, <1>2

LEMMA ReconnectKeeps ==
    ASSUME IInv, Reconnect PROVE IInv'
<1> USE DEF IInv
<1>1. /\ worker.pc = "backoff" /\ worker' = [worker EXCEPT !.pc = "connecting"]
      /\ published' = "connecting" /\ server' = NewConnection
      /\ asked' = [asked EXCEPT !.refresh = FALSE]
      /\ UNCHANGED <<rx, pending, latched, stop, caller>>
  BY DEF Reconnect
<1>2. worker' \in [pc: Phases, attempt: Nat, reactivations: Nat] /\ worker'.pc = "connecting"
  BY <1>1 DEF TypeOK, Phases
<1>3. /\ asked' \in [display: BOOLEAN, edges: SUBSET AnyEdge, refresh: BOOLEAN,
                      presses: 0..MaxPresses, controls: 0..MaxControls]
      /\ asked'.display = asked.display /\ asked'.edges = asked.edges
      /\ asked'.presses = asked.presses
  <2>1. asked \in [display: BOOLEAN, edges: SUBSET AnyEdge, refresh: BOOLEAN,
                   presses: 0..MaxPresses, controls: 0..MaxControls]
    BY DEF TypeOK
  <2> QED
    BY <1>1, <2>1
<1>4. TypeOK'
  <2>1. server' \in [display: BOOLEAN, edges: Seq(AnyEdge)]
    BY <1>1 DEF NewConnection
  <2> QED
    BY <1>1, <1>2, <1>3, <2>1 DEF TypeOK
<1>5. Orderly'
  BY <1>1, <1>2 DEF Orderly
<1>6. CallUnderWay'
  BY <1>1, <1>2, <1>3, Zenon DEF CallUnderWay
<1>7. Believed' /\ InPieces'
  BY <1>2 DEF Believed, InPieces, Connected
<1>8. Numbered'
  BY <1>1, <1>3 DEF Numbered
<1> QED
  BY <1>4, <1>5, <1>6, <1>7, <1>8

LEMMA RecoverBitmapKeeps ==
    ASSUME IInv, RecoverBitmap PROVE IInv'
<1> USE DEF IInv
<1>1. /\ worker.pc = "graphics" /\ ~latched /\ server' = [server EXCEPT !.display = TRUE]
      /\ UNCHANGED <<worker, rx, pending, latched, stop, caller, published, asked>>
  BY DEF RecoverBitmap
<1>2. /\ server' \in [display: BOOLEAN, edges: Seq(AnyEdge)]
      /\ server'.display = TRUE /\ server'.edges = server.edges
  BY <1>1 DEF TypeOK
<1>3. TypeOK' /\ Orderly'
  BY <1>1, <1>2 DEF TypeOK, Orderly
<1>4. CallUnderWay' /\ Numbered'
  BY <1>1 DEF CallUnderWay, Numbered
<1>5. Believed'
  BY <1>1, <1>2 DEF Believed
<1>6. InPieces'
  <2>1. Connected' <=> Connected
    BY <1>1 DEF Connected
  <2> QED
    BY <1>1, <1>2, <2>1, Zenon DEF InPieces
<1> QED
  BY <1>3, <1>4, <1>5, <1>6

\* Where the toggles are when a command is added or taken.
LEMMA TogglePlaces ==
    ASSUME NEW s \in Seq(Command), \A i, j \in Toggles(s) : i = j
    PROVE  \A c \in Command : Toggles(s) = {} \/ ~IsToggle(c)
               => \A i, j \in Toggles(Append(s, c)) : i = j
<1>1. Len(s) \in Nat /\ DOMAIN s = 1..Len(s)
  BY LenProperties
<1>2. ASSUME NEW c \in Command, Toggles(s) = {} \/ ~IsToggle(c),
             NEW i \in Toggles(Append(s, c)), NEW j \in Toggles(Append(s, c))
      PROVE  i = j
  <2> DEFINE r == Append(s, c)
  <2>1. DOMAIN r = 1..(Len(s) + 1) /\ r[Len(s) + 1] = c /\ \A k \in 1..Len(s) : r[k] = s[k]
    BY AppendProperties, LenProperties
  <2> HIDE DEF r
  <2>2. \A k \in Toggles(r) : k \in Toggles(s) \/ (k = Len(s) + 1 /\ IsToggle(c))
    BY <1>1, <2>1 DEF Toggles
  <2>3. i \in Toggles(r) /\ j \in Toggles(r)
    BY DEF r
  <2> QED
    BY <1>2, <2>2, <2>3
<1> QED
  BY <1>2

LEMMA ToggleTaken ==
    ASSUME NEW s \in Seq(Command), s # <<>>, \A i, j \in Toggles(s) : i = j
    PROVE  /\ \A i, j \in Toggles(Tail(s)) : i = j
           /\ IsToggle(Head(s)) => Toggles(Tail(s)) = {}
<1> DEFINE t == Tail(s)
<1>1. /\ t \in Seq(Command) /\ Len(t) = Len(s) - 1 /\ DOMAIN t = 1..Len(t)
      /\ \A k \in 1..Len(t) : t[k] = s[k + 1]
      /\ Head(s) = s[1] /\ Len(s) >= 1
  BY HeadTailProperties, LenProperties
<1> HIDE DEF t
<1>2. \A k \in Toggles(t) : k \in Nat /\ k > 0 /\ k + 1 \in Toggles(s)
  BY <1>1 DEF Toggles
<1>3. \A i, j \in Toggles(t) : i = j
  <2> SUFFICES ASSUME NEW i \in Toggles(t), NEW j \in Toggles(t) PROVE i = j
    OBVIOUS
  <2>1. i + 1 = j + 1 /\ i \in Nat /\ j \in Nat
    BY <1>2
  <2> QED
    BY <2>1
<1>4. ASSUME IsToggle(Head(s)), NEW k \in Toggles(t) PROVE FALSE
  <2>1. 1 \in Toggles(s)
    BY <1>1, <1>4 DEF Toggles
  <2>2. k + 1 = 1
    BY <1>2, <2>1
  <2> QED
    BY <1>2, <2>2
<1> QED
  BY <1>3, <1>4 DEF t

LEMMA ActivateKeeps ==
    ASSUME IInv, Activate PROVE IInv'
<1> USE DEF IInv
<1>1. /\ worker.pc = "handshake" /\ rx = <<>>
      /\ worker' = [worker EXCEPT !.pc = "input"] /\ published' = "active"
      /\ pending' = Relatched(pending)
      /\ asked' = [asked EXCEPT !.edges = {c \in {caller.cmd} : IsEdge(c)}]
      /\ UNCHANGED <<rx, latched, stop, caller, server>>
  BY DEF Activate
<1> DEFINE control == pending.control
           more == Append(control, Toggle(FALSE))
           next == IF latched /\ Toggles(control) = {} THEN more ELSE control
<1>2. /\ control \in Seq(Controls) /\ control \in Seq(Command) /\ latched \in BOOLEAN
      /\ Toggle(FALSE) \in Command /\ Toggle(FALSE) \in Controls /\ IsToggle(Toggle(FALSE))
      /\ \A i, j \in Toggles(control) : i = j
      /\ caller.cmd \in Command /\ asked.display \in BOOLEAN
  BY Fields, CommandKinds DEF Controls, Orderly
<1>3. /\ more \in Seq(Controls) /\ ~(Toggles(more) = {})
      /\ \A b \in BOOLEAN : b = FALSE => ToggledTo(more, b)
  <2>1. more \in Seq(Controls)
    <3>1. \A q \in Seq(Controls), c \in Controls : Append(q, c) \in Seq(Controls)
      OBVIOUS
    <3> QED
      BY <1>2, <3>1, Zenon
  <2>2. Toggles(more) = {} <=> Toggles(control) = {} /\ ~IsToggle(Toggle(FALSE))
    BY <1>2, Added, Zenon
  <2>3. \A b \in BOOLEAN : ToggledTo(more, b)
           <=> Toggle(FALSE) = Toggle(b) \/ (~IsToggle(Toggle(FALSE)) /\ ToggledTo(control, b))
    BY <1>2, Added, Zenon
  <2> QED
    BY <1>2, <2>1, <2>2, <2>3, Zenon
<1>4. Toggles(control) = {} => \A i, j \in Toggles(more) : i = j
  BY <1>2, TogglePlaces, Zenon
<1>5. pending' = [control |-> next, input |-> <<>>]
  BY <1>1, Zenon DEF Relatched
<1>6. pending'.control = next /\ pending'.input = <<>>
  BY <1>5
<1> HIDE DEF control, more, next
<1>7. /\ next \in Seq(Controls) /\ \A i, j \in Toggles(next) : i = j
      /\ Toggles(next) = {} => ~latched
      /\ Leads(control, ~latched, asked.display) => Leads(next, ~latched, asked.display)
  <2>1. CASE latched /\ Toggles(control) = {}
    <3>1. next = more
      BY <2>1 DEF next
    <3>2. Leads(control, ~latched, asked.display) => asked.display = FALSE
      <4>1. ~ToggledTo(control, asked.display)
        BY <1>2, <2>1, CommandKinds DEF ToggledTo, Toggles
      <4> QED
        BY <1>2, <2>1, <4>1 DEF Leads
    <3> QED
      BY <1>2, <1>3, <1>4, <2>1, <3>1, <3>2, Zenon DEF Leads
  <2>2. CASE ~(latched /\ Toggles(control) = {})
    <3>1. next = control
      BY <2>2, Zenon DEF next
    <3> QED
      BY <1>2, <2>2, <3>1, Zenon
  <2> QED
    BY <2>1, <2>2
<1>8. worker' \in [pc: Phases, attempt: Nat, reactivations: Nat] /\ worker'.pc = "input"
  BY <1>1 DEF TypeOK, Phases
<1>9. EdgesIn(<<caller.cmd>>) = {c \in {caller.cmd} : IsEdge(c)}
  BY <1>2, OneCommand
<1>10. /\ asked' \in [display: BOOLEAN, edges: SUBSET AnyEdge, refresh: BOOLEAN,
                       presses: 0..MaxPresses, controls: 0..MaxControls]
       /\ asked'.display = asked.display /\ asked'.edges = EdgesIn(<<caller.cmd>>)
       /\ asked'.presses = asked.presses
  <2>1. asked \in [display: BOOLEAN, edges: SUBSET AnyEdge, refresh: BOOLEAN,
                   presses: 0..MaxPresses, controls: 0..MaxControls]
    BY DEF TypeOK
  <2>2. {c \in {caller.cmd} : IsEdge(c)} \in SUBSET AnyEdge
    BY <1>2, CommandKinds
  <2> QED
    BY <1>1, <1>9, <2>1, <2>2, Zenon
<1>11. TypeOK'
  <2>1. pending' \in [control: Seq(Controls), input: Seq(Inputs)]
    BY <1>5, <1>7
  <2> QED
    BY <1>1, <1>8, <1>10, <2>1 DEF TypeOK
<1>12. Orderly'
  BY <1>1, <1>6, <1>7, <1>8 DEF Orderly
<1>13. CallUnderWay'
  <2>1. \/ caller.cmd = Toggle(asked.display)
        \/ ~IsToggle(caller.cmd) /\ Leads(control, ~latched, asked.display)
    <3>1. ~ToggledTo(rx, asked.display)
      BY <1>1, NoCommands
    <3> QED
      BY <1>1, <3>1, Zenon DEF CallUnderWay, control
  <2>2. Toggles(rx) = {}
    BY <1>1, NoCommands
  <2>3. \/ caller'.cmd = Toggle(asked'.display)
        \/ ~IsToggle(caller'.cmd) /\ Leads(pending'.control, ~latched', asked'.display)
    BY <1>1, <1>6, <1>7, <1>10, <2>1, Zenon
  <2> QED
    BY <1>1, <2>2, <2>3, Zenon DEF CallUnderWay
<1>14. Believed'
  <2>1. server'.display = TRUE
    BY <1>1 DEF Orderly, NewConnection
  <2> QED
    BY <1>1, <1>2, <1>6, <1>7, <2>1 DEF Believed
<1>15. Numbered'
  BY <1>1, <1>10 DEF Numbered
<1>16. InPieces'
  <2>1. server'.edges = <<>> /\ rx' = <<>> /\ pending'.input = <<>>
    BY <1>1, <1>6 DEF Orderly, NewConnection
  <2>2. EdgesIn(<<>>) = {} /\ InOrder(<<>>)
    BY NoCommands
  <2>3. asked'.edges = {} \cup {} \cup {} \cup EdgesIn(<<caller'.cmd>>)
    BY <1>1, <1>10
  <2>4. \A S : Before({}, S)
    BY DEF Before
  <2> QED
    BY <2>1, <2>2, <2>3, <2>4, Zenon DEF InPieces
<1> QED
  BY <1>11, <1>12, <1>13, <1>14, <1>15, <1>16

\* What is put aside by one run of the loop of drain_commands.
LEMMA Buffered ==
    ASSUME IInv, NEW c \in Command
    PROVE  /\ Buffer(pending, c) \in [control: Seq(Controls), input: Seq(Inputs)]
           /\ \A i, j \in Toggles(Buffer(pending, c).control) : i = j
           /\ \A b \in BOOLEAN : ToggledTo(Buffer(pending, c).control, b)
                  <=> c = Toggle(b) \/ (~IsToggle(c) /\ ToggledTo(pending.control, b))
           /\ Toggles(Buffer(pending, c).control) = {}
                  <=> ~IsToggle(c) /\ Toggles(pending.control) = {}
           /\ EdgesIn(Buffer(pending, c).input) = EdgesIn(pending.input) \cup EdgesIn(<<c>>)
           /\ InOrder(pending.input) /\ Before(EdgesIn(pending.input), EdgesIn(<<c>>))
                  => InOrder(Buffer(pending, c).input)
<1> DEFINE p == Buffer(pending, c)
           control == pending.control
           input == pending.input
<1>1. /\ control \in Seq(Controls) /\ control \in Seq(Command)
      /\ input \in Seq(Inputs) /\ input \in Seq(Command)
      /\ \A i, j \in Toggles(control) : i = j
      /\ pending \in [control: Seq(Controls), input: Seq(Inputs)]
  BY Fields DEF IInv, TypeOK, Orderly
<1>2. pending = [control |-> control, input |-> input]
  BY <1>1
<1>3. \A b \in BOOLEAN : c = Toggle(b) => IsToggle(c)
  BY CommandKinds
<1> HIDE DEF control, input
<1>4. CASE c.kind = "suppress"
  <2> DEFINE kept == Retained(control)
  <2>1. p = [control |-> Append(kept, c), input |-> input]
    <3>1. p = [pending EXCEPT !.control = Append(kept, c)]
      BY <1>4, Zenon DEF Buffer, control
    <3> QED
      BY <1>2, <3>1
  <2>2. /\ IsToggle(c) /\ c \in Controls /\ Refresh \in Command /\ ~IsToggle(Refresh)
        /\ Refresh \in Controls /\ EdgesIn(<<c>>) = {}
    <3>1. IsToggle(c)
      BY <1>4 DEF IsToggle
    <3> QED
      BY <3>1, CommandKinds, OneCommand DEF Controls
  <2>3. kept \in Seq(Controls) /\ kept \in Seq(Command) /\ Toggles(kept) = {}
    <3>1. CASE kept = <<>>
      BY <3>1, NoCommands
    <3>2. CASE kept = <<Refresh>>
      <4>1. <<Refresh>> \in Seq(Controls)
        BY <2>2
      <4>2. <<Refresh>> \in Seq(Command) /\ (Toggles(<<Refresh>>) = {} <=> ~IsToggle(Refresh))
        BY <2>2, OneCommand, Zenon
      <4> QED
        BY <2>2, <3>2, <4>1, <4>2, Zenon
    <3> QED
      BY <3>1, <3>2, Zenon DEF Retained
  <2> HIDE DEF kept
  <2>4. /\ Append(kept, c) \in Seq(Controls)
        /\ \A i, j \in Toggles(Append(kept, c)) : i = j
        /\ ~(Toggles(Append(kept, c)) = {})
    BY <2>2, <2>3, Added, TogglePlaces
  <2>5. \A b \in BOOLEAN : ToggledTo(Append(kept, c), b)
                            <=> c = Toggle(b) \/ (~IsToggle(c) /\ ToggledTo(kept, b))
    BY <2>3, Added, Zenon
  <2>6. p.control = Append(kept, c) /\ p.input = input
    BY <2>1
  <2>7. p \in [control: Seq(Controls), input: Seq(Inputs)]
    BY <1>1, <2>1, <2>4
  <2>8. EdgesIn(p.input) = EdgesIn(input) \cup EdgesIn(<<c>>)
    BY <2>2, <2>6
  <2> HIDE DEF p
  <2>9. \A b \in BOOLEAN : ToggledTo(p.control, b)
                            <=> c = Toggle(b) \/ (~IsToggle(c) /\ ToggledTo(control, b))
    BY <2>2, <2>5, <2>6, Zenon
  <2> QED
    BY <2>2, <2>4, <2>6, <2>7, <2>8, <2>9, Zenon DEF p, control, input
<1>5. CASE c.kind = "refresh"
  <2> DEFINE next == IF Contains(control, Refresh) THEN control ELSE Append(control, c)
  <2>1. p = [control |-> next, input |-> input]
    <3>1. p = [pending EXCEPT !.control = next]
      BY <1>2, <1>5, Zenon DEF Buffer
    <3> QED
      BY <1>2, <3>1
  <2>2. c = Refresh /\ c \in Plain /\ c \in Controls /\ ~IsToggle(c) /\ EdgesIn(<<c>>) = {}
    <3>1. c = Refresh
      BY <1>5, CommandKinds
    <3> QED
      BY <3>1, CommandKinds, OneCommand DEF Plain, Controls
  <2>3. /\ Append(control, c) \in Seq(Controls)
        /\ \A i, j \in Toggles(Append(control, c)) : i = j
    <3>1. Append(control, c) \in Seq(Controls)
      BY <1>1, <2>2
    <3> QED
      BY <1>1, <2>2, <3>1, TogglePlaces, Zenon
  <2>4. /\ Toggles(Append(control, c)) = {} <=> Toggles(control) = {}
        /\ \A b \in BOOLEAN : ToggledTo(Append(control, c), b) <=> ToggledTo(control, b)
    BY <1>1, <2>2, PlainAdds
  <2>5. next = control \/ next = Append(control, c)
    OBVIOUS
  <2> HIDE DEF next
  <2>6. /\ next \in Seq(Controls) /\ \A i, j \in Toggles(next) : i = j
        /\ Toggles(next) = {} <=> Toggles(control) = {}
        /\ \A b \in BOOLEAN : ToggledTo(next, b) <=> ToggledTo(control, b)
    BY <1>1, <2>3, <2>4, <2>5, Zenon
  <2>7. p.control = next /\ p.input = input
    BY <2>1
  <2>8. p \in [control: Seq(Controls), input: Seq(Inputs)]
    BY <1>1, <2>1, <2>6
  <2>9. EdgesIn(p.input) = EdgesIn(input) \cup EdgesIn(<<c>>)
    BY <2>2, <2>7
  <2> HIDE DEF p
  <2> QED
    BY <1>3, <2>2, <2>6, <2>7, <2>8, <2>9, Zenon DEF p, control, input
<1>6. CASE c.kind \in {"move", "edge"}
  <2> DEFINE next == IF c.kind = "move" /\ input # <<>> /\ Last(input) = Move
                     THEN input ELSE Append(input, c)
  <2>1. p = [control |-> control, input |-> next]
    <3>1. CASE c.kind = "move"
      <4>1. c = Move
        BY <3>1, CommandKinds
      <4>2. p = [pending EXCEPT !.input = next]
        BY <1>2, <3>1, <4>1, Zenon DEF Buffer
      <4> QED
        BY <1>2, <4>2
    <3>2. CASE c.kind = "edge"
      <4>1. p = [pending EXCEPT !.input = next]
        BY <1>2, <3>2, Zenon DEF Buffer
      <4> QED
        BY <1>2, <4>1
    <3> QED
      BY <1>6, <3>1, <3>2
  <2>2. c \in Inputs /\ ~IsToggle(c)
    BY <1>6, CommandKinds DEF Inputs, IsToggle, IsEdge
  <2>3. next # Append(input, c) => EdgesIn(<<c>>) = {}
    <3>1. c.kind = "move" => ~IsEdge(c)
      BY DEF IsEdge
    <3> QED
      BY <3>1, OneCommand
  <2>4. /\ EdgesIn(Append(input, c)) = EdgesIn(input) \cup EdgesIn(<<c>>)
        /\ InOrder(input) /\ Before(EdgesIn(input), EdgesIn(<<c>>)) => InOrder(Append(input, c))
        /\ Append(input, c) \in Seq(Inputs)
    BY <1>1, <2>2, Added
  <2>5. next = input \/ next = Append(input, c)
    OBVIOUS
  <2> HIDE DEF next
  <2>6. /\ next \in Seq(Inputs) /\ EdgesIn(next) = EdgesIn(input) \cup EdgesIn(<<c>>)
        /\ InOrder(input) /\ Before(EdgesIn(input), EdgesIn(<<c>>)) => InOrder(next)
    <3>1. CASE next = Append(input, c)
      BY <2>4, <3>1, Zenon
    <3>2. CASE next # Append(input, c)
      <4>1. next = input /\ EdgesIn(<<c>>) = {}
        BY <2>3, <2>5, <3>2
      <4> QED
        BY <1>1, <4>1
    <3> QED
      BY <3>1, <3>2
  <2>7. p.control = control /\ p.input = next
    BY <2>1
  <2>8. p \in [control: Seq(Controls), input: Seq(Inputs)]
    BY <1>1, <2>1, <2>6
  <2> HIDE DEF p
  <2> QED
    BY <1>1, <1>3, <2>2, <2>6, <2>7, <2>8, Zenon DEF p, control, input
<1>7. CASE c.kind \notin {"suppress", "refresh", "move", "edge"}
  <2>1. p = pending
    BY <1>7, Zenon DEF Buffer
  <2>2. ~IsToggle(c) /\ ~IsEdge(c)
    BY <1>7 DEF IsToggle, IsEdge
  <2>3. EdgesIn(<<c>>) = {}
    BY <2>2, OneCommand
  <2>4. EdgesIn(p.input) = EdgesIn(input) \cup EdgesIn(<<c>>)
    BY <2>1, <2>3 DEF input
  <2> HIDE DEF p
  <2> QED
    BY <1>1, <1>3, <2>1, <2>2, <2>4, Zenon DEF p, control, input
<1> QED
  BY <1>4, <1>5, <1>6, <1>7

LEMMA DrainCommandKeeps ==
    ASSUME IInv, DrainCommand PROVE IInv'
<1> USE DEF IInv
<1> DEFINE c == Head(rx)
<1>1. /\ worker.pc \in {"connecting", "handshake", "reactivating"} /\ rx # <<>>
      /\ pending' = Buffer(pending, c) /\ rx' = Tail(rx)
      /\ UNCHANGED <<worker, latched, stop, caller, server, published, asked>>
  BY DEF DrainCommand, Draining
<1>2. /\ rx \in Seq(Command) /\ Len(rx) \in Nat /\ Len(rx) <= Depth /\ Depth \in Nat
      /\ asked.display \in BOOLEAN /\ latched \in BOOLEAN
  BY Fields, CommandBounds DEF Orderly
<1>3. /\ c \in Command /\ rx' \in Seq(Command) /\ Len(rx') <= Depth
      /\ Toggles(rx) = {} <=> ~IsToggle(c) /\ Toggles(rx') = {}
      /\ EdgesIn(rx) = EdgesIn(<<c>>) \cup EdgesIn(rx')
      /\ InOrder(rx) => InOrder(rx') /\ Before(EdgesIn(<<c>>), EdgesIn(rx'))
  <2>1. /\ c \in Command /\ Tail(rx) \in Seq(Command)
        /\ Toggles(rx) = {} <=> ~IsToggle(c) /\ Toggles(Tail(rx)) = {}
        /\ EdgesIn(rx) = EdgesIn(<<c>>) \cup EdgesIn(Tail(rx))
        /\ InOrder(rx) => InOrder(Tail(rx)) /\ Before(EdgesIn(<<c>>), EdgesIn(Tail(rx)))
    BY <1>1, <1>2, Taken, Zenon
  <2>2. Len(Tail(rx)) <= Depth
    BY <1>1, <1>2, HeadTailProperties
  <2> QED
    BY <1>1, <2>1, <2>2, Zenon
<1>4. \A b \in BOOLEAN : ToggledTo(rx, b)
                           <=> ToggledTo(rx', b) \/ (Toggles(rx') = {} /\ c = Toggle(b))
  BY <1>1, <1>2, Taken, Zenon
<1> HIDE DEF c
<1>13. \A k \in Command : k = c =>
        /\ pending' \in [control: Seq(Controls), input: Seq(Inputs)]
        /\ \A i, j \in Toggles(pending'.control) : i = j
        /\ \A b \in BOOLEAN : ToggledTo(pending'.control, b)
               <=> k = Toggle(b) \/ (~IsToggle(k) /\ ToggledTo(pending.control, b))
        /\ Toggles(pending'.control) = {} <=> ~IsToggle(k) /\ Toggles(pending.control) = {}
        /\ EdgesIn(pending'.input) = EdgesIn(pending.input) \cup EdgesIn(<<k>>)
        /\ InOrder(pending.input) /\ Before(EdgesIn(pending.input), EdgesIn(<<k>>))
               => InOrder(pending'.input)
  <2> SUFFICES ASSUME NEW k \in Command, pending' = Buffer(pending, k)
               PROVE
        /\ pending' \in [control: Seq(Controls), input: Seq(Inputs)]
        /\ \A i, j \in Toggles(pending'.control) : i = j
        /\ \A b \in BOOLEAN : ToggledTo(pending'.control, b)
               <=> k = Toggle(b) \/ (~IsToggle(k) /\ ToggledTo(pending.control, b))
        /\ Toggles(pending'.control) = {} <=> ~IsToggle(k) /\ Toggles(pending.control) = {}
        /\ EdgesIn(pending'.input) = EdgesIn(pending.input) \cup EdgesIn(<<k>>)
        /\ InOrder(pending.input) /\ Before(EdgesIn(pending.input), EdgesIn(<<k>>))
               => InOrder(pending'.input)
    BY <1>1
  <2> QED
    BY Buffered, Zenon
<1>5. /\ pending' \in [control: Seq(Controls), input: Seq(Inputs)]
      /\ \A i, j \in Toggles(pending'.control) : i = j
      /\ \A b \in BOOLEAN : ToggledTo(pending'.control, b)
             <=> c = Toggle(b) \/ (~IsToggle(c) /\ ToggledTo(pending.control, b))
      /\ Toggles(pending'.control) = {} <=> ~IsToggle(c) /\ Toggles(pending.control) = {}
  BY <1>3, <1>13, Zenon
<1>6. /\ EdgesIn(pending'.input) = EdgesIn(pending.input) \cup EdgesIn(<<c>>)
      /\ InOrder(pending.input) /\ Before(EdgesIn(pending.input), EdgesIn(<<c>>))
             => InOrder(pending'.input)
  BY <1>3, <1>13, Zenon
<1>7. TypeOK'
  BY <1>1, <1>3, <1>5 DEF TypeOK
<1>8. Orderly'
  BY <1>1, <1>3, <1>5 DEF Orderly
<1>9. CallUnderWay'
  <2> DEFINE d == asked.display
  <2>1. \/ caller.cmd = Toggle(d)
        \/ /\ ~IsToggle(caller.cmd)
           /\ \/ ToggledTo(rx, d)
              \/ Toggles(rx) = {} /\ Leads(pending.control, ~latched, d)
    BY <1>1, Zenon DEF CallUnderWay
  <2>2. d \in BOOLEAN
    BY <1>2
  <2> HIDE DEF d
  <2>3. ToggledTo(rx, d)
            => ToggledTo(rx', d) \/ (Toggles(rx') = {} /\ ToggledTo(pending'.control, d))
    BY <1>4, <1>5, <2>2, Zenon
  <2>4. Toggles(rx) = {} /\ Leads(pending.control, ~latched, d)
            => Toggles(rx') = {} /\ Leads(pending'.control, ~latched, d)
    BY <1>3, <1>5, <2>2, Zenon DEF Leads
  <2>5. \/ caller.cmd = Toggle(d)
        \/ /\ ~IsToggle(caller.cmd)
           /\ \/ ToggledTo(rx', d)
              \/ Toggles(rx') = {} /\ Leads(pending'.control, ~latched, d)
    BY <2>1, <2>3, <2>4, Zenon DEF Leads
  <2> QED
    BY <1>1, <2>5, Zenon DEF CallUnderWay, d
<1>10. Believed'
  <2>1. Connected' <=> Connected
    BY <1>1 DEF Connected
  <2> QED
    BY <1>1, <1>5, <2>1, Zenon DEF Believed
<1>11. Numbered'
  BY <1>1 DEF Numbered
<1>12. InPieces'
  <2> SUFFICES ASSUME Connected PROVE InPieces'
    BY <1>1 DEF InPieces, Connected
  <2> DEFINE sent == EdgesIn(server.edges)
             aside == EdgesIn(pending.input)
             mine == EdgesIn(<<c>>)
             rest == EdgesIn(rx')
             own == EdgesIn(<<caller.cmd>>)
  <2>1. /\ asked.edges = sent \cup aside \cup (mine \cup rest) \cup own
        /\ InOrder(server.edges) /\ InOrder(pending.input) /\ InOrder(rx)
        /\ Before(sent, aside \cup (mine \cup rest) \cup own)
        /\ Before(aside, (mine \cup rest) \cup own) /\ Before(mine \cup rest, own)
    BY <1>3 DEF InPieces
  <2>2. EdgesIn(pending'.input) = aside \cup mine /\ InOrder(rx') /\ Before(mine, rest)
    BY <1>3, <1>6, <2>1
  <2>3. InOrder(pending'.input)
    <3>1. Before(aside, mine)
      BY <2>1 DEF Before
    <3> QED
      BY <1>6, <2>1, <3>1
  <2> HIDE DEF sent, aside, mine, rest, own
  <2>4. /\ asked.edges = sent \cup (aside \cup mine) \cup rest \cup own
        /\ Before(sent, (aside \cup mine) \cup rest \cup own)
        /\ Before(aside \cup mine, rest \cup own) /\ Before(rest, own)
    BY <2>1, <2>2 DEF Before
  <2> QED
    BY <1>1, <2>1, <2>2, <2>3, <2>4 DEF InPieces, sent, rest, own
<1> QED
  BY <1>7, <1>8, <1>9, <1>10, <1>11, <1>12

\* One command is sent.
LEMMA Dispatched ==
    ASSUME IInv, NEW c \in Command, Dispatch(c)
    PROVE  /\ ~IsToggle(c) => latched' = latched /\ server'.display = server.display
           /\ IsToggle(c) => latched' = ~c.allow /\ server'.display = c.allow /\ c.allow \in BOOLEAN
           /\ latched' \in BOOLEAN /\ server' \in [display: BOOLEAN, edges: Seq(AnyEdge)]
           /\ EdgesIn(server'.edges) = EdgesIn(server.edges) \cup EdgesIn(<<c>>)
           /\ InOrder(server.edges) /\ Before(EdgesIn(server.edges), EdgesIn(<<c>>))
                  => InOrder(server'.edges)
           /\ asked' \in [display: BOOLEAN, edges: SUBSET AnyEdge, refresh: BOOLEAN,
                           presses: 0..MaxPresses, controls: 0..MaxControls]
           /\ asked'.display = asked.display /\ asked'.edges = asked.edges
           /\ asked'.presses = asked.presses
<1>1. /\ server \in [display: BOOLEAN, edges: Seq(AnyEdge)] /\ latched \in BOOLEAN
      /\ server.edges \in Seq(Command)
      /\ asked \in [display: BOOLEAN, edges: SUBSET AnyEdge, refresh: BOOLEAN,
                    presses: 0..MaxPresses, controls: 0..MaxControls]
  BY Fields DEF IInv, TypeOK
<1>2. asked' = asked \/ asked' = [asked EXCEPT !.refresh = FALSE]
  BY DEF Dispatch
<1>3. /\ asked' \in [display: BOOLEAN, edges: SUBSET AnyEdge, refresh: BOOLEAN,
                      presses: 0..MaxPresses, controls: 0..MaxControls]
      /\ asked'.display = asked.display /\ asked'.edges = asked.edges
      /\ asked'.presses = asked.presses
  BY <1>1, <1>2
<1>4. CASE IsToggle(c)
  <2>1. c.allow \in BOOLEAN /\ ~IsEdge(c)
    BY <1>4, CommandKinds
  <2>2. latched' = ~c.allow /\ server' = [server EXCEPT !.display = c.allow]
    <3>1. latched' = IF IsToggle(c) THEN ~c.allow ELSE latched
      BY DEF Dispatch
    <3>2. latched' = ~c.allow
      BY <1>4, <2>1, <3>1
    <3>3. server' = [server EXCEPT !.display = c.allow]
      BY <1>4, <2>1 DEF Dispatch
    <3> QED
      BY <3>2, <3>3
  <2>3. /\ server' \in [display: BOOLEAN, edges: Seq(AnyEdge)]
        /\ server'.display = c.allow /\ server'.edges = server.edges
    BY <1>1, <2>1, <2>2
  <2>4. EdgesIn(<<c>>) = {}
    BY <2>1, OneCommand
  <2>5. EdgesIn(server'.edges) = EdgesIn(server.edges) \cup EdgesIn(<<c>>)
    BY <2>3, <2>4
  <2> QED
    BY <1>3, <1>4, <2>1, <2>2, <2>3, <2>5
<1>5. CASE IsEdge(c)
  <2>1. ~IsToggle(c) /\ c \in AnyEdge
    BY <1>5, CommandKinds
  <2>2. latched' = latched /\ server' = [server EXCEPT !.edges = Append(server.edges, c)]
    BY <1>5, <2>1, Zenon DEF Dispatch
  <2>3. /\ server' \in [display: BOOLEAN, edges: Seq(AnyEdge)]
        /\ server'.display = server.display /\ server'.edges = Append(server.edges, c)
    <3>1. Append(server.edges, c) \in Seq(AnyEdge)
      BY <1>1, <2>1
    <3> QED
      BY <1>1, <2>2, <3>1
  <2> DEFINE more == Append(server.edges, c)
  <2>4. /\ EdgesIn(more) = EdgesIn(server.edges) \cup EdgesIn(<<c>>)
        /\ InOrder(server.edges) /\ Before(EdgesIn(server.edges), EdgesIn(<<c>>)) => InOrder(more)
    BY <1>1, Added
  <2> HIDE DEF more
  <2>5. server'.edges = more
    BY <2>3 DEF more
  <2> QED
    BY <1>1, <1>3, <2>1, <2>2, <2>3, <2>4, <2>5
<1>6. CASE ~IsToggle(c) /\ ~IsEdge(c)
  <2>1. latched' = latched /\ server' = server
    BY <1>6, Zenon DEF Dispatch
  <2>2. EdgesIn(<<c>>) = {}
    BY <1>6, OneCommand
  <2>3. EdgesIn(server'.edges) = EdgesIn(server.edges) \cup EdgesIn(<<c>>)
    BY <2>1, <2>2
  <2> QED
    BY <1>1, <1>3, <1>6, <2>1, <2>3
<1> QED
  BY <1>4, <1>5, <1>6

LEMMA SendControlKeeps ==
    ASSUME IInv, SendControl PROVE IInv'
<1> USE DEF IInv
<1> DEFINE control == pending.control
           c == Head(control)
           rest == Tail(control)
<1>1. /\ worker.pc = "input" /\ control # <<>> /\ Dispatch(c)
      /\ pending' = [pending EXCEPT !.control = rest]
      /\ UNCHANGED <<worker, rx, stop, caller, published>>
  BY DEF SendControl
<1>2. /\ control \in Seq(Controls) /\ control \in Seq(Command)
      /\ \A i, j \in Toggles(control) : i = j
      /\ pending \in [control: Seq(Controls), input: Seq(Inputs)]
      /\ asked.display \in BOOLEAN /\ latched \in BOOLEAN
  BY Fields DEF TypeOK, Orderly
<1>3. /\ c \in Command /\ c \in Controls /\ rest \in Seq(Controls) /\ rest \in Seq(Command)
      /\ Toggles(control) = {} <=> ~IsToggle(c) /\ Toggles(rest) = {}
      /\ \A i, j \in Toggles(rest) : i = j
      /\ IsToggle(c) => Toggles(rest) = {}
  <2>1. /\ c \in Command /\ rest \in Seq(Command)
        /\ Toggles(control) = {} <=> ~IsToggle(c) /\ Toggles(rest) = {}
    BY <1>1, <1>2, Taken, Zenon
  <2>2. c \in Controls /\ rest \in Seq(Controls)
    BY <1>1, <1>2, HeadTailProperties
  <2>3. (\A i, j \in Toggles(rest) : i = j) /\ (IsToggle(c) => Toggles(rest) = {})
    <3> HIDE DEF control
    <3>1. control \in Seq(Command) /\ control # <<>> /\ \A i, j \in Toggles(control) : i = j
      BY <1>1, <1>2
    <3> QED
      BY <3>1, ToggleTaken, Zenon DEF c, rest
  <2> QED
    BY <2>1, <2>2, <2>3
<1>4. \A b \in BOOLEAN : ToggledTo(control, b)
                           <=> ToggledTo(rest, b) \/ (Toggles(rest) = {} /\ c = Toggle(b))
  BY <1>1, <1>2, Taken, Zenon
<1>5. pending'.control = rest /\ pending'.input = pending.input
      /\ pending' \in [control: Seq(Controls), input: Seq(Inputs)]
  BY <1>1, <1>2, <1>3
<1> HIDE DEF control, c, rest
<1>6. /\ ~IsToggle(c) => latched' = latched /\ server'.display = server.display
      /\ IsToggle(c) => latched' = ~c.allow /\ server'.display = c.allow /\ c.allow \in BOOLEAN
      /\ latched' \in BOOLEAN /\ server' \in [display: BOOLEAN, edges: Seq(AnyEdge)]
  BY <1>1, <1>3, Dispatched
<1>7. /\ EdgesIn(server'.edges) = EdgesIn(server.edges) \cup EdgesIn(<<c>>)
      /\ InOrder(server.edges) /\ Before(EdgesIn(server.edges), EdgesIn(<<c>>))
             => InOrder(server'.edges)
  BY <1>1, <1>3, Dispatched
<1>8. /\ asked' \in [display: BOOLEAN, edges: SUBSET AnyEdge, refresh: BOOLEAN,
                      presses: 0..MaxPresses, controls: 0..MaxControls]
      /\ asked'.display = asked.display /\ asked'.edges = asked.edges
      /\ asked'.presses = asked.presses
  BY <1>1, <1>3, Dispatched
<1>9. TypeOK'
  BY <1>1, <1>5, <1>6, <1>8 DEF TypeOK
<1>10. Orderly'
  BY <1>1, <1>3, <1>5 DEF Orderly
<1>11. CallUnderWay'
  <2> DEFINE d == asked.display
  <2>1. d \in BOOLEAN /\ asked'.display = d
    BY <1>2, <1>8
  <2>2. \/ caller.cmd = Toggle(d)
        \/ /\ ~IsToggle(caller.cmd)
           /\ \/ ToggledTo(rx, d)
              \/ Toggles(rx) = {} /\ Leads(control, ~latched, d)
    BY <1>1, Zenon DEF CallUnderWay, control
  <2> HIDE DEF d
  <2>3. Leads(control, ~latched, d) => Leads(rest, ~latched', d)
    <3>1. CASE IsToggle(c)
      <4>1. Toggles(rest) = {} /\ Toggles(control) # {}
        BY <1>3, <3>1
      <4>2. \A b \in BOOLEAN : ~ToggledTo(rest, b)
        BY <4>1, CommandKinds DEF ToggledTo, Toggles
      <4>3. Leads(control, ~latched, d) => c = Toggle(d)
        BY <1>4, <2>1, <4>1, <4>2, Zenon DEF Leads
      <4>4. c = Toggle(d) => c.allow = d
        BY <2>1, CommandKinds
      <4>5. Leads(control, ~latched, d) => (~latched') = d
        BY <1>6, <2>1, <3>1, <4>3, <4>4
      <4> QED
        BY <4>1, <4>5, Zenon DEF Leads
    <3>2. CASE ~IsToggle(c)
      <4>1. c # Toggle(d)
        BY <2>1, <3>2, CommandKinds
      <4>2. Leads(control, ~latched, d) => Leads(rest, ~latched, d)
        BY <1>3, <1>4, <2>1, <3>2, <4>1, Zenon DEF Leads
      <4>3. latched' = latched
        BY <1>6, <3>2
      <4> QED
        BY <4>2, <4>3
    <3> QED
      BY <3>1, <3>2
  <2>4. \/ caller.cmd = Toggle(d)
        \/ /\ ~IsToggle(caller.cmd)
           /\ \/ ToggledTo(rx, d)
              \/ Toggles(rx) = {} /\ Leads(rest, ~latched', d)
    BY <2>2, <2>3, Zenon
  <2> QED
    BY <1>1, <1>5, <2>1, <2>4, Zenon DEF CallUnderWay
<1>12. Believed'
  <2>1. CASE IsToggle(c)
    BY <1>6, <2>1 DEF Believed
  <2>2. CASE ~IsToggle(c)
    <3>1. Connected' <=> Connected
      BY <1>1 DEF Connected
    <3> QED
      BY <1>3, <1>5, <1>6, <2>2, <3>1 DEF Believed, control
  <2> QED
    BY <2>1, <2>2
<1>13. Numbered'
  BY <1>1, <1>8 DEF Numbered
<1>14. InPieces'
  <2>1. EdgesIn(<<c>>) = {}
    BY <1>3, Kinds, OneCommand
  <2>2. /\ EdgesIn(server'.edges) = EdgesIn(server.edges)
        /\ InOrder(server.edges) => InOrder(server'.edges)
    BY <1>7, <2>1 DEF Before
  <2>3. Connected' <=> Connected
    BY <1>1 DEF Connected
  <2> QED
    BY <1>1, <1>5, <1>8, <2>2, <2>3, Zenon DEF InPieces
<1> QED
  BY <1>9, <1>10, <1>11, <1>12, <1>13, <1>14

LEMMA SendInputKeeps ==
    ASSUME IInv, SendInput PROVE IInv'
<1> USE DEF IInv
<1> DEFINE input == pending.input
           c == Head(input)
           rest == Tail(input)
<1>1. /\ worker.pc = "input" /\ pending.control = <<>> /\ input # <<>> /\ Dispatch(c)
      /\ pending' = [pending EXCEPT !.input = rest]
      /\ UNCHANGED <<worker, rx, stop, caller, published>>
  BY DEF SendInput
<1>2. /\ input \in Seq(Inputs) /\ input \in Seq(Command)
      /\ pending \in [control: Seq(Controls), input: Seq(Inputs)]
  BY Fields DEF TypeOK
<1>3. /\ c \in Command /\ rest \in Seq(Command)
      /\ EdgesIn(input) = EdgesIn(<<c>>) \cup EdgesIn(rest)
      /\ InOrder(input) => InOrder(rest) /\ Before(EdgesIn(<<c>>), EdgesIn(rest))
  BY <1>1, <1>2, Taken, Zenon
<1>4. c \in Inputs /\ rest \in Seq(Inputs)
  BY <1>1, <1>2, HeadTailProperties
<1>5. pending'.control = pending.control /\ pending'.input = rest
      /\ pending' \in [control: Seq(Controls), input: Seq(Inputs)]
  BY <1>1, <1>2, <1>4
<1> HIDE DEF input, c, rest
<1>6. ~IsToggle(c)
  BY <1>4, Kinds
<1>7. /\ latched' = latched /\ server'.display = server.display
      /\ latched' \in BOOLEAN /\ server' \in [display: BOOLEAN, edges: Seq(AnyEdge)]
      /\ EdgesIn(server'.edges) = EdgesIn(server.edges) \cup EdgesIn(<<c>>)
      /\ InOrder(server.edges) /\ Before(EdgesIn(server.edges), EdgesIn(<<c>>))
             => InOrder(server'.edges)
  BY <1>1, <1>3, <1>6, Dispatched, Zenon
<1>8. /\ asked' \in [display: BOOLEAN, edges: SUBSET AnyEdge, refresh: BOOLEAN,
                      presses: 0..MaxPresses, controls: 0..MaxControls]
      /\ asked'.display = asked.display /\ asked'.edges = asked.edges
      /\ asked'.presses = asked.presses
  BY <1>1, <1>3, Dispatched, Zenon
<1>9. TypeOK'
  BY <1>1, <1>5, <1>7, <1>8 DEF TypeOK
<1>10. Orderly'
  BY <1>1, <1>5 DEF Orderly
<1>11. CallUnderWay'
  BY <1>1, <1>5, <1>7, <1>8, Zenon DEF CallUnderWay
<1>12. Connected' <=> Connected
  BY <1>1 DEF Connected
<1>13. Believed'
  BY <1>5, <1>7, <1>12, Zenon DEF Believed
<1>14. Numbered'
  BY <1>1, <1>8 DEF Numbered
<1>15. InPieces'
  <2> SUFFICES ASSUME Connected PROVE InPieces'
    BY <1>12 DEF InPieces
  <2> DEFINE sent == EdgesIn(server.edges)
             mine == EdgesIn(<<c>>)
             left == EdgesIn(rest)
             queued == EdgesIn(rx)
             own == EdgesIn(<<caller.cmd>>)
  <2>1. /\ asked.edges = sent \cup (mine \cup left) \cup queued \cup own
        /\ InOrder(server.edges) /\ InOrder(input) /\ InOrder(rx)
        /\ Before(sent, (mine \cup left) \cup queued \cup own)
        /\ Before(mine \cup left, queued \cup own) /\ Before(queued, own)
    BY <1>3 DEF InPieces, input
  <2>2. EdgesIn(server'.edges) = sent \cup mine /\ InOrder(rest) /\ Before(mine, left)
    BY <1>3, <1>7, <2>1
  <2>3. InOrder(server'.edges)
    <3>1. Before(sent, mine)
      BY <2>1 DEF Before
    <3> QED
      BY <1>7, <2>1, <3>1
  <2> HIDE DEF sent, mine, left, queued, own
  <2>4. /\ asked.edges = (sent \cup mine) \cup left \cup queued \cup own
        /\ Before(sent \cup mine, left \cup queued \cup own)
        /\ Before(left, queued \cup own) /\ Before(queued, own)
    BY <2>1, <2>2 DEF Before
  <2> QED
    BY <1>1, <1>5, <1>8, <2>1, <2>2, <2>3, <2>4, Zenon DEF InPieces, left, queued, own
<1> QED
  BY <1>9, <1>10, <1>11, <1>13, <1>14, <1>15

LEMMA SendNextKeeps ==
    ASSUME IInv, SendNext PROVE IInv'
<1> USE DEF IInv
<1> DEFINE c == Head(rx)
           rest == Tail(rx)
<1>1. /\ worker.pc = "input" /\ pending = NothingPending /\ rx # <<>> /\ Dispatch(c)
      /\ rx' = rest
      /\ UNCHANGED <<worker, pending, stop, caller, published>>
  BY DEF SendNext
<1>2. /\ rx \in Seq(Command) /\ Len(rx) \in Nat /\ Len(rx) <= Depth /\ Depth \in Nat
      /\ asked.display \in BOOLEAN /\ latched \in BOOLEAN
  BY Fields, CommandBounds DEF Orderly
<1>3. /\ c \in Command /\ rest \in Seq(Command)
      /\ Toggles(rx) = {} <=> ~IsToggle(c) /\ Toggles(rest) = {}
      /\ EdgesIn(rx) = EdgesIn(<<c>>) \cup EdgesIn(rest)
      /\ InOrder(rx) => InOrder(rest) /\ Before(EdgesIn(<<c>>), EdgesIn(rest))
  BY <1>1, <1>2, Taken, Zenon
<1>4. \A b \in BOOLEAN : ToggledTo(rx, b)
                           <=> ToggledTo(rest, b) \/ (Toggles(rest) = {} /\ c = Toggle(b))
  BY <1>1, <1>2, Taken, Zenon
<1>5. Len(rest) <= Depth
  BY <1>1, <1>2, HeadTailProperties
<1> HIDE DEF c, rest
<1>6. /\ ~IsToggle(c) => latched' = latched /\ server'.display = server.display
      /\ IsToggle(c) => latched' = ~c.allow /\ server'.display = c.allow /\ c.allow \in BOOLEAN
      /\ latched' \in BOOLEAN /\ server' \in [display: BOOLEAN, edges: Seq(AnyEdge)]
  BY <1>1, <1>3, Dispatched
<1>7. /\ EdgesIn(server'.edges) = EdgesIn(server.edges) \cup EdgesIn(<<c>>)
      /\ InOrder(server.edges) /\ Before(EdgesIn(server.edges), EdgesIn(<<c>>))
             => InOrder(server'.edges)
  BY <1>1, <1>3, Dispatched
<1>8. /\ asked' \in [display: BOOLEAN, edges: SUBSET AnyEdge, refresh: BOOLEAN,
                      presses: 0..MaxPresses, controls: 0..MaxControls]
      /\ asked'.display = asked.display /\ asked'.edges = asked.edges
      /\ asked'.presses = asked.presses
  BY <1>1, <1>3, Dispatched
<1>9. /\ pending.control = <<>> /\ Toggles(pending.control) = {}
      /\ \A b \in BOOLEAN : ~ToggledTo(pending.control, b)
  BY <1>1, NoCommands DEF NothingPending
<1>10. TypeOK'
  BY <1>1, <1>3, <1>6, <1>8 DEF TypeOK
<1>11. Orderly'
  BY <1>1, <1>5 DEF Orderly
<1>12. CallUnderWay'
  <2> DEFINE d == asked.display
  <2>1. d \in BOOLEAN /\ asked'.display = d
    BY <1>2, <1>8
  <2>2. \/ caller.cmd = Toggle(d)
        \/ /\ ~IsToggle(caller.cmd)
           /\ \/ ToggledTo(rx, d)
              \/ Toggles(rx) = {} /\ Leads(pending.control, ~latched, d)
    BY <1>1, Zenon DEF CallUnderWay
  <2> HIDE DEF d
  <2>3. ToggledTo(rx, d) => ToggledTo(rest, d) \/ (Toggles(rest) = {} /\ (~latched') = d)
    <3>1. c = Toggle(d) => IsToggle(c) /\ c.allow = d
      BY <2>1, CommandKinds
    <3>2. c = Toggle(d) => (~latched') = d
      BY <1>6, <2>1, <3>1
    <3> QED
      BY <1>4, <2>1, <3>2, Zenon
  <2>4. Toggles(rx) = {} /\ Leads(pending.control, ~latched, d)
            => Toggles(rest) = {} /\ (~latched') = d
    <3>1. Leads(pending.control, ~latched, d) => (~latched) = d
      BY <1>9, <2>1, Zenon DEF Leads
    <3>2. Toggles(rx) = {} => Toggles(rest) = {} /\ latched' = latched
      BY <1>3, <1>6
    <3> QED
      BY <3>1, <3>2
  <2>5. \/ caller.cmd = Toggle(d)
        \/ /\ ~IsToggle(caller.cmd)
           /\ \/ ToggledTo(rest, d)
              \/ Toggles(rest) = {} /\ Leads(pending.control, ~latched', d)
    BY <1>9, <2>2, <2>3, <2>4, Zenon DEF Leads
  <2> QED
    BY <1>1, <2>1, <2>5, Zenon DEF CallUnderWay
<1>13. Connected' <=> Connected
  BY <1>1 DEF Connected
<1>14. Believed'
  <2>1. CASE IsToggle(c)
    BY <1>6, <2>1 DEF Believed
  <2>2. CASE ~IsToggle(c)
    BY <1>1, <1>6, <1>13, <2>2 DEF Believed
  <2> QED
    BY <2>1, <2>2
<1>15. Numbered'
  BY <1>1, <1>8 DEF Numbered
<1>16. InPieces'
  <2> SUFFICES ASSUME Connected PROVE InPieces'
    BY <1>13 DEF InPieces
  <2> DEFINE sent == EdgesIn(server.edges)
             mine == EdgesIn(<<c>>)
             left == EdgesIn(rest)
             own == EdgesIn(<<caller.cmd>>)
  <2>1. EdgesIn(pending.input) = {} /\ InOrder(pending.input)
    BY <1>1, NoCommands DEF NothingPending
  <2>2. /\ asked.edges = sent \cup (mine \cup left) \cup own
        /\ InOrder(server.edges) /\ InOrder(rx)
        /\ Before(sent, (mine \cup left) \cup own) /\ Before(mine \cup left, own)
    <3>1. /\ asked.edges = sent \cup {} \cup (mine \cup left) \cup own
          /\ Before(sent, {} \cup (mine \cup left) \cup own)
          /\ InOrder(server.edges) /\ InOrder(rx) /\ Before(mine \cup left, own)
      BY <1>3, <2>1 DEF InPieces
    <3>2. \A S, T : S \cup {} \cup T = S \cup T /\ {} \cup T = T
      OBVIOUS
    <3> HIDE DEF sent, mine, left, own
    <3> QED
      BY <3>1, <3>2
  <2>3. EdgesIn(server'.edges) = sent \cup mine /\ InOrder(rest) /\ Before(mine, left)
    BY <1>3, <1>7, <2>2
  <2>4. InOrder(server'.edges)
    <3>1. Before(sent, mine)
      BY <2>2 DEF Before
    <3> QED
      BY <1>7, <2>2, <3>1
  <2> HIDE DEF sent, mine, left, own
  <2>5. /\ asked.edges = (sent \cup mine) \cup {} \cup left \cup own
        /\ Before(sent \cup mine, {} \cup left \cup own)
        /\ Before({}, left \cup own) /\ Before(left, own)
    BY <2>2, <2>3 DEF Before
  <2> QED
    BY <1>1, <1>8, <2>1, <2>2, <2>3, <2>4, <2>5, Zenon DEF InPieces, left, own
<1> QED
  BY <1>10, <1>11, <1>12, <1>14, <1>15, <1>16

-----------------------------------------------------------------------------
(* The theorems. *)

LEMMA InitHolds == Init => IInv
<1> SUFFICES ASSUME Init PROVE IInv
  OBVIOUS
<1>1. /\ worker = [pc |-> "connecting", attempt |-> 1, reactivations |-> 0]
      /\ rx = <<>> /\ pending = [control |-> <<>>, input |-> <<>>]
      /\ latched = FALSE /\ stop = FALSE
      /\ caller = [pc |-> "idle", cmd |-> Ready]
      /\ server = [display |-> TRUE, edges |-> <<>>] /\ server = NewConnection
      /\ published = "connecting"
      /\ asked = [display |-> TRUE, edges |-> {}, refresh |-> FALSE,
                  presses |-> 0, controls |-> 0]
  BY DEF Init, NothingPending, NewConnection, Awake
<1>2. /\ Ready \in Command /\ ~IsToggle(Ready) /\ ~IsEdge(Ready)
      /\ EdgesIn(<<Ready>>) = {}
  BY CommandKinds, OneCommand
<1>3. MaxPresses \in Nat /\ MaxControls \in Nat /\ Depth \in Nat
  BY CommandBounds
<1>4. TypeOK
  <2>1. <<>> \in Seq(Command) /\ <<>> \in Seq(Controls) /\ <<>> \in Seq(Inputs)
        /\ <<>> \in Seq(AnyEdge) /\ {} \in SUBSET AnyEdge /\ 0 \in 0..MaxPresses
        /\ 0 \in 0..MaxControls
    BY <1>3
  <2>2. worker \in [pc: Phases, attempt: Nat, reactivations: Nat]
    BY <1>1 DEF Phases
  <2>3. /\ pending \in [control: Seq(Controls), input: Seq(Inputs)]
        /\ server \in [display: BOOLEAN, edges: Seq(AnyEdge)]
        /\ caller \in [pc: {"idle", "sending", "joining", "stopped"}, cmd: Command]
    BY <1>1, <1>2, <2>1
  <2>4. asked \in [display: BOOLEAN, edges: SUBSET AnyEdge, refresh: BOOLEAN,
                   presses: 0..MaxPresses, controls: 0..MaxControls]
    BY <1>1, <2>1
  <2> QED
    BY <1>1, <2>1, <2>2, <2>3, <2>4 DEF TypeOK
<1>5. Orderly
  BY <1>1, <1>3, NoCommands DEF Orderly
<1>6. CallUnderWay
  <2>1. caller.cmd = Ready /\ asked.display = TRUE /\ pending.control = <<>>
    BY <1>1
  <2>2. (~latched) = TRUE
    BY <1>1
  <2>3. Toggles(<<>>) = {}
    BY NoCommands
  <2> QED
    BY <1>1, <1>2, <2>1, <2>2, <2>3, Zenon DEF CallUnderWay, Leads
<1>7. Believed /\ InPieces
  BY <1>1 DEF Believed, InPieces, Connected
<1>8. Numbered
  BY <1>1, <1>2 DEF Numbered
<1> QED
  BY <1>4, <1>5, <1>6, <1>7, <1>8 DEF IInv

LEMMA NextKeeps ==
    ASSUME IInv, [Next]_vars PROVE IInv'
<1>1. CASE Caller
  BY <1>1, PointerMoveKeeps, PressKeeps, RequestRefreshKeeps, SendReturnsKeeps, SessionStopKeeps,
     JoinReturnsKeeps, SetSuppressOutputKeeps, Zenon DEF Caller
<1>2. CASE MediaReady
  BY <1>2, MediaReadyKeeps
<1>3. CASE Turn
  <2>1. DrainStops \/ LoopStops => Finish
    BY DEF DrainStops, LoopStops
  <2> QED
    BY <1>3, <2>1, FinishKeeps, DrainCommandKeeps, SendControlKeeps, SendInputKeeps,
       SendNextKeeps, PhasesKeep, ActivateKeeps, ReconnectKeeps, Zenon DEF Turn
<1>4. CASE Server
  <2>1. Fail => Finish
    BY DEF Fail
  <2> QED
    BY <1>4, <2>1, FinishKeeps, HandoffKeeps, RecoverBitmapKeeps, PhasesKeep, Zenon DEF Server
<1>5. CASE UNCHANGED vars
  <2>1. UNCHANGED <<worker, rx, pending, latched, stop, caller, server, published, asked>>
    BY <1>5 DEF vars
  <2>2. TypeOK'
    BY <2>1 DEF IInv, TypeOK
  <2>3. Orderly'
    BY <2>1 DEF IInv, Orderly
  <2>4. CallUnderWay' /\ Believed' /\ Numbered' /\ InPieces'
    <3>1. Connected' <=> Connected
      BY <2>1 DEF Connected
    <3> QED
      BY <2>1, <3>1, Unmoved
  <2> QED
    BY <2>2, <2>3, <2>4 DEF IInv
<1> QED
  BY <1>1, <1>2, <1>3, <1>4, <1>5 DEF Next

\* The inductive invariant: the last suppress call is under way or believed by the worker,
\* and the edges of the connection lie in order in the places they pass through.
THEOREM Invariance == Spec => []IInv
<1>1. IInv /\ [Next]_vars => IInv'
  BY NextKeeps
<1> QED
  BY <1>1, InitHolds, PTL DEF Spec

\* Every command in the channel, aside or with the caller is one the shell can issue, and
\* the last toggle is never put aside with another (enqueue_command, drain_commands).
THEOREM TypeCorrect == Spec => []TypeOK
<1>1. IInv => TypeOK
  BY DEF IInv
<1> QED
  BY <1>1, Invariance, PTL

\* On a connection with no suppress call left to send, the server displays exactly when the
\* last call said so, however the calls fell between a connection, a reactivation, a
\* handoff and the turns of drain_input (drain_commands, reset_session_state, run_active).
THEOREM LastWins == Spec => []LastToggleWins
<1>1. IInv => LastToggleWins
  <2> SUFFICES ASSUME IInv, Connected, Toggles(Waiting) = {}
               PROVE  server.display = asked.display
    BY DEF LastToggleWins
  <2> DEFINE own == <<caller.cmd>>
             aside == pending.control \o pending.input
  <2>1. /\ rx \in Seq(Command) /\ pending.control \in Seq(Command)
        /\ pending.input \in Seq(Command) /\ caller.cmd \in Command
        /\ asked.display \in BOOLEAN
    BY Fields DEF IInv
  <2>2. own \in Seq(Command) /\ (Toggles(own) = {} <=> ~IsToggle(caller.cmd))
    BY <2>1, OneCommand, Zenon
  <2>3. aside \in Seq(Command) /\ aside \o rx \in Seq(Command)
    BY <2>1
  <2>4. Waiting = (aside \o rx) \o own
    BY DEF Waiting
  <2> HIDE DEF own, aside
  <2>5. Toggles(aside) = {} /\ Toggles(rx) = {} /\ ~IsToggle(caller.cmd)
    BY <2>1, <2>2, <2>3, <2>4, ToggleJoined, Zenon
  <2>6. Toggles(pending.control) = {}
    BY <2>1, <2>5, ToggleJoined, Zenon DEF aside
  <2>7. worker.pc # "done" /\ server.display = ~latched
    BY <2>6 DEF IInv, Believed, Connected
  <2>8. \A b \in BOOLEAN : IsToggle(Toggle(b))
    BY CommandKinds
  <2>9. ~ToggledTo(rx, asked.display) /\ ~ToggledTo(pending.control, asked.display)
    BY <2>1, <2>5, <2>6, <2>8 DEF ToggledTo, Toggles
  <2>10. caller.cmd # Toggle(asked.display)
    BY <2>1, <2>5, <2>8
  <2>11. (~latched) = asked.display
    BY <2>7, <2>9, <2>10, Zenon DEF IInv, CallUnderWay, Leads
  <2> QED
    BY <2>7, <2>11
<1> QED
  BY <1>1, Invariance, PTL

\* Keys, buttons and wheel steps of a connection reach it once, in order, and none is lost
\* to a full queue, a reactivation or a command put aside (enqueue_command, drain_commands,
\* reset_session_state, run_active).
THEOREM AllEdgesKept == Spec => []EdgesKept
<1>1. IInv => EdgesKept
  <2> SUFFICES ASSUME IInv, Connected
               PROVE  EdgesKept
    BY DEF EdgesKept
  <2> DEFINE own == <<caller.cmd>>
             aside == pending.control \o pending.input
             all == server.edges \o Waiting
  <2>1. /\ rx \in Seq(Command) /\ pending.control \in Seq(Command)
        /\ pending.input \in Seq(Command) /\ caller.cmd \in Command
        /\ server.edges \in Seq(Command) /\ EdgesIn(pending.control) = {}
    BY Fields, Aside DEF IInv
  <2>2. own \in Seq(Command) /\ InOrder(own)
    BY <2>1, OneCommand, Zenon
  <2>3. aside \in Seq(Command) /\ aside \o rx \in Seq(Command)
    BY <2>1
  <2>4. Waiting = (aside \o rx) \o own /\ Waiting \in Seq(Command)
    BY <2>1, <2>2, <2>3 DEF Waiting
  <2>5. InOrder(pending.control)
    BY <2>1 DEF InOrder, EdgesIn
  <2>6. /\ EdgesIn(aside) = EdgesIn(pending.input)
        /\ InOrder(pending.input) => InOrder(aside)
    <3>1. \A b \in EdgesIn(pending.input) : \A a \in EdgesIn(pending.control) : a.n < b.n
      BY <2>1
    <3>2. EdgesIn(aside) = EdgesIn(pending.control) \cup EdgesIn(pending.input)
      BY <2>1, EdgesJoined, Zenon
    <3>3. InOrder(aside) <=> /\ InOrder(pending.control) /\ InOrder(pending.input)
                             /\ \A a \in EdgesIn(pending.control), b \in EdgesIn(pending.input) :
                                  a.n < b.n
      BY <2>1, EdgesJoined, Zenon
    <3> HIDE DEF aside
    <3> QED
      BY <2>1, <2>5, <3>1, <3>2, <3>3
  <2> HIDE DEF own, aside
  <2>7. /\ asked.edges = EdgesIn(server.edges) \cup EdgesIn(aside) \cup EdgesIn(rx)
                             \cup EdgesIn(own)
        /\ InOrder(server.edges) /\ InOrder(aside) /\ InOrder(rx)
        /\ Before(EdgesIn(server.edges), EdgesIn(aside) \cup EdgesIn(rx) \cup EdgesIn(own))
        /\ Before(EdgesIn(aside), EdgesIn(rx) \cup EdgesIn(own))
        /\ Before(EdgesIn(rx), EdgesIn(own))
    BY <2>6 DEF IInv, InPieces, own
  <2>8. /\ EdgesIn(aside \o rx) = EdgesIn(aside) \cup EdgesIn(rx)
        /\ InOrder(aside \o rx)
    <3>1. Before(EdgesIn(aside), EdgesIn(rx))
      BY <2>7 DEF Before
    <3> QED
      BY <2>1, <2>3, <2>7, <3>1, EdgesJoined DEF Before
  <2>9. /\ EdgesIn(Waiting) = EdgesIn(aside) \cup EdgesIn(rx) \cup EdgesIn(own)
        /\ InOrder(Waiting)
    <3>1. Before(EdgesIn(aside \o rx), EdgesIn(own))
      BY <2>7, <2>8 DEF Before
    <3> QED
      BY <2>2, <2>3, <2>4, <2>8, <3>1, EdgesJoined DEF Before
  <2>10. /\ EdgesIn(all) = EdgesIn(server.edges) \cup EdgesIn(Waiting)
         /\ InOrder(all)
    <3>1. Before(EdgesIn(server.edges), EdgesIn(Waiting))
      BY <2>7, <2>9
    <3> QED
      BY <2>1, <2>4, <2>7, <2>9, <3>1, EdgesJoined DEF Before
  <2>11. EdgesIn(all) = asked.edges
    BY <2>7, <2>9, <2>10
  <2> HIDE DEF all
  <2>12. /\ {all[i] : i \in {j \in DOMAIN all : IsEdge(all[j])}} = asked.edges
         /\ \A i, j \in {k \in DOMAIN all : IsEdge(all[k])} : i < j => all[i].n < all[j].n
    BY <2>10, <2>11, Zenon DEF EdgesIn, InOrder
  <2> QED
    BY <2>12, Zenon DEF EdgesKept, all
<1> QED
  BY <1>1, Invariance, PTL
=============================================================================
