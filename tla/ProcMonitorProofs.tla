------------------------- MODULE ProcMonitorProofs -------------------------
(***************************************************************************)
(* Theorems about ProcMonitor, for any processes, images and limits.       *)
(***************************************************************************)
EXTENDS ProcMonitor, FiniteSetTheorems, SequenceTheorems, WellFoundedInduction, TLAPS

(***************************************************************************)
(* Induction, for a set of numbers.                                        *)
(***************************************************************************)

LEMMA Leasts ==
    ASSUME NEW S, S \subseteq Nat, S # {}
    PROVE  \E x \in S : \A y \in S : x <= y
<1>1. PICK x \in S : \A y \in S : <<y, x>> \notin OpToRel(<, Nat)
  BY NatLessThanWellFounded, WFMin, Zenon
<1>2. \A y \in S : ~(y < x)
  BY <1>1, Zenon DEF OpToRel
<1> QED BY <1>2

LEMMA Inductive ==
    ASSUME NEW n \in Nat, NEW S, 0 \in S,
           \A i \in 0..n : i \in S /\ i < n => i + 1 \in S
    PROVE  0..n \subseteq S
<1> SUFFICES ASSUME (0..n) \ S # {}
             PROVE  FALSE
  OBVIOUS
<1>1. PICK m \in (0..n) \ S : \A y \in (0..n) \ S : m <= y
  <2> DEFINE rest == (0..n) \ S
  <2>1. rest \subseteq Nat /\ rest # {}
    OBVIOUS
  <2> HIDE DEF rest
  <2>2. \E m \in rest : \A y \in rest : m <= y
    BY <2>1, Leasts
  <2> QED BY <2>2 DEF rest
<1>2. m # 0 /\ m - 1 \in 0..n /\ m - 1 < n /\ ~(m <= m - 1) /\ (m - 1) + 1 = m
  BY <1>1
<1>3. m - 1 \in S
  BY <1>1, <1>2
<1> QED BY <1>1, <1>2, <1>3

(***************************************************************************)
(* The climb of seed_from_proc.                                            *)
(***************************************************************************)

(* What the climb finds from q on with n more parents to look at, given    *)
(* what it finds from their parents on.                                    *)
Climb(up, n, q) ==
    IF q <= 1 \/ ~Known(q) THEN 0
    ELSE IF procs[q].root # 0 THEN q
    ELSE IF n = 0 THEN 0 ELSE up[n - 1][procs[q].parent]

Climbed(up, k) == up = [n \in 0..k |-> [q \in Pids \cup {0} |-> Climb(up, n, q)]]

ParentsIn == \A q \in Pids : Known(q) => procs[q].parent \in Pids \cup {0}

LEMMA ClimbExists ==
    ASSUME NEW k \in Nat, Pids \subseteq Nat \ {0}, ParentsIn
    PROVE  \E up : Climbed(up, k)
<1> DEFINE S == {i \in 0..k : \E up : Climbed(up, i)}
<1>1. 0 \in S
  <2> DEFINE u == [n \in 0..0 |-> [q \in Pids \cup {0} |-> Climb(<<>>, 0, q)]]
  <2>1. u = [n \in 0..0 |-> [q \in Pids \cup {0} |-> Climb(u, n, q)]]
    BY DEF Climb
  <2> HIDE DEF u
  <2>2. Climbed(u, 0)
    BY <2>1 DEF Climbed
  <2> QED BY <2>2
<1>2. ASSUME NEW i \in 0..k, i \in S, i < k
      PROVE  i + 1 \in S
  <2>1. PICK u : Climbed(u, i)
    BY <1>2
  <2> DEFINE v == [n \in 0..(i + 1) |-> [q \in Pids \cup {0} |-> Climb(u, n, q)]]
  <2>0. \A n \in 0..i : u[n] = [q \in Pids \cup {0} |-> Climb(u, n, q)]
    BY <2>1, Zenon DEF Climbed
  <2>8. \A n \in 0..(i + 1) : v[n] = [q \in Pids \cup {0} |-> Climb(u, n, q)]
    BY Zenon
  <2>9. \A n \in 0..i : n \in 0..(i + 1)
    OBVIOUS
  <2>2. \A n \in 0..i : v[n] = u[n]
    BY <2>0, <2>8, <2>9, Zenon
  <2>3. \A n \in 0..(i + 1) : n # 0 => n - 1 \in 0..i
    OBVIOUS
  <2>4. \A n \in 0..(i + 1) : \A q \in Pids \cup {0} : Climb(u, n, q) = Climb(v, n, q)
    <3> HIDE DEF v
    <3> SUFFICES ASSUME NEW n \in 0..(i + 1), NEW q \in Pids \cup {0}
                 PROVE  Climb(u, n, q) = Climb(v, n, q)
      OBVIOUS
    <3>1. CASE n = 0
      BY <3>1 DEF Climb
    <3>2. CASE n # 0
      <4>1. u[n - 1] = v[n - 1]
        BY <2>2, <2>3, <3>2
      <4> QED BY <4>1 DEF Climb
    <3> QED BY <3>1, <3>2
  <2>5. v = [n \in 0..(i + 1) |-> [q \in Pids \cup {0} |-> Climb(v, n, q)]]
    BY <2>4
  <2> HIDE DEF v
  <2>6. Climbed(v, i + 1)
    BY <2>5 DEF Climbed
  <2>7. i + 1 \in 0..k
    BY <1>2
  <2> QED BY <2>6, <2>7
<1> HIDE DEF S
<1>3. k \in S
  BY <1>1, <1>2, Inductive
<1> QED BY <1>3 DEF S

LEMMA NearestIs ==
    ASSUME Pids \subseteq Nat \ {0}, ParentsIn
    PROVE  \E up : /\ \A n \in 0..32 : \A q \in Pids \cup {0} : up[n][q] = Climb(up, n, q)
                   /\ \A p \in Pids : Nearest(p) = up[32][p]
<1> DEFINE up == CHOOSE u : Climbed(u, 32)
<1>1. Climbed(up, 32)
  BY ClimbExists
<1>2. \A p \in Pids : Nearest(p) = up[32][p]
  BY DEF Nearest, Climbed, Climb
<1> HIDE DEF up
<1>3. \A n \in 0..32 : \A q \in Pids \cup {0} : up[n][q] = Climb(up, n, q)
  <2>1. \A n \in 0..32 : up[n] = [q \in Pids \cup {0} |-> Climb(up, n, q)]
    BY <1>1, Zenon DEF Climbed
  <2> QED BY <2>1
<1> QED BY <1>2, <1>3

(* What the climb finds is a process of the table with a root.             *)
LEMMA NearestFinds ==
    ASSUME Pids \subseteq Nat \ {0}, ParentsIn, NEW p \in Pids, Nearest(p) # 0
    PROVE  Nearest(p) \in Pids /\ Known(Nearest(p)) /\ procs[Nearest(p)].root # 0
<1>1. PICK up : /\ \A n \in 0..32 : \A q \in Pids \cup {0} : up[n][q] = Climb(up, n, q)
                /\ Nearest(p) = up[32][p]
  BY NearestIs
<1> DEFINE Good(r) == r = 0 \/ (r \in Pids /\ Known(r) /\ procs[r].root # 0)
           S == {n \in 0..32 : \A q \in Pids \cup {0} : Good(up[n][q])}
<1>2. \A q \in Pids \cup {0} : q <= 1 \/ q \in Pids
  OBVIOUS
<1>3. 0 \in S
  <2>1. \A q \in Pids \cup {0} : up[0][q] = Climb(up, 0, q)
    BY <1>1
  <2>2. \A q \in Pids \cup {0} : Good(Climb(up, 0, q))
    BY <1>2 DEF Climb
  <2> QED BY <2>1, <2>2
<1>4. ASSUME NEW n \in 0..32, n \in S, n < 32
      PROVE  n + 1 \in S
  <2>1. n + 1 \in 0..32 /\ n + 1 # 0 /\ (n + 1) - 1 = n
    BY <1>4
  <2>2. \A q \in Pids \cup {0} : up[n + 1][q] = Climb(up, n + 1, q)
    BY <1>1, <2>1
  <2>3. \A q \in Pids \cup {0} : Good(up[n][q])
    BY <1>4
  <2> HIDE DEF S
  <2>4. \A q \in Pids \cup {0} : Good(Climb(up, n + 1, q))
    BY <1>2, <2>1, <2>3 DEF Climb, ParentsIn
  <2>5. \A q \in Pids \cup {0} : Good(up[n + 1][q])
    BY <2>2, <2>4
  <2> QED BY <2>1, <2>5 DEF S
<1> HIDE DEF S
<1>5. 0..32 \subseteq S
  BY <1>3, <1>4, Inductive
<1>6. Good(up[32][p])
  BY <1>5 DEF S
<1> QED BY <1>1, <1>6

(***************************************************************************)
(* Types.                                                                  *)
(***************************************************************************)

LEMMA Constants ==
    ASSUME ProcAssumption
    PROVE  /\ Pids \subseteq Nat \ {0} /\ 1 \in Pids
           /\ Guarded \cup Payload \cup Ignored \cup Temp \cup Elevators \cup Debuggers
                  \subseteq Images
           /\ Plain \in Images /\ Plain \notin Guarded /\ Early \subseteq Images
           /\ Grace \in Nat /\ MaxClock \in Nat /\ QueueMax \in Nat
           /\ MaxEvents \in Nat /\ MaxProcs \in Nat
           /\ "none" \notin Images
BY DEF ProcAssumption

LEMMA RecIs ==
    /\ \A r \in Rec : r # None /\ r.image \in Images \cup {"unknown"}
                      /\ r.parent \in Pids \cup {0} /\ r.root \in Pids \cup {0}
    /\ \A r \in Process : r # None /\ r.parent \in Pids /\ r.image \in Images
BY DEF Rec, Process, None


(* What an event does to the socket.                                       *)
LEMMA QueuedTypes ==
    ASSUME QueueMax \in Nat, queue \in Seq(Event), Len(queue) <= QueueMax,
           overrun \in BOOLEAN, events \in Nat, disturbed \subseteq Kinds,
           NEW e \in Event, NEW kinds, kinds \subseteq Kinds, Queued(e, kinds)
    PROVE  /\ queue' \in Seq(Event) /\ Len(queue') <= QueueMax
           /\ overrun' \in BOOLEAN /\ events' \in Nat /\ disturbed' \subseteq Kinds
<1>1. CASE Len(queue) < QueueMax
  <2>1. queue' = Append(queue, e) /\ overrun' = overrun /\ disturbed' = disturbed \cup kinds
    BY <1>1 DEF Queued
  <2>2. queue' \in Seq(Event) /\ Len(queue') = Len(queue) + 1
    BY <2>1, AppendProperties
  <2> QED BY <1>1, <2>1, <2>2 DEF Queued
<1>2. CASE ~(Len(queue) < QueueMax)
  <2>1. /\ queue' = queue /\ overrun' = TRUE /\ events' = events + 1
        /\ disturbed' = disturbed \cup kinds \cup {"lost"}
    BY <1>2 DEF Queued
  <2>2. "lost" \in Kinds
    BY DEF Kinds
  <2> QED BY <2>1, <2>2
<1> QED BY <1>1, <1>2

LEMMA Events ==
    ASSUME NEW p \in Pids, NEW q \in Pids
    PROVE  /\ [what |-> "fork", by |-> p, pid |-> q] \in Event
           /\ [what |-> "ptrace", by |-> p, pid |-> q] \in Event
           /\ \A w \in {"exec", "exit", "uid"} : [what |-> w, pid |-> p] \in Event
BY DEF Event

LEMMA EventIs ==
    ASSUME NEW e \in Event
    PROVE  /\ e.pid \in Pids /\ e.what \in {"fork", "ptrace", "exec", "exit", "uid"}
           /\ e.what \in {"fork", "ptrace"} => e.by \in Pids
BY DEF Event

LEMMA ReceiveTypes ==
    ASSUME queue \in Seq(Event), Len(queue) <= QueueMax, QueueMax \in Nat,
           NEW w, Receive(w)
    PROVE  /\ queue' \in Seq(Event) /\ Len(queue') <= QueueMax
           /\ event \in Event /\ event.what = w
<1>1. queue # <<>> /\ queue' = Tail(queue)
  BY DEF Receive
<1>2. queue' \in Seq(Event) /\ Len(queue') = Len(queue) - 1
  BY <1>1, HeadTailProperties
<1>3. Head(queue) \in Event
  BY <1>1, HeadTailProperties
<1> QED BY <1>2, <1>3 DEF Receive, event

(* The records of the monitor.                                             *)
LEMMA ChildIs ==
    ASSUME ProcAssumption, TypeOK, NEW p \in Pids
    PROVE  Child(p) \in Rec
<1>1. CASE Known(p)
  <2>1. procs[p] \in Rec
    BY <1>1 DEF TypeOK, Known
  <2> QED BY <1>1, <2>1 DEF Child, Rec
<1>2. CASE ~Known(p)
  BY <1>2, Constants DEF Child, Rec
<1> QED BY <1>1, <1>2

(* The record that on_exec starts from.                                    *)
Former(p) == IF Known(p) THEN procs[p]
             ELSE [parent |-> 0, image |-> "unknown", root |-> 0, started |-> 0]

LEMMA ExaminedIs ==
    ASSUME ProcAssumption, TypeOK, NEW p \in Pids, Live(p)
    PROVE  /\ Former(p) \in Rec /\ Examined(p) \in Rec /\ proc[p] \in Process
           /\ Examined(p).image = proc[p].image
           /\ proc[p].image \in Guarded =>
                  Examined(p).root = p /\ Examined(p).started = clock
           /\ proc[p].image \notin Guarded =>
                  /\ Examined(p).root = Former(p).root
                  /\ Examined(p).started = Former(p).started
<1>1. proc[p] \in Process
  BY DEF TypeOK, Live
<1>2. Former(p) \in Rec
  BY Constants DEF Former, TypeOK, Known, Rec
<1> DEFINE parent == IF Former(p).parent = 0 THEN proc[p].parent ELSE Former(p).parent
<1>3. parent \in Pids \cup {0} /\ proc[p].image \in Images /\ clock \in 0..MaxClock
  BY <1>1, <1>2, RecIs DEF TypeOK
<1>4. Examined(p) = IF proc[p].image \in Guarded
                    THEN [parent |-> parent, image |-> proc[p].image, root |-> p,
                          started |-> clock]
                    ELSE [Former(p) EXCEPT !.parent = parent, !.image = proc[p].image]
  BY DEF Examined, Former
<1> HIDE DEF parent
<1>5. clock \in (0 - Grace)..MaxClock
  BY <1>3, Constants
<1>6. CASE proc[p].image \in Guarded
  <2>1. Examined(p) = [parent |-> parent, image |-> proc[p].image, root |-> p,
                       started |-> clock]
    BY <1>4, <1>6
  <2> QED BY <1>1, <1>2, <1>3, <1>5, <1>6, <2>1 DEF Rec
<1>7. CASE proc[p].image \notin Guarded
  <2> DEFINE r == Former(p)
  <2>1. Examined(p) = [r EXCEPT !.parent = parent, !.image = proc[p].image]
    BY <1>4, <1>7
  <2> HIDE DEF r
  <2>2. /\ Examined(p) \in Rec /\ Examined(p).image = proc[p].image
        /\ Examined(p).root = r.root /\ Examined(p).started = r.started
    <3>1. r \in Rec
      BY <1>2 DEF r
    <3> QED BY <1>3, <2>1, <3>1 DEF Rec
  <2> QED BY <1>1, <1>2, <1>7, <2>2 DEF r
<1> QED BY <1>6, <1>7

SocketOK == /\ queue \in Seq(Event) /\ Len(queue) <= QueueMax
            /\ overrun \in BOOLEAN /\ events \in Nat /\ disturbed \subseteq Kinds
KernelOK == /\ proc \in [Pids -> Process \cup {None}]
            /\ untrusted \subseteq Pids /\ guardRoots \subseteq Pids
MonitorOK == /\ phase \in {"seeding", "watching", "striking"} /\ todo \subseteq Pids
             /\ procs \in [Pids -> Rec \cup {None}] /\ clock \in 0..MaxClock
             /\ verdict \subseteq Signals \X Pids
HistoryOK == /\ reports \subseteq Signals \X Pids /\ owed \subseteq Signals \X Pids
             /\ strays \subseteq Images

LEMMA TypeParts == TypeOK <=> SocketOK /\ KernelOK /\ MonitorOK /\ HistoryOK
BY DEF TypeOK, SocketOK, KernelOK, MonitorOK, HistoryOK

LEMMA PartsType == SocketOK' /\ KernelOK' /\ MonitorOK' /\ HistoryOK' => TypeOK'
BY DEF TypeOK, SocketOK, KernelOK, MonitorOK, HistoryOK

LEMMA SignalPairs ==
    ASSUME NEW p \in Pids
    PROVE  /\ <<"lineage", p>> \in Signals \X Pids /\ <<"temp", p>> \in Signals \X Pids
           /\ <<"privesc", p>> \in Signals \X Pids
           /\ {"ptrace", "ptrace guarded"} \X {p} \subseteq Signals \X Pids
<1>1. {"lineage", "temp", "privesc", "ptrace", "ptrace guarded"} = Signals
  BY DEF Signals
<1> QED BY <1>1

LEMMA PairIs ==
    ASSUME NEW S, NEW T, NEW o \in S \X T
    PROVE  o = <<o[1], o[2]>>
OBVIOUS

LEMMA ExceptIs ==
    ASSUME NEW D, NEW T, NEW f \in [D -> T], NEW d \in D, NEW x, NEW g,
           g = [e \in D |-> g[e]], g[d] = x, \A e \in D : e # d => g[e] = f[e]
    PROVE  g = [f EXCEPT ![d] = x]
OBVIOUS

LEMMA SocketQueued ==
    ASSUME ProcAssumption, SocketOK, NEW e \in Event, NEW kinds, kinds \subseteq Kinds,
           Queued(e, kinds)
    PROVE  SocketOK'
BY QueuedTypes, Constants DEF SocketOK

LEMMA LateIs == ASSUME NEW p PROVE Late(p) \subseteq Kinds
BY DEF Late, Kinds

LEMMA EndsTypes ==
    ASSUME ProcAssumption, TypeOK, NEW p \in Pids, NEW kinds, kinds \subseteq Kinds,
           Ends(p, kinds)
    PROVE  SocketOK' /\ KernelOK' /\ owed' \subseteq Signals \X Pids
<1>1. SocketOK /\ KernelOK /\ HistoryOK
  BY TypeParts
<1>2. SocketOK'
  <2> DEFINE e == [what |-> "exit", pid |-> p]
  <2>1. e \in Event /\ Queued(e, kinds)
    BY Events DEF Ends
  <2> HIDE DEF e
  <2> QED BY <1>1, <2>1, SocketQueued
<1>3. proc' \in [Pids -> Process \cup {None}]
  <2>1. \A q \in Pids : Live(q) => [proc[q] EXCEPT !.parent = 1] \in Process
    BY <1>1, Constants DEF KernelOK, Process, Live
  <2>2. \A q \in Pids : proc[q] \in Process \cup {None}
    BY <1>1 DEF KernelOK
  <2>3. proc' = Without(p)
    BY DEF Ends
  <2> QED BY <2>1, <2>2, <2>3 DEF Without
<1>4. untrusted' \subseteq Pids /\ guardRoots' \subseteq Pids /\ owed' \subseteq Signals \X Pids
  BY <1>1 DEF Ends, KernelOK, HistoryOK
<1> QED BY <1>2, <1>3, <1>4 DEF KernelOK

LEMMA KernelTypes ==
    ASSUME ProcAssumption, TypeOK, Kernel
    PROVE  TypeOK'
<1>1. SocketOK /\ KernelOK /\ MonitorOK /\ HistoryOK
  BY TypeParts
<1>2. ASSUME NEW p \in Pids, Exit(p)
      PROVE  TypeOK'
  <2>1. SocketOK' /\ KernelOK' /\ owed' \subseteq Signals \X Pids
    BY <1>2, LateIs, EndsTypes DEF Exit
  <2>2. MonitorOK' /\ HistoryOK'
    BY <1>1, <1>2, <2>1 DEF Exit, monVars, MonitorOK, HistoryOK
  <2> QED BY <2>1, <2>2, PartsType
<1>3. ASSUME NEW p \in Pids, GainRoot(p)
      PROVE  TypeOK'
  <2>1. SocketOK'
    <3> DEFINE e == [what |-> "uid", pid |-> p]
    <3>1. e \in Event /\ Queued(e, {})
      BY <1>3, Events DEF GainRoot
    <3> HIDE DEF e
    <3> QED BY <1>1, <3>1, SocketQueued
  <2>2. owed' \subseteq Signals \X Pids
    BY <1>1, <1>3, SignalPairs DEF GainRoot, HistoryOK
  <2>3. KernelOK' /\ MonitorOK' /\ HistoryOK'
    BY <1>1, <1>3, <2>2 DEF GainRoot, monVars, KernelOK, MonitorOK, HistoryOK
  <2> QED BY <2>1, <2>3, PartsType
<1>4. ASSUME NEW p \in Pids, ThreadEvent(p)
      PROVE  TypeOK'
  <2>1. proc[p].parent \in Pids
    BY <1>1, <1>4, RecIs DEF ThreadEvent, Live, KernelOK
  <2>2. {"thread"} \subseteq Kinds
    BY DEF Kinds
  <2>3. SocketOK'
    BY <1>1, <1>4, <2>1, <2>2, Events, SocketQueued DEF ThreadEvent
  <2>4. KernelOK' /\ MonitorOK' /\ HistoryOK'
    BY <1>1, <1>4 DEF ThreadEvent, monVars, KernelOK, MonitorOK, HistoryOK
  <2> QED BY <2>3, <2>4, PartsType
<1>5. ASSUME NEW p \in Pids, NEW q \in Pids, Fork(p, q)
      PROVE  TypeOK'
  <2>1. SocketOK'
    <3> DEFINE e == [what |-> "fork", by |-> p, pid |-> q]
    <3>1. e \in Event /\ Queued(e, {})
      BY <1>5, Events DEF Fork
    <3> HIDE DEF e
    <3> QED BY <1>1, <3>1, SocketQueued
  <2>2. proc' \in [Pids -> Process \cup {None}]
    <3>1. proc[p] \in Process
      BY <1>1, <1>5 DEF Fork, Live, KernelOK
    <3>2. [parent |-> p, image |-> proc[p].image] \in Process
      BY <3>1 DEF Process
    <3> QED BY <1>1, <1>5, <3>2 DEF Fork, KernelOK
  <2>3. KernelOK'
    BY <1>1, <1>5, <2>2 DEF Fork, KernelOK
  <2>4. MonitorOK' /\ HistoryOK'
    BY <1>1, <1>5 DEF Fork, MonitorOK, HistoryOK
  <2> QED BY <2>1, <2>3, <2>4, PartsType
<1>6. ASSUME NEW p \in Pids, NEW q \in Pids, Trace(q, p)
      PROVE  TypeOK'
  <2>1. SocketOK'
    <3> DEFINE e == [what |-> "ptrace", by |-> q, pid |-> p]
    <3>1. e \in Event /\ Queued(e, {})
      BY <1>6, Events DEF Trace
    <3> HIDE DEF e
    <3> QED BY <1>1, <3>1, SocketQueued
  <2>2. owed' \subseteq Signals \X Pids
    BY <1>1, <1>6, SignalPairs DEF Trace, HistoryOK
  <2>3. KernelOK' /\ MonitorOK' /\ HistoryOK'
    BY <1>1, <1>6, <2>2 DEF Trace, monVars, KernelOK, MonitorOK, HistoryOK
  <2> QED BY <2>1, <2>3, PartsType
<1>7. ASSUME NEW p \in Pids, NEW i \in Images, Exec(p, i)
      PROVE  TypeOK'
  <2>1. SocketOK'
    BY <1>1, <1>7, Events, LateIs, SocketQueued DEF Exec
  <2>2. proc' \in [Pids -> Process \cup {None}]
    <3>1. proc[p] \in Process
      BY <1>1, <1>7 DEF Exec, Live, KernelOK
    <3>2. [proc[p] EXCEPT !.image = i] \in Process
      BY <3>1 DEF Process
    <3>3. proc' = [proc EXCEPT ![p] = [proc[p] EXCEPT !.image = i]]
      BY <1>7 DEF Exec
    <3> QED BY <1>1, <3>2, <3>3 DEF KernelOK
  <2>3. KernelOK'
    BY <1>1, <1>7, <2>2 DEF Exec, KernelOK
  <2>4. owed' \subseteq Signals \X Pids
    BY <1>1, <1>7, SignalPairs DEF Exec, HistoryOK
  <2>5. MonitorOK' /\ HistoryOK'
    BY <1>1, <1>7, <2>4 DEF Exec, MonitorOK, HistoryOK
  <2> QED BY <2>1, <2>3, <2>5, PartsType
<1> QED BY <1>2, <1>3, <1>4, <1>5, <1>6, <1>7 DEF Kernel

LEMMA ParentsKnown == TypeOK => ParentsIn
BY RecIs DEF TypeOK, Known, ParentsIn

(* The records after the second pass of seed_from_proc.                    *)
LEMMA SpreadIs ==
    ASSUME ProcAssumption, TypeOK, SeedSpread, NEW p \in Pids
    PROVE  /\ procs'[p] \in Rec \cup {None}
           /\ ~Known(p) \/ Nearest(p) = 0 => procs'[p] = procs[p]
           /\ Known(p) /\ Nearest(p) # 0 =>
                 /\ Nearest(p) \in Pids /\ Known(Nearest(p)) /\ procs[Nearest(p)].root # 0
                 /\ procs'[p].root = procs[Nearest(p)].root
                 /\ procs'[p].image = procs[p].image
                 /\ procs'[p] # None
<1>1. procs \in [Pids -> Rec \cup {None}]
  BY DEF TypeOK
<1>2. procs'[p] = IF ~Known(p) \/ Nearest(p) = 0 THEN procs[p]
                  ELSE [procs[p] EXCEPT !.root = procs[Nearest(p)].root,
                                        !.started = procs[Nearest(p)].started]
  BY DEF SeedSpread
<1>3. CASE ~Known(p) \/ Nearest(p) = 0
  BY <1>1, <1>2, <1>3
<1>4. CASE Known(p) /\ Nearest(p) # 0
  <2>1. Nearest(p) \in Pids /\ Known(Nearest(p)) /\ procs[Nearest(p)].root # 0
    BY <1>4, Constants, ParentsKnown, NearestFinds
  <2> DEFINE r == procs[p]
             s == procs[Nearest(p)]
  <2>2. r \in Rec /\ s \in Rec
    BY <1>1, <1>4, <2>1 DEF Known
  <2>3. procs'[p] = [r EXCEPT !.root = s.root, !.started = s.started]
    BY <1>2, <1>4
  <2>4. s.root # 0
    BY <2>1
  <2> HIDE DEF r, s
  <2>5. procs'[p] \in Rec /\ procs'[p].root = s.root /\ procs'[p].image = r.image
    BY <2>2, <2>3 DEF Rec
  <2> QED BY <1>4, <2>1, <2>5, RecIs DEF r, s
<1> QED BY <1>3, <1>4

LEMMA MonitorTypes ==
    ASSUME ProcAssumption, TypeOK, Seed \/ Resync \/ Handle \/ Tick
    PROVE  TypeOK'
<1>1. SocketOK /\ KernelOK /\ MonitorOK /\ HistoryOK
  BY TypeParts
<1>2. ASSUME SeedSpread PROVE TypeOK'
  <2>1. \A p \in Pids : procs'[p] \in Rec \cup {None}
    BY <1>2, SpreadIs
  <2>2. procs' \in [Pids -> Rec \cup {None}]
    BY <1>2, <2>1 DEF SeedSpread
  <2>3. SocketOK' /\ KernelOK' /\ MonitorOK' /\ HistoryOK'
    BY <1>1, <1>2, <2>2 DEF SeedSpread, kernelVars, SocketOK, KernelOK, MonitorOK, HistoryOK
  <2> QED BY <2>3, PartsType
<1>3. ASSUME NEW p \in Pids, SeedRead(p) PROVE TypeOK'
  <2>1. procs' \in [Pids -> Rec \cup {None}]
    <3> DEFINE r == [parent |-> IF p = 1 THEN 0 ELSE proc[p].parent, image |-> proc[p].image,
                     root |-> IF proc[p].image \in Guarded THEN p ELSE 0,
                     started |-> clock - Grace]
    <3>1. clock - Grace \in (0 - Grace)..MaxClock
      BY <1>1, Constants DEF MonitorOK
    <3>2. ASSUME Live(p) PROVE r \in Rec
      <4>1. proc[p].parent \in Pids /\ proc[p].image \in Images
        BY <1>1, <3>2, RecIs DEF Live, KernelOK
      <4> QED BY <3>1, <4>1 DEF Rec
    <3>3. procs' = IF ~Live(p) THEN procs ELSE [procs EXCEPT ![p] = r]
      BY <1>3 DEF SeedRead
    <3> HIDE DEF r
    <3> QED BY <1>1, <3>2, <3>3 DEF MonitorOK
  <2>2. SocketOK' /\ KernelOK' /\ MonitorOK' /\ HistoryOK'
    BY <1>1, <1>3, <2>1 DEF SeedRead, kernelVars, SocketOK, KernelOK, MonitorOK, HistoryOK
  <2> QED BY <2>2, PartsType
<1>4. ASSUME Resync PROVE TypeOK'
  <2>1. SocketOK' /\ KernelOK' /\ MonitorOK' /\ HistoryOK'
    BY <1>1, <1>4 DEF Resync, kernelVars, SocketOK, KernelOK, MonitorOK, HistoryOK
  <2> QED BY <2>1, PartsType
<1>5. ASSUME NEW w, Receive(w)
      PROVE  /\ queue' \in Seq(Event) /\ Len(queue') <= QueueMax
             /\ event \in Event /\ event.what = w
  BY <1>1, <1>5, Constants, ReceiveTypes DEF SocketOK
<1>6. ASSUME OnFork PROVE TypeOK'
  <2>1. /\ queue' \in Seq(Event) /\ Len(queue') <= QueueMax
        /\ event \in Event /\ event.what = "fork"
    BY <1>5, <1>6 DEF OnFork
  <2>2. Child(event.by) \in Rec /\ event.pid \in Pids
    BY <2>1, EventIs, ChildIs
  <2>3. procs' \in [Pids -> Rec \cup {None}] /\ disturbed' \subseteq Kinds
    <3>1. CASE Tracked > MaxProcs
      <4>1. disturbed' = disturbed \cup {"full"} /\ procs' = procs
        BY <1>6, <3>1 DEF OnFork
      <4> QED BY <1>1, <4>1 DEF MonitorOK, SocketOK, Kinds
    <3>2. CASE ~(Tracked > MaxProcs)
      <4>1. disturbed' = disturbed /\ procs' = [procs EXCEPT ![event.pid] = Child(event.by)]
        BY <1>6, <3>2 DEF OnFork
      <4> QED BY <1>1, <2>2, <4>1 DEF MonitorOK, SocketOK
    <3> QED BY <3>1, <3>2
  <2>4. SocketOK' /\ KernelOK' /\ MonitorOK' /\ HistoryOK'
    BY <1>1, <1>6, <2>1, <2>3 DEF OnFork, SocketOK, KernelOK, MonitorOK, HistoryOK
  <2> QED BY <2>4, PartsType
<1>7. ASSUME OnExit PROVE TypeOK'
  <2>1. queue' \in Seq(Event) /\ Len(queue') <= QueueMax
    BY <1>5, <1>7 DEF OnExit
  <2>2. SocketOK' /\ KernelOK' /\ MonitorOK' /\ HistoryOK'
    BY <1>1, <1>7, <2>1
       DEF OnExit, kernelVars, SocketOK, KernelOK, MonitorOK, HistoryOK
  <2> QED BY <2>2, PartsType
<1>8. ASSUME OnExec PROVE TypeOK'
  <2> DEFINE p == event.pid
  <2>1. /\ queue' \in Seq(Event) /\ Len(queue') <= QueueMax
        /\ event \in Event /\ event.what = "exec"
    BY <1>5, <1>8 DEF OnExec
  <2>2. p \in Pids
    BY <2>1, EventIs
  <2>3. procs' \in [Pids -> Rec \cup {None}]
    <3>1. procs' = IF Live(p) THEN [procs EXCEPT ![p] = Examined(p)] ELSE procs
      BY <1>8 DEF OnExec
    <3>2. Live(p) => Examined(p) \in Rec
      BY <2>2, ExaminedIs
    <3> HIDE DEF p
    <3> QED BY <1>1, <2>2, <3>1, <3>2 DEF MonitorOK
  <2>4. verdict' \subseteq Signals \X Pids /\ phase' \in {"seeding", "watching", "striking"}
    <3>1. verdict' \in {{<<"lineage", p>>}, {<<"temp", p>>}, {}}
          /\ phase' \in {phase, "striking"}
      BY <1>8 DEF OnExec
    <3> HIDE DEF p
    <3> QED BY <1>1, <2>2, <3>1, SignalPairs DEF MonitorOK
  <2>5. SocketOK' /\ KernelOK' /\ MonitorOK' /\ HistoryOK'
    BY <1>1, <1>8, <2>1, <2>3, <2>4
       DEF OnExec, kernelVars, SocketOK, KernelOK, MonitorOK, HistoryOK
  <2> QED BY <2>5, PartsType
<1>9. ASSUME Strike PROVE TypeOK'
  <2>1. PICK v \in verdict :
            /\ reports' = reports \cup {v}
            /\ IF KillOnDetect /\ v[2] # 1 /\ Live(v[2])
               THEN /\ Ends(v[2], {})
                    /\ strays' = strays \cup (IF v[2] \in untrusted THEN {}
                                              ELSE {proc[v[2]].image} \ Temp)
               ELSE UNCHANGED <<kernelVars, queue, overrun, strays, owed>>
    BY <1>9 DEF Strike
  <2>2. v \in Signals \X Pids /\ v[2] \in Pids
    BY <1>1 DEF MonitorOK
  <2>3. SocketOK' /\ KernelOK' /\ owed' \subseteq Signals \X Pids /\ strays' \subseteq Images
    <3>1. CASE KillOnDetect /\ v[2] # 1 /\ Live(v[2])
      <4>1. SocketOK' /\ KernelOK' /\ owed' \subseteq Signals \X Pids
        <5>1. Ends(v[2], {}) /\ {} \subseteq Kinds
          BY <2>1, <3>1
        <5> DEFINE q == v[2]
        <5> HIDE DEF q
        <5>2. q \in Pids /\ Ends(q, {})
          BY <2>2, <5>1 DEF q
        <5> QED BY <5>1, <5>2, EndsTypes
      <4>2. proc[v[2]].image \in Images
        BY <1>1, <2>2, <3>1, RecIs DEF KernelOK, Live
      <4>3. strays' \subseteq strays \cup {proc[v[2]].image}
        BY <2>1, <3>1
      <4> QED BY <1>1, <4>1, <4>2, <4>3 DEF HistoryOK
    <3>2. CASE ~(KillOnDetect /\ v[2] # 1 /\ Live(v[2]))
      <4>1. UNCHANGED <<kernelVars, queue, overrun, strays, owed>>
        BY <2>1, <3>2
      <4> QED BY <1>1, <4>1 DEF kernelVars, SocketOK, KernelOK, HistoryOK
    <3> QED BY <3>1, <3>2
  <2>4. MonitorOK' /\ HistoryOK'
    BY <1>1, <1>9, <2>1, <2>2, <2>3 DEF Strike, MonitorOK, HistoryOK
  <2> QED BY <2>3, <2>4, PartsType
<1>10. ASSUME OnUid PROVE TypeOK'
  <2>1. /\ queue' \in Seq(Event) /\ Len(queue') <= QueueMax /\ event.pid \in Pids
    BY <1>5, <1>10, EventIs DEF OnUid
  <2>2. reports' \subseteq Signals \X Pids
    <3>1. reports' \in {reports, reports \cup {<<"privesc", event.pid>>}}
      BY <1>10 DEF OnUid
    <3> QED BY <1>1, <2>1, <3>1, SignalPairs DEF HistoryOK
  <2>3. SocketOK' /\ KernelOK' /\ MonitorOK' /\ HistoryOK'
    BY <1>1, <1>10, <2>1, <2>2
       DEF OnUid, kernelVars, SocketOK, KernelOK, MonitorOK, HistoryOK
  <2> QED BY <2>3, PartsType
<1>11. ASSUME OnPtrace PROVE TypeOK'
  <2>1. /\ queue' \in Seq(Event) /\ Len(queue') <= QueueMax /\ event.by \in Pids
    BY <1>5, <1>11, EventIs DEF OnPtrace
  <2>2. reports' \subseteq Signals \X Pids
    <3>1. reports' \subseteq reports \cup ({"ptrace", "ptrace guarded"} \X {event.by})
      BY <1>11 DEF OnPtrace
    <3> QED BY <1>1, <2>1, <3>1, SignalPairs DEF HistoryOK
  <2>3. SocketOK' /\ KernelOK' /\ MonitorOK' /\ HistoryOK'
    BY <1>1, <1>11, <2>1, <2>2
       DEF OnPtrace, kernelVars, SocketOK, KernelOK, MonitorOK, HistoryOK
  <2> QED BY <2>3, PartsType
<1>12. ASSUME Tick PROVE TypeOK'
  <2>1. clock' \in 0..MaxClock
    BY <1>1, <1>12, Constants DEF Tick, MonitorOK
  <2>2. SocketOK' /\ KernelOK' /\ MonitorOK' /\ HistoryOK'
    BY <1>1, <1>12, <2>1
       DEF Tick, kernelVars, monVars, SocketOK, KernelOK, MonitorOK, HistoryOK
  <2> QED BY <2>2, PartsType
<1> QED BY <1>2, <1>3, <1>4, <1>6, <1>7, <1>8, <1>9, <1>10, <1>11, <1>12 DEF Seed, Handle

LEMMA InitTypes ==
    ASSUME ProcAssumption, Init
    PROVE  TypeOK
<1>1. proc \in [Pids -> Process \cup {None}] /\ untrusted \subseteq Pids
  BY DEF Init, Trees, TreeOf
<1>2. queue \in Seq(Event) /\ Len(queue) <= QueueMax
  BY Constants DEF Init
<1>3. procs \in [Pids -> Rec \cup {None}]
  BY DEF Init
<1>4. SocketOK
  BY <1>2 DEF Init, SocketOK
<1>5. KernelOK
  BY <1>1 DEF Init, KernelOK
<1>6. MonitorOK
  BY <1>3, Constants DEF Init, MonitorOK
<1>7. HistoryOK
  BY DEF Init, HistoryOK
<1> QED BY <1>4, <1>5, <1>6, <1>7, TypeParts

LEMMA StepTypes ==
    ASSUME ProcAssumption, TypeOK, [Next]_vars
    PROVE  TypeOK'
<1>1. CASE UNCHANGED vars
  BY <1>1 DEF vars, kernelVars, monVars, TypeOK
<1>2. CASE Next
  BY <1>2, KernelTypes, MonitorTypes DEF Next
<1> QED BY <1>1, <1>2

(* The records stay in their domains, whatever is lost, late or killed.    *)
THEOREM TypeCorrect == Spec => []TypeOK
<1>1. Init => TypeOK
  BY InitTypes, ProcAssumption
<1>2. TypeOK /\ [Next]_vars => TypeOK'
  BY StepTypes, ProcAssumption
<1> QED BY <1>1, <1>2, PTL DEF Spec

(***************************************************************************)
(* No lineage is invented.                                                 *)
(***************************************************************************)

(* Besides, a pid that runs a guarded program is one that ever did.        *)
RootInv == /\ RootsWereGuarded
           /\ \A p \in Pids : Live(p) /\ proc[p].image \in Guarded => p \in guardRoots

LEMMA RootsKept ==
    ASSUME RootInv, guardRoots \subseteq guardRoots',
           \A p \in Pids : RootOf(p)' # 0 => RootOf(p)' \in guardRoots' \/ RootOf(p)' = RootOf(p),
           \A p \in Pids : Live(p)' /\ proc'[p].image \in Guarded =>
               p \in guardRoots' \/ (Live(p) /\ proc'[p].image = proc[p].image)
    PROVE  RootInv'
BY DEF RootInv, RootsWereGuarded

LEMMA RootsFixed ==
    ASSUME procs' = procs
    PROVE  \A p \in Pids : RootOf(p)' = RootOf(p)
BY DEF RootOf, Known

LEMMA EndsKeeps ==
    ASSUME ProcAssumption, TypeOK, NEW p \in Pids, NEW kinds, Ends(p, kinds)
    PROVE  /\ guardRoots' = guardRoots
           /\ \A q \in Pids : /\ q # p => (Live(q)' <=> Live(q)) /\ proc'[q].image = proc[q].image
                              /\ q = p => ~Live(q)' /\ proc'[q] = None
<1>1. proc' = Without(p) /\ guardRoots' = guardRoots
  BY DEF Ends
<1>2. ASSUME NEW q \in Pids, q # p
      PROVE  (Live(q)' <=> Live(q)) /\ proc'[q].image = proc[q].image
  <2>1. proc'[q] = IF Live(q) /\ proc[q].parent = p THEN [proc[q] EXCEPT !.parent = 1]
                   ELSE proc[q]
    BY <1>1, <1>2 DEF Without
  <2>2. Live(q) => /\ [proc[q] EXCEPT !.parent = 1] \in Process
                   /\ [proc[q] EXCEPT !.parent = 1].image = proc[q].image
    BY Constants DEF TypeOK, Live, Process
  <2> QED BY <2>1, <2>2, RecIs DEF Live
<1> QED BY <1>1, <1>2 DEF Without, Live

LEMMA StepRoots ==
    ASSUME ProcAssumption, TypeOK, RootInv, [Next]_vars
    PROVE  RootInv'
<1>1. /\ procs \in [Pids -> Rec \cup {None}] /\ proc \in [Pids -> Process \cup {None}]
      /\ queue \in Seq(Event) /\ Len(queue) <= QueueMax
  BY DEF TypeOK
<1>2. ASSUME NEW p \in Pids
      PROVE  /\ Known(p) => RootOf(p) = procs[p].root
             /\ ~Known(p) => RootOf(p) = 0
             /\ procs'[p] = None => RootOf(p)' = 0
             /\ procs'[p] # None => RootOf(p)' = procs'[p].root
  BY DEF RootOf, Known
<1>3. ASSUME UNCHANGED <<procs, proc, guardRoots>>
      PROVE  RootInv'
  BY <1>3, RootsFixed, RootsKept DEF Live
<1>4. ASSUME UNCHANGED <<proc, guardRoots>>,
             \A p \in Pids : RootOf(p)' \in {0, RootOf(p)} \cup guardRoots
      PROVE  RootInv'
  BY <1>4, RootsKept DEF Live
<1>5. ASSUME NEW p \in Pids, SeedRead(p)
      PROVE  RootInv'
  <2>1. proc[p].image \in Guarded /\ Live(p) => p \in guardRoots
    BY DEF RootInv
  <2>2. ~Live(p) => procs' = procs
    BY <1>5 DEF SeedRead
  <2>3. \A q \in Pids : q # p => procs'[q] = procs[q]
    BY <1>1, <1>5 DEF SeedRead
  <2>4. Live(p) => procs'[p].root = IF proc[p].image \in Guarded THEN p ELSE 0
    BY <1>1, <1>5 DEF SeedRead
  <2>5. \A q \in Pids : procs'[q] = procs[q] => RootOf(q)' = RootOf(q)
    BY <1>2 DEF Known
  <2>6. RootOf(p)' \in {0, RootOf(p)} \cup guardRoots
    BY <1>2, <2>1, <2>2, <2>4, <2>5
  <2>7. UNCHANGED <<proc, guardRoots>>
    BY <1>5 DEF SeedRead, kernelVars
  <2> QED BY <1>4, <2>3, <2>5, <2>6, <2>7
<1>6. ASSUME SeedSpread
      PROVE  RootInv'
  <2>1. ASSUME NEW p \in Pids
        PROVE  RootOf(p)' \in {0, RootOf(p)} \cup guardRoots
    <3>1. CASE ~Known(p) \/ Nearest(p) = 0
      <4>1. procs'[p] = procs[p]
        BY <1>6, <3>1, SpreadIs
      <4> QED BY <1>2, <4>1 DEF Known
    <3>2. CASE Known(p) /\ Nearest(p) # 0
      <4> DEFINE n == Nearest(p)
      <4>1. /\ n \in Pids /\ Known(n) /\ procs[n].root # 0
            /\ procs'[p].root = procs[n].root /\ procs'[p] # None
        BY <1>6, <3>2, SpreadIs
      <4> HIDE DEF n
      <4>2. RootOf(n) \in guardRoots /\ RootOf(p)' = RootOf(n)
        BY <1>2, <4>1 DEF RootInv, RootsWereGuarded
      <4> QED BY <4>2
    <3> QED BY <3>1, <3>2
  <2>2. UNCHANGED <<proc, guardRoots>>
    BY <1>6 DEF SeedSpread, kernelVars
  <2> QED BY <1>4, <2>1, <2>2
<1>7. CASE Resync
  BY <1>3, <1>7 DEF Resync, kernelVars
<1>8. CASE OnFork
  <2>1. event \in Event /\ event.what = "fork"
    BY <1>1, <1>8, Constants, ReceiveTypes DEF OnFork
  <2> DEFINE c == event.pid
             b == event.by
  <2>2. c \in Pids /\ b \in Pids
    BY <2>1, EventIs
  <2>3. procs' = procs \/ procs' = [procs EXCEPT ![c] = Child(b)]
    BY <1>8 DEF OnFork
  <2>4. UNCHANGED <<proc, guardRoots>>
    BY <1>8 DEF OnFork
  <2> HIDE DEF c, b
  <2>5. Child(b).root = RootOf(b)
    <3>1. Known(b) => procs[b] \in Rec
      BY <1>1, <2>2 DEF Known
    <3> QED BY <3>1 DEF Child, RootOf, Rec
  <2>6. RootOf(b) \in {0} \cup guardRoots
    BY <2>2 DEF RootInv, RootsWereGuarded
  <2>7. ASSUME NEW q \in Pids
        PROVE  RootOf(q)' \in {0, RootOf(q)} \cup guardRoots
    <3>1. CASE procs'[q] = procs[q]
      BY <1>2, <3>1 DEF Known
    <3>2. CASE procs'[q] # procs[q]
      <4>1. procs'[q] = Child(b)
        BY <1>1, <2>2, <2>3, <3>2
      <4> QED BY <1>2, <2>5, <2>6, <4>1
    <3> QED BY <3>1, <3>2
  <2> QED BY <1>4, <2>4, <2>7
<1>9. CASE OnExit
  <2>1. event \in Event
    BY <1>1, <1>9, Constants, ReceiveTypes DEF OnExit
  <2>2. \A q \in Pids : procs'[q] \in {procs[q], None}
    BY <1>1, <1>9, <2>1, EventIs DEF OnExit
  <2>3. \A q \in Pids : RootOf(q)' \in {0, RootOf(q)}
    BY <1>2, <2>2 DEF Known
  <2>4. UNCHANGED <<proc, guardRoots>>
    BY <1>9 DEF OnExit, kernelVars
  <2> QED BY <1>4, <2>3, <2>4
<1>10. CASE OnExec
  <2>1. event \in Event
    BY <1>1, <1>10, Constants, ReceiveTypes DEF OnExec
  <2>2. PICK p \in Pids : p = event.pid
    BY <2>1, EventIs
  <2>3. procs' = IF Live(p) THEN [procs EXCEPT ![p] = Examined(p)] ELSE procs
    BY <1>10, <2>2 DEF OnExec
  <2>4. UNCHANGED <<proc, guardRoots>>
    BY <1>10 DEF OnExec, kernelVars
  <2>5. ASSUME NEW q \in Pids, procs'[q] # procs[q]
        PROVE  RootOf(q)' \in {0, RootOf(q)} \cup guardRoots
    <3>1. q = p /\ Live(p) /\ procs'[p] = Examined(p)
      BY <1>1, <2>2, <2>3, <2>5
    <3>2. Examined(p) \in Rec
      BY <2>2, <3>1, ExaminedIs
    <3>3. RootOf(p)' = Examined(p).root
      BY <1>2, <2>2, <3>1, <3>2, RecIs
    <3>4. CASE proc[p].image \in Guarded
      <4>1. Examined(p).root = p /\ p \in guardRoots
        BY <2>2, <3>1, <3>4, ExaminedIs DEF RootInv
      <4> QED BY <3>1, <3>3, <4>1
    <3>5. CASE proc[p].image \notin Guarded
      <4>1. Examined(p).root = Former(p).root
        BY <2>2, <3>1, <3>5, ExaminedIs
      <4>2. Former(p).root = RootOf(p)
        BY <1>2, <2>2 DEF Former
      <4> QED BY <3>1, <3>3, <4>1, <4>2
    <3> QED BY <3>4, <3>5
  <2>6. \A q \in Pids : procs'[q] = procs[q] => RootOf(q)' = RootOf(q)
    BY <1>2 DEF Known
  <2> QED BY <1>4, <2>4, <2>5, <2>6
<1>11. ASSUME NEW p \in Pids, NEW kinds, Ends(p, kinds), UNCHANGED procs
       PROVE  RootInv'
  <2>1. /\ guardRoots' = guardRoots
        /\ \A q \in Pids : /\ q # p => (Live(q)' <=> Live(q)) /\ proc'[q].image = proc[q].image
                           /\ q = p => ~Live(q)' /\ proc'[q] = None
    BY <1>11, EndsKeeps
  <2> QED BY <1>11, <2>1, RootsFixed, RootsKept
<1>12. CASE Strike
  <2>1. PICK v \in verdict :
            IF KillOnDetect /\ v[2] # 1 /\ Live(v[2])
            THEN Ends(v[2], {})
            ELSE UNCHANGED <<kernelVars, queue, overrun, strays, owed>>
    BY <1>12 DEF Strike
  <2>2. v[2] \in Pids /\ procs' = procs
    BY <1>12 DEF TypeOK, Strike
  <2> DEFINE q == v[2]
  <2>3. q \in Pids /\ (Ends(q, {}) \/ UNCHANGED kernelVars)
    BY <2>1, <2>2
  <2> HIDE DEF q
  <2>4. CASE Ends(q, {})
    BY <1>11, <2>2, <2>3, <2>4
  <2>5. CASE UNCHANGED kernelVars
    BY <1>3, <2>2, <2>5 DEF kernelVars
  <2> QED BY <2>3, <2>4, <2>5
<1>13. CASE OnUid \/ OnPtrace \/ Tick
  BY <1>3, <1>13 DEF OnUid, OnPtrace, Tick, kernelVars, monVars
<1>14. ASSUME NEW p \in Pids, Exit(p)
       PROVE  RootInv'
  BY <1>11, <1>14 DEF Exit, monVars
<1>15. ASSUME NEW p \in Pids, GainRoot(p) \/ ThreadEvent(p)
       PROVE  RootInv'
  BY <1>3, <1>15 DEF GainRoot, ThreadEvent, monVars
<1>16. ASSUME NEW p \in Pids, NEW q \in Pids, Trace(q, p)
       PROVE  RootInv'
  BY <1>3, <1>16 DEF Trace, monVars
<1>17. ASSUME NEW p \in Pids, NEW q \in Pids, Fork(p, q)
       PROVE  RootInv'
  <2>1. procs' = procs /\ guardRoots \subseteq guardRoots'
    BY <1>17 DEF Fork
  <2>2. ASSUME NEW r \in Pids, Live(r)', proc'[r].image \in Guarded
        PROVE  r \in guardRoots' \/ (Live(r) /\ proc'[r].image = proc[r].image)
    <3>1. CASE r = q
      <4>1. proc'[r].image = proc[p].image
        BY <1>1, <1>17, <3>1 DEF Fork
      <4> QED BY <1>17, <2>2, <3>1, <4>1 DEF Fork
    <3>2. CASE r # q
      BY <1>1, <1>17, <2>2, <3>2 DEF Fork, Live
    <3> QED BY <3>1, <3>2
  <2> QED BY <2>1, <2>2, RootsFixed, RootsKept
<1>18. ASSUME NEW p \in Pids, NEW i \in Images, Exec(p, i)
       PROVE  RootInv'
  <2>1. procs' = procs /\ guardRoots \subseteq guardRoots'
    BY <1>18 DEF Exec
  <2>2. ASSUME NEW r \in Pids, Live(r)', proc'[r].image \in Guarded
        PROVE  r \in guardRoots' \/ (Live(r) /\ proc'[r].image = proc[r].image)
    <3>1. CASE r = p
      <4>1. proc'[r].image = i
        <5>1. proc[p] \in Process
          BY <1>1, <1>18 DEF Exec, Live
        <5> QED BY <1>1, <1>18, <3>1, <5>1 DEF Exec, Process
      <4> QED BY <1>18, <2>2, <3>1, <4>1 DEF Exec
    <3>2. CASE r # p
      BY <1>1, <1>18, <2>2, <3>2 DEF Exec, Live
    <3> QED BY <3>1, <3>2
  <2> QED BY <2>1, <2>2, RootsFixed, RootsKept
<1>19. CASE UNCHANGED vars
  BY <1>3, <1>19 DEF vars, kernelVars, monVars
<1> QED
  BY <1>5, <1>6, <1>7, <1>8, <1>9, <1>10, <1>12, <1>13, <1>14, <1>15, <1>16, <1>17, <1>18, <1>19
     DEF Next, Seed, Handle, Kernel

(* The root recorded for a process is a pid that did run a guarded         *)
(* program, whatever events were lost, late or about threads.              *)
THEOREM NoLineageInvented == Spec => []RootsWereGuarded
<1>1. Init => RootInv
  BY DEF Init, RootInv, RootsWereGuarded, RootOf, Known
<1>2. TypeOK /\ RootInv /\ [Next]_vars => RootInv'
  BY StepRoots, ProcAssumption
<1>3. RootInv => RootsWereGuarded
  BY DEF RootInv
<1> QED BY <1>1, <1>2, <1>3, TypeCorrect, PTL DEF Spec

(***************************************************************************)
(* The socket while nothing of Kinds has happened.                         *)
(***************************************************************************)

(* Handling e changes what is recorded of p.                               *)
Changes(e, p) == e.pid = p /\ e.what \in {"fork", "exec", "exit"}
Pending(p) == \E i \in DOMAIN queue : Changes(queue[i], p)

(* A process whose exec is not yet handled is alive and has nothing else   *)
(* pending that changes its record.                                        *)
Execs == \A i \in DOMAIN queue : queue[i].what = "exec" =>
            /\ Live(queue[i].pid)
            /\ \A j \in DOMAIN queue : j # i => ~Changes(queue[j], queue[i].pid)

(* The one verdict that waits is about a process that has not moved on.    *)
Verdicts == /\ verdict # {} => phase = "striking"
            /\ \A u, w \in verdict : u = w
            /\ \A u \in verdict : Live(u[2]) /\ ~Pending(u[2])

(* No process ends or runs something else while the first seed goes on.    *)
FirstSeed == phase = "seeding" => \A i \in DOMAIN queue :
                /\ queue[i].what \in {"fork", "uid", "ptrace"} /\ Live(queue[i].pid)
                /\ queue[i].what # "uid" => Live(queue[i].by)

(* Init lives, and what is untrusted is alive and not init.                *)
Lives == Live(1) /\ \A p \in untrusted : p # 1 /\ Live(p)

SocketInv == disturbed = {} =>
                /\ ~overrun /\ Lives
                /\ Execs /\ Verdicts /\ FirstSeed

LEMMA Appended ==
    ASSUME NEW q \in Seq(Event), NEW e \in Event
    PROVE  /\ Append(q, e) \in Seq(Event) /\ Len(Append(q, e)) = Len(q) + 1
           /\ DOMAIN q = 1..Len(q) /\ Len(q) \in Nat
           /\ DOMAIN Append(q, e) = 1..(Len(q) + 1)
           /\ \A i \in DOMAIN Append(q, e) :
                 \/ i \in DOMAIN q /\ Append(q, e)[i] = q[i]
                 \/ i = Len(q) + 1 /\ i \notin DOMAIN q /\ Append(q, e)[i] = e
           /\ \A i \in DOMAIN q : i \in DOMAIN Append(q, e) /\ Append(q, e)[i] = q[i]
           /\ Append(q, e)[Len(q) + 1] = e
<1>1. /\ Append(q, e) \in Seq(Event) /\ Len(Append(q, e)) = Len(q) + 1
      /\ Append(q, e)[Len(q) + 1] = e
      /\ \A i \in 1..Len(q) : Append(q, e)[i] = q[i]
  BY AppendProperties
<1> QED BY <1>1

LEMMA Shifted ==
    ASSUME NEW q \in Seq(Event), q # <<>>
    PROVE  /\ Tail(q) \in Seq(Event) /\ Len(Tail(q)) = Len(q) - 1 /\ Len(q) \in Nat \ {0}
           /\ DOMAIN q = 1..Len(q) /\ DOMAIN Tail(q) = 1..(Len(q) - 1)
           /\ \A i \in DOMAIN Tail(q) : i + 1 \in DOMAIN q /\ Tail(q)[i] = q[i + 1]
           /\ 1 \in DOMAIN q /\ q[1] = Head(q)
           /\ \A i \in DOMAIN q : i # 1 => i - 1 \in DOMAIN Tail(q) /\ Tail(q)[i - 1] = q[i]
<1>1. /\ Tail(q) \in Seq(Event) /\ Len(Tail(q)) = Len(q) - 1
      /\ \A i \in 1..Len(Tail(q)) : Tail(q)[i] = q[i + 1]
  BY HeadTailProperties
<1>2. Len(q) \in Nat \ {0} /\ Head(q) = q[1]
  OBVIOUS
<1>3. \A i \in 1..Len(q) : i # 1 => i - 1 \in 1..(Len(q) - 1) /\ (i - 1) + 1 = i
  BY <1>2
<1> QED BY <1>1, <1>2, <1>3

LEMMA QueuedCalmly ==
    ASSUME NEW e, NEW kinds, Queued(e, kinds), disturbed' = {}
    PROVE  /\ queue' = Append(queue, e) /\ overrun' = overrun
           /\ disturbed = {} /\ kinds = {}
BY DEF Queued

LEMMA NotLate ==
    ASSUME NEW p, Late(p) = {}
    PROVE  /\ phase # "seeding" /\ ~Pending(p) /\ \A v \in verdict : v[2] # p
           /\ \A i \in DOMAIN queue : /\ queue[i].what = "ptrace" => queue[i].by # p
                                      /\ queue[i].what # "ptrace" => queue[i].pid # p
<1>1. phase # "seeding" /\ About(p) = {} /\ \A v \in verdict : v[2] # p
  BY DEF Late
<1>2. \A i \in DOMAIN queue : /\ queue[i].what = "ptrace" => queue[i].by # p
                              /\ queue[i].what # "ptrace" => queue[i].pid # p
  BY <1>1 DEF About
<1> QED BY <1>1, <1>2 DEF Pending, Changes

(* One more event.                                                         *)
LEMMA SocketGrows ==
    ASSUME queue \in Seq(Event), verdict \subseteq Signals \X Pids,
           Execs, Verdicts, FirstSeed, NEW e \in Event,
           queue' = Append(queue, e), phase' = "seeding" => phase = "seeding",
           verdict' \subseteq verdict, verdict' # {} => phase' = "striking",
           \A p \in Pids : Live(p) /\ ~Live(p)' =>
               phase # "seeding" /\ ~Pending(p) /\ \A v \in verdict' : v[2] # p,
           \A p \in Pids : Changes(e, p) =>
               /\ \A i \in DOMAIN queue : queue[i].what = "exec" => queue[i].pid # p
               /\ \A v \in verdict' : v[2] # p,
           e.what = "exec" => Live(e.pid)' /\ ~Pending(e.pid),
           phase = "seeding" => /\ e.what \in {"fork", "uid", "ptrace"} /\ Live(e.pid)'
                                /\ e.what # "uid" => Live(e.by)'
    PROVE  Execs' /\ Verdicts' /\ FirstSeed'
<1>0. PICK q : q = queue
  OBVIOUS
<1> DEFINE r == Append(q, e)
<1>1. /\ DOMAIN r = 1..(Len(q) + 1) /\ \A i \in DOMAIN q : q[i] \in Event
      /\ \A i \in DOMAIN r : \/ i \in DOMAIN q /\ r[i] = q[i]
                             \/ i = Len(q) + 1 /\ i \notin DOMAIN q /\ r[i] = e
      /\ \A i \in DOMAIN q : i \in DOMAIN r /\ r[i] = q[i]
  BY <1>0, Appended
<1>2. queue' = r
  BY <1>0
<1> HIDE DEF r
<1>3. Execs'
  <2> SUFFICES ASSUME NEW i \in DOMAIN r, r[i].what = "exec"
               PROVE  /\ Live(r[i].pid)'
                      /\ \A j \in DOMAIN r : j # i => ~Changes(r[j], r[i].pid)
    BY <1>2 DEF Execs, Changes, Live, r
  <2>1. CASE i \in DOMAIN q /\ r[i] = q[i]
    <3>1. PICK p \in Pids : p = q[i].pid
      BY <1>1, <2>1, EventIs
    <3>2. /\ Live(p) /\ Pending(p)
          /\ \A j \in DOMAIN q : j # i => ~Changes(q[j], p)
      BY <1>0, <2>1, <3>1 DEF Execs, Pending, Changes
    <3>3. Live(p)' /\ ~Changes(e, p)
      BY <1>0, <2>1, <3>1, <3>2
    <3> QED BY <1>1, <2>1, <3>1, <3>2, <3>3
  <2>2. CASE i \notin DOMAIN q /\ r[i] = e
    <3>1. Live(e.pid)' /\ ~Pending(e.pid)
      BY <2>2
    <3>2. \A j \in DOMAIN r : j # i => j \in DOMAIN q /\ r[j] = q[j]
      BY <1>1, <2>2
    <3> QED BY <1>0, <2>2, <3>1, <3>2 DEF Pending
  <2> QED BY <1>1, <2>1, <2>2
<1>4. Verdicts'
  <2>1. ASSUME NEW u \in verdict'
        PROVE  Live(u[2])' /\ ~Pending(u[2])'
    <3>1. u[2] \in Pids /\ Live(u[2]) /\ ~Pending(u[2])
      BY DEF Verdicts
    <3>2. Live(u[2])' /\ ~Changes(e, u[2])
      BY <3>1
    <3> QED BY <1>0, <1>1, <1>2, <3>1, <3>2 DEF Pending
  <2> QED BY <2>1 DEF Verdicts
<1>5. FirstSeed'
  <2> SUFFICES ASSUME phase = "seeding", NEW i \in DOMAIN r
               PROVE  /\ r[i].what \in {"fork", "uid", "ptrace"} /\ Live(r[i].pid)'
                      /\ r[i].what # "uid" => Live(r[i].by)'
    BY <1>2 DEF FirstSeed, Live, r
  <2>1. CASE i \in DOMAIN q /\ r[i] = q[i]
    <3>1. /\ r[i].what \in {"fork", "uid", "ptrace"} /\ Live(r[i].pid)
          /\ r[i].what # "uid" => Live(r[i].by)
      BY <1>0, <2>1 DEF FirstSeed
    <3>2. r[i].pid \in Pids /\ (r[i].what # "uid" => r[i].by \in Pids)
      BY <1>1, <2>1, <3>1, EventIs
    <3> QED BY <3>1, <3>2
  <2>2. CASE r[i] = e
    BY <2>2
  <2> QED BY <1>1, <2>1, <2>2
<1> QED BY <1>3, <1>4, <1>5

(* One event fewer.                                                        *)
LEMMA SocketShrinks ==
    ASSUME queue \in Seq(Event), queue # <<>>, queue' = Tail(queue), Execs,
           proc' = proc, phase = "watching"
    PROVE  /\ Execs'
           /\ event.what = "exec" => event.pid \in Pids /\ Live(event.pid)
           /\ \A p \in Pids : event.what = "exec" /\ event.pid = p => ~Pending(p)'
<1>0. PICK q : q = queue
  OBVIOUS
<1> DEFINE r == Tail(q)
<1>1. /\ \A i \in DOMAIN r : i + 1 \in DOMAIN q /\ r[i] = q[i + 1]
      /\ 1 \in DOMAIN q /\ q[1] = Head(q)
      /\ \A i \in DOMAIN q : q[i] \in Event
      /\ DOMAIN q \subseteq Int /\ DOMAIN r \subseteq Nat \ {0}
  BY <1>0, Shifted
<1>2. queue' = r
  BY <1>0
<1>3. \A i, j \in DOMAIN r : i # j => i + 1 # j + 1
  BY <1>1
<1>4. \A i \in DOMAIN r : i + 1 # 1
  BY <1>1
<1> HIDE DEF r
<1>5. Execs'
  <2> SUFFICES ASSUME NEW i \in DOMAIN r, r[i].what = "exec"
               PROVE  /\ Live(r[i].pid)
                      /\ \A j \in DOMAIN r : j # i => ~Changes(r[j], r[i].pid)
    BY <1>2 DEF Execs, Changes, Live, r
  <2> QED BY <1>0, <1>1, <1>3 DEF Execs
<1>6. event = q[1]
  BY <1>0, <1>1 DEF event
<1>7. event.what = "exec" => event.pid \in Pids /\ Live(event.pid)
  BY <1>0, <1>1, <1>6, EventIs DEF Execs
<1>8. ASSUME NEW p \in Pids, event.what = "exec", event.pid = p
      PROVE  ~Pending(p)'
  <2>1. \A j \in DOMAIN q : j # 1 => ~Changes(q[j], p)
    BY <1>0, <1>1, <1>6, <1>8 DEF Execs
  <2>2. \A j \in DOMAIN r : ~Changes(r[j], p)
    BY <1>1, <1>4, <2>1
  <2> QED BY <1>2, <2>2 DEF Pending, Changes
<1> QED BY <1>5, <1>7, <1>8

LEMMA EndsSocket ==
    ASSUME ProcAssumption, TypeOK, Execs, Verdicts, FirstSeed, NEW p \in Pids,
           Ends(p, {}), disturbed' = {}, phase # "seeding", ~Pending(p),
           phase' = "seeding" => phase = "seeding", verdict' \subseteq verdict,
           verdict' # {} => phase' = "striking", \A v \in verdict' : v[2] # p,
           Lives, p # 1
    PROVE  Execs' /\ Verdicts' /\ FirstSeed' /\ overrun' = overrun /\ Lives'
<1> DEFINE e == [what |-> "exit", pid |-> p]
<1>1. e \in Event /\ e.what = "exit" /\ e.pid = p
  BY Events
<1>2. Queued(e, {})
  BY DEF Ends
<1> HIDE DEF e
<1>3. queue' = Append(queue, e) /\ overrun' = overrun
  BY <1>2, QueuedCalmly
<1>4. \A q \in Pids : (q # p => (Live(q)' <=> Live(q))) /\ (q = p => ~Live(q)')
  BY EndsKeeps
<1>5. \A q \in Pids : Changes(e, q) => q = p
  BY <1>1 DEF Changes
<1>6. \A i \in DOMAIN queue : queue[i].what = "exec" => queue[i].pid # p
  BY DEF Pending, Changes
<1>7. Execs' /\ Verdicts' /\ FirstSeed'
  <2>1. queue \in Seq(Event) /\ verdict \subseteq Signals \X Pids
    BY DEF TypeOK
  <2>2. \A q \in Pids : Live(q) /\ ~Live(q)' =>
            phase # "seeding" /\ ~Pending(q) /\ \A v \in verdict' : v[2] # q
    BY <1>4
  <2>3. \A q \in Pids : Changes(e, q) =>
               /\ \A i \in DOMAIN queue : queue[i].what = "exec" => queue[i].pid # q
               /\ \A v \in verdict' : v[2] # q
    BY <1>5, <1>6
  <2> QED BY <1>1, <1>3, <2>1, <2>2, <2>3, SocketGrows
<1>8. untrusted' = untrusted \ {p}
  BY DEF Ends
<1>9. Lives'
  BY <1>4, <1>8, Constants DEF Lives, TypeOK
<1> QED BY <1>3, <1>7, <1>9

LEMMA KernelSocket ==
    ASSUME ProcAssumption, TypeOK, SocketInv, Kernel, disturbed' = {}
    PROVE  SocketInv'
<1>0. /\ queue \in Seq(Event) /\ verdict \subseteq Signals \X Pids
      /\ proc \in [Pids -> Process \cup {None}]
  BY DEF TypeOK
<1> DEFINE OK == /\ ~overrun /\ Lives
                 /\ Execs /\ Verdicts /\ FirstSeed
<1>1. ASSUME disturbed = {} PROVE OK
  BY <1>1 DEF SocketInv
<1>2. ASSUME NEW p \in Pids, Exit(p)
      PROVE  SocketInv'
  <2>1. PICK kinds : kinds = Late(p) /\ Ends(p, kinds)
    BY <1>2 DEF Exit
  <2>2. kinds = {} /\ disturbed = {}
    BY <2>1, QueuedCalmly DEF Ends
  <2>3. Ends(p, {}) /\ Late(p) = {}
    BY <2>1, <2>2
  <2>4. phase # "seeding" /\ ~Pending(p) /\ \A v \in verdict : v[2] # p
    BY <2>3, NotLate
  <2>5. phase' = phase /\ verdict' = verdict /\ p # 1
    BY <1>2 DEF Exit, monVars
  <2>6. OK
    BY <1>1, <2>2
  <2> QED BY <2>3, <2>4, <2>5, <2>6, EndsSocket DEF SocketInv, Verdicts
<1>3. ASSUME NEW e \in Event, NEW kinds, Queued(e, kinds), untrusted' = untrusted,
             proc' = proc, phase' = phase, verdict' = verdict,
             Live(e.pid), e.what \in {"uid", "ptrace"},
             e.what = "ptrace" => Live(e.by)
      PROVE  SocketInv'
  <2>1. disturbed = {} /\ queue' = Append(queue, e) /\ overrun' = overrun
    BY <1>3, QueuedCalmly
  <2>2. OK
    BY <1>1, <2>1
  <2>3. \A p : ~Changes(e, p)
    BY <1>3 DEF Changes
  <2>4. \A p : Live(p)' <=> Live(p)
    BY <1>3 DEF Live
  <2>5. Execs' /\ Verdicts' /\ FirstSeed'
    BY <1>0, <1>3, <2>1, <2>2, <2>3, <2>4, SocketGrows DEF Verdicts
  <2>6. Lives'
    BY <1>3, <2>2, <2>4 DEF Lives
  <2> QED BY <2>1, <2>2, <2>5, <2>6 DEF SocketInv
<1>4. ASSUME NEW p \in Pids, GainRoot(p)
      PROVE  SocketInv'
  <2> DEFINE e == [what |-> "uid", pid |-> p]
  <2>1. e \in Event /\ Queued(e, {}) /\ e.what = "uid" /\ e.pid = p
    BY <1>4, Events DEF GainRoot
  <2> HIDE DEF e
  <2>2. Live(p) /\ UNCHANGED <<proc, untrusted, monVars>>
    BY <1>4 DEF GainRoot
  <2> QED BY <1>3, <2>1, <2>2 DEF monVars
<1>5. ASSUME NEW p \in Pids, NEW q \in Pids, Trace(q, p)
      PROVE  SocketInv'
  <2> DEFINE e == [what |-> "ptrace", by |-> q, pid |-> p]
  <2>1. e \in Event /\ Queued(e, {}) /\ e.what = "ptrace" /\ e.pid = p /\ e.by = q
    BY <1>5, Events DEF Trace
  <2> HIDE DEF e
  <2>2. Live(p) /\ Live(q) /\ UNCHANGED <<proc, untrusted, monVars>>
    BY <1>5 DEF Trace
  <2> QED BY <1>3, <2>1, <2>2 DEF monVars
<1>6. ASSUME NEW p \in Pids, ThreadEvent(p)
      PROVE  FALSE
  <2>1. PICK e : Queued(e, {"thread"})
    BY <1>6 DEF ThreadEvent
  <2> QED BY <2>1, QueuedCalmly
<1>7. ASSUME NEW p \in Pids, NEW c \in Pids, Fork(p, c)
      PROVE  SocketInv'
  <2> DEFINE e == [what |-> "fork", by |-> p, pid |-> c]
  <2>1. e \in Event /\ Queued(e, {}) /\ e.what = "fork" /\ e.pid = c /\ e.by = p
    BY <1>7, Events DEF Fork
  <2> HIDE DEF e
  <2>2. disturbed = {} /\ queue' = Append(queue, e) /\ overrun' = overrun
    BY <2>1, QueuedCalmly
  <2>3. OK
    BY <1>1, <2>2
  <2>4. /\ Live(p) /\ ~Live(c) /\ phase' = phase /\ verdict' = verdict
        /\ untrusted' \subseteq untrusted \cup {c}
        /\ proc' = [proc EXCEPT ![c] = [parent |-> p, image |-> proc[p].image]]
    BY <1>7 DEF Fork
  <2>5. /\ \A q \in Pids : q # c => proc'[q] = proc[q]
        /\ proc'[c] = [parent |-> p, image |-> proc[p].image]
    BY <1>0, <2>4
  <2>6. Live(c)' /\ \A q \in Pids : Live(q) => Live(q)'
    <3>1. proc[p] \in Process
      BY <1>0, <2>4 DEF Live
    <3>2. proc'[c] \in Process
      BY <2>5, <3>1 DEF Process
    <3> QED BY <2>5, <3>2, RecIs DEF Live
  <2>7. \A i \in DOMAIN queue : queue[i].what = "exec" => queue[i].pid # c
    BY <2>3, <2>4 DEF Execs
  <2>8. \A v \in verdict : v[2] # c
    BY <2>3, <2>4 DEF Verdicts
  <2>9. \A q \in Pids : Changes(e, q) => q = c
    BY <2>1 DEF Changes
  <2>10. Execs' /\ Verdicts' /\ FirstSeed'
    <3>1. \A q \in Pids : Changes(e, q) =>
               /\ \A i \in DOMAIN queue : queue[i].what = "exec" => queue[i].pid # q
               /\ \A v \in verdict : v[2] # q
      BY <2>7, <2>8, <2>9
    <3> QED BY <1>0, <2>1, <2>2, <2>3, <2>4, <2>6, <3>1, SocketGrows DEF Verdicts
  <2>11. Lives'
    BY <1>0, <2>3, <2>4, <2>6, Constants DEF Lives, TypeOK
  <2> QED BY <2>2, <2>3, <2>10, <2>11 DEF SocketInv
<1>8. ASSUME NEW p \in Pids, NEW i \in Images, Exec(p, i)
      PROVE  SocketInv'
  <2> DEFINE e == [what |-> "exec", pid |-> p]
  <2>1. e \in Event /\ Queued(e, Late(p)) /\ e.what = "exec" /\ e.pid = p
    BY <1>8, Events DEF Exec
  <2> HIDE DEF e
  <2>2. PICK kinds : kinds = Late(p) /\ Queued(e, kinds)
    BY <2>1
  <2>3. disturbed = {} /\ queue' = Append(queue, e) /\ overrun' = overrun /\ kinds = {}
    BY <2>2, QueuedCalmly
  <2>4. OK
    BY <1>1, <2>3
  <2>5. phase # "seeding" /\ ~Pending(p) /\ \A v \in verdict : v[2] # p
    BY <2>2, <2>3, NotLate
  <2>6. /\ Live(p) /\ p # 1 /\ phase' = phase /\ verdict' = verdict
        /\ untrusted' \subseteq untrusted \cup {p}
        /\ proc' = [proc EXCEPT ![p] = [proc[p] EXCEPT !.image = i]]
    BY <1>8 DEF Exec
  <2>7. Live(p)' /\ \A q \in Pids : Live(q) => Live(q)'
    <3>1. proc[p] \in Process
      BY <1>0, <2>6 DEF Live
    <3>2. [proc[p] EXCEPT !.image = i] \in Process
      BY <3>1 DEF Process
    <3> QED BY <1>0, <2>6, <3>2, RecIs DEF Live
  <2>8. \A q \in Pids : Changes(e, q) => q = p
    BY <2>1 DEF Changes
  <2>9. Execs' /\ Verdicts' /\ FirstSeed'
    <3>1. \A q \in Pids : Changes(e, q) =>
               /\ \A j \in DOMAIN queue : queue[j].what = "exec" => queue[j].pid # q
               /\ \A v \in verdict : v[2] # q
      BY <2>5, <2>8 DEF Pending, Changes
    <3> QED BY <1>0, <2>1, <2>3, <2>4, <2>5, <2>6, <2>7, <3>1, SocketGrows DEF Verdicts
  <2>10. Lives'
    BY <2>4, <2>6, <2>7, Constants DEF Lives, TypeOK
  <2> QED BY <2>3, <2>4, <2>9, <2>10 DEF SocketInv
<1> QED BY <1>2, <1>4, <1>5, <1>6, <1>7, <1>8 DEF Kernel

LEMMA MonitorSocket ==
    ASSUME ProcAssumption, TypeOK, SocketInv, Seed \/ Resync \/ Handle \/ Tick, disturbed' = {}
    PROVE  SocketInv'
<1>0. queue \in Seq(Event) /\ verdict \subseteq Signals \X Pids
  BY DEF TypeOK
<1> DEFINE OK == ~overrun /\ Lives /\ Execs /\ Verdicts /\ FirstSeed
<1>1. ASSUME disturbed = {} PROVE OK
  BY <1>1 DEF SocketInv
<1>2. ASSUME OK, UNCHANGED <<proc, untrusted, queue, overrun>>,
             verdict' = verdict, phase' # "seeding" \/ phase' = phase, verdict = {} \/ phase' = phase
      PROVE  SocketInv'
  <2>1. Execs' /\ Lives'
    BY <1>2 DEF Execs, Lives, Live, Changes
  <2>2. Verdicts'
    BY <1>2 DEF Verdicts, Live, Pending, Changes
  <2>3. FirstSeed'
    BY <1>2 DEF FirstSeed, Live
  <2> QED BY <1>2, <2>1, <2>2, <2>3 DEF SocketInv
<1>3. CASE SeedSpread
  <2>1. OK /\ verdict = {}
    BY <1>1, <1>3 DEF SeedSpread, kernelVars, Verdicts
  <2> QED BY <1>2, <1>3, <2>1 DEF SeedSpread, kernelVars
<1>4. ASSUME NEW p \in Pids, SeedRead(p)
      PROVE  SocketInv'
  <2>1. OK
    BY <1>1, <1>4 DEF SeedRead, kernelVars
  <2> QED BY <1>2, <1>4, <2>1 DEF SeedRead, kernelVars
<1>5. ASSUME Resync PROVE FALSE
  <2>1. OK
    BY <1>1, <1>5 DEF Resync, kernelVars
  <2> QED BY <1>5, <2>1 DEF Resync
<1>6. CASE Tick
  <2>1. OK
    BY <1>1, <1>6 DEF Tick, kernelVars
  <2> QED BY <1>2, <1>6, <2>1 DEF Tick, kernelVars, monVars
<1>7. ASSUME NEW w, Receive(w), disturbed = {}, UNCHANGED <<proc, untrusted, overrun>>,
             verdict' = {}, phase' = "watching"
      PROVE  SocketInv'
  <2>1. OK /\ queue # <<>> /\ queue' = Tail(queue) /\ phase = "watching"
    BY <1>1, <1>7 DEF Receive
  <2>2. Execs'
    BY <1>0, <1>7, <2>1, SocketShrinks
  <2>3. Lives' /\ Verdicts' /\ FirstSeed'
    BY <1>7, <2>1 DEF Lives, Live, Verdicts, FirstSeed
  <2> QED BY <1>7, <2>1, <2>2, <2>3 DEF SocketInv
<1>8. CASE OnFork \/ OnExit \/ OnUid \/ OnPtrace
  <2>1. PICK w : Receive(w)
    BY <1>8 DEF OnFork, OnExit, OnUid, OnPtrace
  <2>2. /\ UNCHANGED <<proc, untrusted, overrun, phase, verdict>> /\ disturbed = {}
    BY <1>8 DEF OnFork, OnExit, OnUid, OnPtrace, kernelVars
  <2>3. phase = "watching" /\ verdict = {}
    BY <1>1, <2>1, <2>2 DEF Receive, Verdicts
  <2> QED BY <1>7, <2>1, <2>2, <2>3
<1>9. CASE OnExec
  <2>1. /\ Receive("exec") /\ UNCHANGED <<proc, untrusted, overrun>> /\ disturbed = {}
        /\ phase' = IF verdict' = {} THEN phase ELSE "striking"
        /\ verdict' \in {{<<"lineage", event.pid>>}, {<<"temp", event.pid>>}, {}}
    BY <1>9 DEF OnExec, kernelVars
  <2>2. OK /\ phase = "watching" /\ event.what = "exec" /\ queue # <<>> /\ queue' = Tail(queue)
    BY <1>1, <2>1 DEF Receive, event
  <2>3. /\ Execs' /\ event.pid \in Pids /\ Live(event.pid)
        /\ \A p \in Pids : event.pid = p => ~Pending(p)'
    BY <1>0, <2>1, <2>2, SocketShrinks
  <2>4. Verdicts'
    <3>1. \A u, w \in verdict' : u = w
      BY <2>1
    <3>2. \A u \in verdict' : u[2] = event.pid
      BY <2>1
    <3>3. ASSUME NEW u \in verdict'
          PROVE  Live(u[2])' /\ ~Pending(u[2])'
      <4>1. u[2] \in Pids /\ u[2] = event.pid
        BY <2>3, <3>2
      <4>2. ~Pending(u[2])'
        BY <2>3, <4>1
      <4>3. Live(u[2])'
        BY <2>1, <2>3, <4>1 DEF Live
      <4> QED BY <4>2, <4>3
    <3> QED BY <2>1, <3>1, <3>3 DEF Verdicts
  <2>5. Lives' /\ FirstSeed'
    BY <2>1, <2>2 DEF Lives, Live, FirstSeed
  <2> QED BY <2>1, <2>2, <2>3, <2>4, <2>5 DEF SocketInv
<1>10. CASE Strike
  <2>1. PICK v \in verdict :
            IF KillOnDetect /\ v[2] # 1 /\ Live(v[2])
            THEN Ends(v[2], {})
            ELSE UNCHANGED <<kernelVars, queue, overrun, strays, owed>>
    BY <1>10 DEF Strike
  <2>2. PICK p \in Pids : p = v[2]
    BY <1>0
  <2>3. phase = "striking" /\ phase' = "watching" /\ verdict' = {}
    BY <1>10 DEF Strike
  <2>4. CASE KillOnDetect /\ p # 1 /\ Live(p)
    <3>1. Ends(p, {})
      BY <2>1, <2>2, <2>4
    <3>2. disturbed = {}
      BY <3>1, QueuedCalmly DEF Ends
    <3>3. OK /\ ~Pending(p)
      BY <1>1, <2>2, <3>2 DEF Verdicts
    <3> QED BY <2>3, <2>4, <3>1, <3>2, <3>3, EndsSocket DEF SocketInv
  <2>5. CASE ~(KillOnDetect /\ p # 1 /\ Live(p))
    <3>1. UNCHANGED <<proc, untrusted, queue, overrun, disturbed>>
      BY <2>1, <2>2, <2>5 DEF kernelVars
    <3>2. OK
      BY <1>1, <3>1
    <3>3. Execs' /\ Lives' /\ Verdicts' /\ FirstSeed'
      BY <2>3, <3>1, <3>2 DEF Execs, Lives, Verdicts, FirstSeed, Live, Changes
    <3> QED BY <3>1, <3>2, <3>3 DEF SocketInv
  <2> QED BY <2>4, <2>5
<1> QED BY <1>3, <1>4, <1>5, <1>6, <1>8, <1>9, <1>10 DEF Seed, Handle

LEMMA StepSocket ==
    ASSUME ProcAssumption, TypeOK, SocketInv, [Next]_vars
    PROVE  SocketInv'
<1> SUFFICES ASSUME disturbed' = {} PROVE SocketInv'
  BY DEF SocketInv
<1>1. CASE UNCHANGED vars
  BY <1>1 DEF vars, kernelVars, monVars, SocketInv, Lives, Live, Execs, Verdicts, Pending,
              FirstSeed, Changes
<1>2. CASE Next
  BY <1>2, KernelSocket, MonitorSocket DEF Next
<1> QED BY <1>1, <1>2

(* The tree of the guarded programs is closed, and every process in it     *)
(* runs one or has its parent in it.                                       *)
LEMMA TreeCloses == ASSUME NEW t PROVE Closed(t, TreeOf(t))
BY DEF Closed, TreeOf

LEMMA TreeIsLeast ==
    ASSUME NEW t, NEW p \in TreeOf(t)
    PROVE  /\ p \in Pids \ {1} /\ t[p] # None
           /\ t[p].image \in Guarded \/ t[p].parent \in TreeOf(t)
<1> DEFINE Good(q) == /\ q \in Pids \ {1} /\ t[q] # None
                      /\ t[q].image \in Guarded \/ t[q].parent \in TreeOf(t)
           S == {q \in TreeOf(t) : Good(q)}
<1>1. S \subseteq TreeOf(t) /\ TreeOf(t) \subseteq Pids
  BY DEF TreeOf
<1>2. Closed(t, S)
  <2> SUFFICES ASSUME NEW q \in Pids \ {1}, t[q] # None, t[q].image \in Guarded \/ t[q].parent \in S
               PROVE  q \in S
    BY DEF Closed
  <2>1. t[q].image \in Guarded \/ t[q].parent \in TreeOf(t)
    BY <1>1
  <2>2. q \in TreeOf(t)
    BY <2>1, TreeCloses DEF Closed
  <2> QED BY <2>1, <2>2
<1> HIDE DEF S
<1>3. p \in S
  BY <1>1, <1>2 DEF TreeOf
<1> QED BY <1>3 DEF S

LEMMA InitSocket ==
    ASSUME ProcAssumption, Init
    PROVE  SocketInv
<1>1. proc[1] # None
  <2>1. proc[1] = [parent |-> 1, image |-> Plain]
    BY Constants DEF Init, Trees
  <2> QED BY <2>1 DEF None
<1>2. Lives
  BY <1>1, TreeIsLeast DEF Init, Lives, Live
<1>3. Execs /\ Verdicts /\ FirstSeed
  BY DEF Init, Execs, Verdicts, FirstSeed
<1> QED BY <1>2, <1>3 DEF SocketInv, Init

(***************************************************************************)
(* What the records will be.                                               *)
(***************************************************************************)

(* A view of the processes: their images, which are untrusted, and whether *)
(* the monitor's record of them is right already.                          *)
View == [image : [Pids -> Images \cup {"none"}], tree : SUBSET Pids, ready : SUBSET Pids]

(* Handling e makes view b of view a, where x[p] is what p runs by then.   *)
Foreseen(e, x, a, b) ==
    /\ e.what = "fork" =>
          /\ e.by \in a.ready /\ a.image[e.by] # "none"
          /\ b.image = [a.image EXCEPT ![e.pid] = a.image[e.by]]
          /\ b.tree = IF e.by \in a.tree THEN a.tree \cup {e.pid} ELSE a.tree \ {e.pid}
    /\ e.what = "exit" =>
          /\ b.image = [a.image EXCEPT ![e.pid] = "none"]
          /\ b.tree = a.tree \ {e.pid}
    /\ e.what = "exec" =>
          /\ e.pid \in a.ready
          /\ b.image = [a.image EXCEPT ![e.pid] = x[e.pid]]
          /\ b.tree = IF x[e.pid] \in Guarded THEN a.tree \cup {e.pid} ELSE a.tree
    /\ e.what \in {"uid", "ptrace"} => b.image = a.image /\ b.tree = a.tree
    /\ \A p \in b.ready : p \in a.ready \/ Changes(e, p)

(* v foresees, event by event of q, how the records become the truth.      *)
Chain(v, q, truth) ==
    /\ v \in [0..Len(q) -> View]
    /\ v[Len(q)] = truth
    /\ \A i \in 1..Len(q) : Foreseen(q[i], truth.image, v[i - 1], v[i])

Less(a, N) == [a EXCEPT !.ready = @ \ N]

LEMMA LessIs ==
    ASSUME NEW a \in View, NEW N
    PROVE  /\ Less(a, N) \in View /\ Less(a, N).image = a.image /\ Less(a, N).tree = a.tree
           /\ Less(a, N).ready = a.ready \ N
BY DEF Less, View

(* One more event, which the record of N is made right by.                 *)
Adds(q, v, truth, e, next, N) ==
    /\ q \in Seq(Event) /\ Chain(v, q, truth) /\ e \in Event /\ next \in View
    /\ Foreseen(e, next.image, Less(truth, N), next)
    /\ \A i \in 1..Len(q) :
          /\ q[i].what = "fork" => q[i].by \notin N
          /\ q[i].what = "exec" => /\ q[i].pid \notin N
                                   /\ next.image[q[i].pid] = truth.image[q[i].pid]

(* The views before it forget N.                                           *)
Forgets(w, v, n, N) ==
    \A i \in 0..n : /\ w[i].image = v[i].image /\ w[i].tree = v[i].tree
                    /\ w[i].ready = v[i].ready \ N

LEMMA ChainGrows ==
    ASSUME NEW q, NEW v, NEW truth, NEW e, NEW next, NEW N, Adds(q, v, truth, e, next, N)
    PROVE  \E w : Chain(w, Append(q, e), next) /\ Forgets(w, v, Len(q), N)
<1>0. /\ q \in Seq(Event) /\ Chain(v, q, truth) /\ e \in Event /\ next \in View
      /\ Foreseen(e, next.image, Less(truth, N), next)
      /\ \A i \in 1..Len(q) :
            /\ q[i].what = "fork" => q[i].by \notin N
            /\ q[i].what = "exec" => /\ q[i].pid \notin N
                                     /\ next.image[q[i].pid] = truth.image[q[i].pid]
  BY DEF Adds
<1> DEFINE n == Len(q)
           r == Append(q, e)
           w == [i \in 0..(n + 1) |-> IF i <= n THEN Less(v[i], N) ELSE next]
<1>1. /\ n \in Nat /\ Len(r) = n + 1 /\ r[n + 1] = e /\ \A i \in 1..n : r[i] = q[i]
  BY <1>0, Appended
<1>2. /\ v \in [0..n -> View] /\ v[n] = truth
      /\ \A i \in 1..n : Foreseen(q[i], truth.image, v[i - 1], v[i])
  BY <1>0 DEF Chain
<1> HIDE DEF r
<1>3. /\ w \in [0..(n + 1) -> View] /\ w[n + 1] = next
      /\ \A i \in 0..n : w[i] = Less(v[i], N)
  <2>1. \A i \in 0..n : Less(v[i], N) \in View
    BY <1>2, LessIs
  <2> HIDE DEF n
  <2> QED BY <1>0, <1>1, <2>1
<1> HIDE DEF w, n
<1>4. ASSUME NEW i \in 1..(n + 1)
      PROVE  Foreseen(r[i], next.image, w[i - 1], w[i])
  <2>1. CASE i \in 1..n
    <3>1. i - 1 \in 0..n /\ i \in 0..n
      BY <1>1, <2>1
    <3> DEFINE a == v[i - 1]
               b == v[i]
    <3>2. a \in View /\ b \in View /\ Foreseen(q[i], truth.image, a, b)
      BY <1>2, <2>1, <3>1
    <3>3. w[i - 1] = Less(a, N) /\ w[i] = Less(b, N) /\ r[i] = q[i]
      BY <1>1, <1>3, <2>1, <3>1
    <3>4. /\ q[i].what = "fork" => q[i].by \notin N
          /\ q[i].what = "exec" => /\ q[i].pid \notin N
                                   /\ next.image[q[i].pid] = truth.image[q[i].pid]
      BY <1>0, <2>1 DEF n
    <3> HIDE DEF a, b
    <3>5. Foreseen(q[i], next.image, Less(a, N), Less(b, N))
      <4>1. /\ Less(a, N).image = a.image /\ Less(a, N).tree = a.tree
            /\ Less(a, N).ready = a.ready \ N
            /\ Less(b, N).image = b.image /\ Less(b, N).tree = b.tree
            /\ Less(b, N).ready = b.ready \ N
        BY <3>2, LessIs
      <4> QED BY <3>2, <3>4, <4>1 DEF Foreseen
    <3> QED BY <3>3, <3>5
  <2>2. CASE i = n + 1
    <3>1. w[i - 1] = Less(truth, N) /\ w[i] = next /\ r[i] = e
      BY <1>1, <1>2, <1>3, <2>2
    <3> QED BY <1>0, <3>1
  <2> QED BY <1>1, <2>1, <2>2
<1>5. Chain(w, r, next)
  BY <1>1, <1>3, <1>4 DEF Chain
<1>6. Forgets(w, v, n, N)
  BY <1>2, <1>3, LessIs DEF Forgets
<1> QED BY <1>5, <1>6 DEF n, r

LEMMA ChainShrinks ==
    ASSUME NEW q \in Seq(Event), q # <<>>, NEW v, NEW truth, Chain(v, q, truth)
    PROVE  \E w : /\ Chain(w, Tail(q), truth)
                  /\ \A i \in 0..(Len(q) - 1) : w[i] = v[i + 1]
<1> DEFINE n == Len(q)
           r == Tail(q)
           w == [i \in 0..(n - 1) |-> v[i + 1]]
<1>1. n \in Nat \ {0} /\ Len(r) = n - 1 /\ \A i \in 1..(n - 1) : r[i] = q[i + 1]
  BY Shifted
<1>2. /\ v \in [0..n -> View] /\ v[n] = truth
      /\ \A i \in 1..n : Foreseen(q[i], truth.image, v[i - 1], v[i])
  BY DEF Chain
<1> HIDE DEF r, n
<1>3. /\ w \in [0..(n - 1) -> View] /\ w[n - 1] = truth
  BY <1>1, <1>2
<1>4. ASSUME NEW i \in 1..(n - 1)
      PROVE  Foreseen(r[i], truth.image, w[i - 1], w[i])
  <2>1. i + 1 \in 1..n /\ (i + 1) - 1 = i /\ (i - 1) + 1 = i /\ i - 1 \in 0..(n - 1) /\ i \in 0..(n - 1)
    BY <1>1
  <2>2. Foreseen(q[i + 1], truth.image, v[i], v[i + 1])
    BY <1>2, <2>1
  <2> QED BY <1>1, <2>1, <2>2
<1>5. \A i \in 0..(n - 1) : w[i] = v[i + 1]
  OBVIOUS
<1> HIDE DEF w
<1>6. Chain(w, r, truth)
  BY <1>1, <1>3, <1>4 DEF Chain
<1> QED BY <1>5, <1>6 DEF n, r

(* What no later event changes is right already.                           *)
LEMMA ChainRests ==
    ASSUME NEW q \in Seq(Event), NEW v, NEW truth, Chain(v, q, truth), truth.ready = Pids,
           NEW a \in 0..Len(q), NEW p \in Pids,
           \A j \in 1..Len(q) : j > a => ~Changes(q[j], p)
    PROVE  /\ p \in v[a].ready /\ v[a].image[p] = truth.image[p]
           /\ p \in v[a].tree <=> p \in truth.tree
<1> DEFINE n == Len(q)
           Same(i) == /\ p \in v[i].ready /\ v[i].image[p] = truth.image[p]
                      /\ p \in v[i].tree <=> p \in truth.tree
           S == {d \in 0..(n - a) : Same(n - d)}
<1>1. n \in Nat /\ n - a \in Nat /\ n - (n - a) = a /\ n - 0 = n
  OBVIOUS
<1>2. /\ v \in [0..n -> View] /\ v[n] = truth
      /\ \A i \in 1..n : Foreseen(q[i], truth.image, v[i - 1], v[i])
  BY DEF Chain
<1>3. 0 \in S
  BY <1>1, <1>2
<1>4. ASSUME NEW d \in 0..(n - a), d \in S, d < n - a
      PROVE  d + 1 \in S
  <2> DEFINE i == n - d
  <2>1. i \in 1..n /\ i > a /\ n - (d + 1) = i - 1 /\ i - 1 \in 0..n /\ i \in 0..n /\ d + 1 \in 0..(n - a)
    BY <1>1, <1>4
  <2>2. q[i] \in Event /\ ~Changes(q[i], p) /\ Foreseen(q[i], truth.image, v[i - 1], v[i])
    BY <1>2, <2>1
  <2>3. v[i - 1] \in View /\ Same(i)
    BY <1>2, <1>4, <2>1
  <2> HIDE DEF i
  <2>4. /\ q[i].pid # p \/ q[i].what \in {"uid", "ptrace"}
        /\ q[i].what \in {"fork", "ptrace", "exec", "exit", "uid"} /\ q[i].pid \in Pids
    BY <2>2, EventIs DEF Changes
  <2>5. p \in v[i - 1].ready
    BY <2>2, <2>3 DEF Foreseen
  <2>6. v[i - 1].image[p] = v[i].image[p] /\ (p \in v[i - 1].tree <=> p \in v[i].tree)
    <3> DEFINE b == v[i - 1]
               c == v[i]
               e == q[i]
    <3>1. b.image \in [Pids -> Images \cup {"none"}] /\ Foreseen(e, truth.image, b, c)
      BY <2>2, <2>3 DEF View
    <3>2. e.pid # p \/ e.what \in {"uid", "ptrace"}
      BY <2>4
    <3>3. e.what \in {"fork", "ptrace", "exec", "exit", "uid"}
      BY <2>4
    <3> SUFFICES c.image[p] = b.image[p] /\ (p \in c.tree <=> p \in b.tree)
      BY DEF b, c
    <3> HIDE DEF b, c, e
    <3>4. CASE e.what = "fork"
      BY <3>1, <3>2, <3>4 DEF Foreseen
    <3>5. CASE e.what = "exit"
      BY <3>1, <3>2, <3>5 DEF Foreseen
    <3>6. CASE e.what = "exec"
      BY <3>1, <3>2, <3>6 DEF Foreseen
    <3>7. CASE e.what \in {"uid", "ptrace"}
      BY <3>1, <3>7 DEF Foreseen
    <3> QED BY <3>3, <3>4, <3>5, <3>6, <3>7
  <2>7. Same(i - 1)
    BY <2>3, <2>5, <2>6
  <2> QED BY <2>1, <2>7
<1> HIDE DEF S, n
<1>5. n - a \in S
  <2>1. PICK m \in Nat : m = n - a
    BY <1>1
  <2>2. \A d \in 0..m : d \in S /\ d < m => d + 1 \in S
    BY <1>4, <2>1
  <2>3. 0..m \subseteq S
    BY <1>3, <2>2, Inductive, Zenon
  <2>4. m \in 0..m
    BY <2>1
  <2> QED BY <2>1, <2>3, <2>4
<1>6. Same(n - (n - a))
  BY <1>5 DEF S
<1> QED BY <1>1, <1>6

(***************************************************************************)
(* The records, the offences and the kills while nothing of Kinds has      *)
(* happened.                                                               *)
(***************************************************************************)

Truth == [image |-> [p \in Pids |-> proc[p].image], tree |-> untrusted, ready |-> Pids]

Agrees(a) == \A p \in a.ready : /\ procs[p].image = a.image[p]
                                /\ RootOf(p) # 0 <=> p \in a.tree

(* What the first pass of seed_from_proc makes of p.                       *)
Read(p) == /\ Known(p) <=> Live(p)
           /\ Live(p) => /\ procs[p].parent = IF p = 1 THEN 0 ELSE proc[p].parent
                         /\ procs[p].image = proc[p].image
                         /\ procs[p].root = IF proc[p].image \in Guarded THEN p ELSE 0

(* The processes that are not yet to be told of by a fork are those that   *)
(* the daemon found, in a tree of 32 generations at most.                  *)
Seeds(a) ==
    /\ \A p \in a.ready :
          /\ proc[p].image = a.image[p] /\ (p \in untrusted <=> p \in a.tree)
          /\ Live(p) => proc[p].parent \in a.ready /\ Live(proc[p].parent)
          /\ Live(p) /\ p # 1 /\ (proc[p].image \in Guarded \/ proc[p].parent \in untrusted)
                 => p \in untrusted
          /\ p \in untrusted => proc[p].image \in Guarded \/ proc[p].parent \in untrusted
          /\ p \notin todo => Read(p)
    /\ (\A p \in todo : ~Known(p)) /\ proc[1].image \notin Guarded
    /\ \E depth \in [Pids -> 0..32] : \A p \in a.ready :
          p \in untrusted /\ proc[p].image \notin Guarded =>
              depth[proc[p].parent] < depth[p]

(* An offence that waits for the event it is noticed by.                   *)
PrivescDue(v, p) ==
    /\ proc[p].image \notin Elevators
    /\ \E i \in DOMAIN queue : /\ queue[i].what = "uid" /\ queue[i].pid = p
                               /\ p \in v[i - 1].ready /\ p \in v[i - 1].tree
PtraceDue(v, p, guarded) ==
    /\ proc[p].image \notin Debuggers
    /\ \E i \in DOMAIN queue :
          /\ queue[i].what = "ptrace" /\ queue[i].by = p /\ queue[i].pid # p
          /\ guarded => queue[i].pid \in v[i - 1].ready /\ queue[i].pid \in v[i - 1].tree
Offends(p) ==
    /\ proc[p].image \in Payload \ (Ignored \cup Guarded)
    /\ Known(p) /\ procs[p].root # 0 /\ clock - procs[p].started >= Grace
    /\ procs[p].root = p => procs[p].image # proc[p].image
LineageDue(p) ==
    /\ Offends(p)
    /\ \E i \in DOMAIN queue : queue[i].what = "exec" /\ queue[i].pid = p
Due(v, o) ==
    /\ Live(o[2])
    /\ \/ o[1] = "privesc" /\ PrivescDue(v, o[2])
       \/ o[1] = "ptrace" /\ PtraceDue(v, o[2], FALSE)
       \/ o[1] = "ptrace guarded" /\ PtraceDue(v, o[2], TRUE)
       \/ o[1] = "lineage" /\ LineageDue(o[2])

Owing(v) == \A o \in owed : o \in reports \/ o \in verdict \/ Due(v, o)
Justified == \A u \in verdict : u[2] \in untrusted \/ proc[u[2]].image \in Temp

Calm(v) == /\ Chain(v, queue, Truth)
           /\ phase = "seeding" => Seeds(v[0])
           /\ phase # "seeding" => Agrees(v[0])
           /\ Owing(v) /\ Justified /\ strays = {}

CalmInv == disturbed = {} => \E v : Calm(v)

LEMMA TruthIs ==
    ASSUME ProcAssumption, TypeOK
    PROVE  /\ Truth \in View /\ Truth.ready = Pids /\ Truth.tree = untrusted
           /\ \A p \in Pids : /\ Truth.image[p] = proc[p].image
                              /\ Live(p) => proc[p].image # "none"
                              /\ ~Live(p) => proc[p].image = "none"
<1>1. \A p \in Pids : \/ Live(p) /\ proc[p] \in Process /\ proc[p].image \in Images
                      \/ ~Live(p) /\ proc[p] = None /\ proc[p].image = "none"
  <2>1. \A p \in Pids : proc[p] = None \/ proc[p] \in Process
    BY DEF TypeOK
  <2>2. None.image = "none"
    BY DEF None
  <2> QED BY <2>1, <2>2, RecIs DEF Live
<1>2. [p \in Pids |-> proc[p].image] \in [Pids -> Images \cup {"none"}]
  BY <1>1
<1>3. untrusted \subseteq Pids
  BY DEF TypeOK
<1> QED BY <1>1, <1>2, <1>3, Constants DEF Truth, View

LEMMA LessTruth ==
    ASSUME ProcAssumption, TypeOK, NEW N
    PROVE  /\ Less(Truth, N).image = [p \in Pids |-> proc[p].image]
           /\ Less(Truth, N).image \in [Pids -> Images \cup {"none"}]
           /\ Less(Truth, N).tree = untrusted /\ Less(Truth, N).ready = Pids \ N
<1>1. PICK truth : truth = Truth
  OBVIOUS
<1>2. truth \in View /\ truth.ready = Pids
  BY <1>1, TruthIs
<1>3. /\ Less(truth, N) \in View /\ Less(truth, N).image = truth.image
      /\ Less(truth, N).tree = truth.tree /\ Less(truth, N).ready = truth.ready \ N
  BY <1>2, LessIs
<1>4. truth.image = [p \in Pids |-> proc[p].image] /\ truth.tree = untrusted
  BY <1>1 DEF Truth
<1> QED BY <1>1, <1>2, <1>3, <1>4 DEF View

LEMMA OffendsKept ==
    ASSUME ProcAssumption, procs \in [Pids -> Rec \cup {None}], procs' = procs,
           NEW p \in Pids, proc'[p].image = proc[p].image,
           clock \in Int, clock' \in Int, clock' >= clock, Offends(p)
    PROVE  Offends(p)'
<1>1. procs[p] # None /\ procs[p].root # 0 /\ clock - procs[p].started >= Grace
      /\ proc[p].image \in Payload \ (Ignored \cup Guarded)
      /\ (procs[p].root = p => procs[p].image # proc[p].image)
  BY DEF Offends, Known
<1>2. procs[p] \in Rec
  BY <1>1
<1>3. procs[p].started \in Int /\ Grace \in Int
  BY <1>2, Constants DEF Rec
<1>4. clock' - procs[p].started >= Grace
  BY <1>1, <1>3
<1> QED BY <1>1, <1>4 DEF Offends, Known

(* After one more event, what was due is due.                              *)
LEMMA DueGrows ==
    ASSUME queue \in Seq(Event), NEW e \in Event, queue' = Append(queue, e),
           NEW v, NEW w, NEW N,
           \A i \in 0..Len(queue) : w[i].tree = v[i].tree /\ w[i].ready = v[i].ready \ N,
           \A i \in DOMAIN queue : queue[i].pid \notin N,
           NEW o \in Signals \X Pids, Due(v, o), Live(o[2])',
           proc'[o[2]].image = proc[o[2]].image, procs' = procs,
           clock' \in Int, clock \in Int, clock' >= clock, procs \in [Pids -> Rec \cup {None}],
           ProcAssumption
    PROVE  Due(w, o)'
<1>1. PICK q : q = queue
  OBVIOUS
<1>2. PICK p \in Pids : p = o[2]
  OBVIOUS
<1> DEFINE r == Append(q, e)
<1>3. \A i \in DOMAIN q : i \in DOMAIN r /\ r[i] = q[i]
  BY <1>1, Appended
<1>4. queue' = r
  BY <1>1
<1> HIDE DEF r
<1>5. \A i \in DOMAIN q : i - 1 \in 0..Len(q)
  BY <1>1
<1>6. ASSUME NEW i \in DOMAIN q, q[i].pid \in v[i - 1].ready, q[i].pid \in v[i - 1].tree
      PROVE  q[i].pid \in w[i - 1].ready /\ q[i].pid \in w[i - 1].tree
  BY <1>1, <1>5, <1>6
<1>7. ASSUME PrivescDue(v, p) PROVE PrivescDue(w, p)'
  <2>1. PICK i \in DOMAIN q : /\ q[i].what = "uid" /\ q[i].pid = p
                              /\ p \in v[i - 1].ready /\ p \in v[i - 1].tree
    BY <1>1, <1>7 DEF PrivescDue
  <2>2. i \in DOMAIN r /\ r[i] = q[i] /\ p \in w[i - 1].ready /\ p \in w[i - 1].tree
    BY <1>3, <1>6, <2>1
  <2> QED BY <1>2, <1>4, <1>7, <2>1, <2>2 DEF PrivescDue
<1>8. ASSUME NEW g, PtraceDue(v, p, g) PROVE PtraceDue(w, p, g)'
  <2>1. PICK i \in DOMAIN q :
            /\ q[i].what = "ptrace" /\ q[i].by = p /\ q[i].pid # p
            /\ g => q[i].pid \in v[i - 1].ready /\ q[i].pid \in v[i - 1].tree
    BY <1>1, <1>8 DEF PtraceDue
  <2>2. /\ i \in DOMAIN r /\ r[i] = q[i]
        /\ g => r[i].pid \in w[i - 1].ready /\ r[i].pid \in w[i - 1].tree
    BY <1>3, <1>6, <2>1
  <2> QED BY <1>2, <1>4, <1>8, <2>1, <2>2 DEF PtraceDue
<1>9. ASSUME LineageDue(p) PROVE LineageDue(p)'
  <2>1. PICK i \in DOMAIN q : q[i].what = "exec" /\ q[i].pid = p
    BY <1>1, <1>9 DEF LineageDue
  <2>2. i \in DOMAIN r /\ r[i] = q[i]
    BY <1>3, <2>1
  <2>3. Offends(p)'
    BY <1>2, <1>9, OffendsKept DEF LineageDue
  <2> QED BY <1>4, <2>1, <2>2, <2>3 DEF LineageDue
<1> QED BY <1>2, <1>7, <1>8, <1>9 DEF Due

(* What was due is due, or it is noticed by the event at the head.         *)
DueNow(v, o) ==
    /\ Live(o[2])
    /\ \/ /\ o[1] = "privesc" /\ event.what = "uid" /\ event.pid = o[2]
          /\ proc[o[2]].image \notin Elevators /\ o[2] \in v[0].ready /\ o[2] \in v[0].tree
       \/ /\ o[1] \in {"ptrace", "ptrace guarded"} /\ event.what = "ptrace" /\ event.by = o[2]
          /\ event.pid # o[2] /\ proc[o[2]].image \notin Debuggers
          /\ o[1] = "ptrace guarded" => event.pid \in v[0].ready /\ event.pid \in v[0].tree
       \/ /\ o[1] = "lineage" /\ event.what = "exec" /\ event.pid = o[2] /\ Offends(o[2])

LEMMA DueShrinks ==
    ASSUME queue \in Seq(Event), queue # <<>>, queue' = Tail(queue), proc' = proc,
           clock' = clock, Execs, NEW v, NEW w,
           \A i \in 0..(Len(queue) - 1) : w[i] = v[i + 1],
           \A q \in Pids : ~Changes(event, q) => procs'[q] = procs[q],
           NEW o \in Signals \X Pids, Due(v, o)
    PROVE  Due(w, o)' \/ DueNow(v, o)
<1> SUFFICES ASSUME ~DueNow(v, o) PROVE Due(w, o)'
  OBVIOUS
<1>1. PICK q : q = queue
  OBVIOUS
<1>2. PICK p \in Pids : p = o[2]
  OBVIOUS
<1> DEFINE r == Tail(q)
<1>3. /\ \A i \in DOMAIN q : i # 1 => i - 1 \in DOMAIN r /\ r[i - 1] = q[i]
      /\ 1 \in DOMAIN q /\ q[1] = Head(q) /\ DOMAIN q = 1..Len(q)
      /\ Len(q) \in Nat
  BY <1>1, Shifted
<1>4. queue' = r /\ event = q[1]
  BY <1>1, <1>3 DEF event
<1> HIDE DEF r
<1>5. \A i \in DOMAIN q : i # 1 => w[(i - 1) - 1] = v[i - 1]
  BY <1>1, <1>3
<1>6. 1 - 1 = 0
  OBVIOUS
<1>7. ASSUME PrivescDue(v, p), o[1] = "privesc" PROVE PrivescDue(w, p)'
  <2>1. PICK i \in DOMAIN q : /\ q[i].what = "uid" /\ q[i].pid = p
                              /\ p \in v[i - 1].ready /\ p \in v[i - 1].tree
    BY <1>1, <1>7 DEF PrivescDue
  <2>2. i # 1
    BY <1>2, <1>4, <1>6, <1>7, <2>1 DEF DueNow, Due, PrivescDue
  <2>3. /\ i - 1 \in DOMAIN r /\ r[i - 1] = q[i]
        /\ p \in w[(i - 1) - 1].ready /\ p \in w[(i - 1) - 1].tree
    BY <1>3, <1>5, <2>1, <2>2
  <2> QED BY <1>4, <1>7, <2>1, <2>3 DEF PrivescDue
<1>8. ASSUME NEW g \in BOOLEAN, PtraceDue(v, p, g),
             o[1] = IF g THEN "ptrace guarded" ELSE "ptrace"
      PROVE  PtraceDue(w, p, g)'
  <2>1. PICK i \in DOMAIN q :
            /\ q[i].what = "ptrace" /\ q[i].by = p /\ q[i].pid # p
            /\ g => q[i].pid \in v[i - 1].ready /\ q[i].pid \in v[i - 1].tree
    BY <1>1, <1>8 DEF PtraceDue
  <2>2. i # 1
    BY <1>2, <1>4, <1>6, <1>8, <2>1 DEF DueNow, Due, PtraceDue
  <2>3. /\ i - 1 \in DOMAIN r /\ r[i - 1] = q[i]
        /\ g => q[i].pid \in w[(i - 1) - 1].ready /\ q[i].pid \in w[(i - 1) - 1].tree
    BY <1>3, <1>5, <2>1, <2>2
  <2> QED BY <1>4, <1>8, <2>1, <2>3 DEF PtraceDue
<1>9. ASSUME LineageDue(p), o[1] = "lineage" PROVE LineageDue(p)'
  <2>1. PICK i \in DOMAIN q : q[i].what = "exec" /\ q[i].pid = p
    BY <1>1, <1>9 DEF LineageDue
  <2>2. i # 1
    BY <1>2, <1>4, <1>9, <2>1 DEF DueNow, Due, LineageDue
  <2>3. i - 1 \in DOMAIN r /\ r[i - 1] = q[i]
    BY <1>3, <2>1, <2>2
  <2>4. ~Changes(event, p)
    BY <1>1, <1>3, <1>4, <2>1, <2>2 DEF Execs
  <2>5. Offends(p)'
    BY <1>9, <2>4 DEF LineageDue, Offends, Known
  <2> QED BY <1>4, <2>1, <2>3, <2>5 DEF LineageDue
<1> QED BY <1>2, <1>7, <1>8, <1>9 DEF Due, Live

(***************************************************************************)
(* The steps of the processes.                                             *)
(***************************************************************************)

(* One more event that the monitor will see for what it is.                *)
Queues(e, N) ==
    /\ e \in Event /\ queue' = Append(queue, e) /\ N \in SUBSET Pids
    /\ Foreseen(e, Truth'.image, Less(Truth, N), Truth')
    /\ phase = "seeding" \/ N = {}
    /\ \A p \in N : ~Live(p)
    /\ \A p \in Pids : proc'[p].image # proc[p].image => ~Live(p) \/ ~Pending(p)

LEMMA CalmGrows ==
    ASSUME ProcAssumption, TypeOK, TypeOK', NEW v, Calm(v), Execs, FirstSeed, Lives,
           NEW e, NEW N, Queues(e, N)
    PROVE  \E w : Chain(w, queue', Truth') /\ Forgets(w, v, Len(queue), N)
<1>0. /\ e \in Event /\ queue' = Append(queue, e) /\ N \in SUBSET Pids
      /\ Foreseen(e, Truth'.image, Less(Truth, N), Truth')
      /\ phase = "seeding" \/ N = {}
      /\ \A p \in N : ~Live(p)
      /\ \A p \in Pids : proc'[p].image # proc[p].image => ~Live(p) \/ ~Pending(p)
  BY DEF Queues
<1>1. PICK q \in Seq(Event) : q = queue
  BY DEF TypeOK
<1>2. PICK truth : truth = Truth
  OBVIOUS
<1>3. PICK next : next = Truth'
  OBVIOUS
<1>4. next \in View
  <2>1. Truth' \in [image : [Pids -> Images \cup {"none"}], tree : SUBSET Pids, ready : SUBSET Pids]
    <3>1. \A p \in Pids : proc'[p].image \in Images \cup {"none"}
      <4>1. \A p \in Pids : proc'[p] = None \/ proc'[p] \in Process
        BY DEF TypeOK
      <4>2. None.image = "none"
        BY DEF None
      <4> QED BY <4>1, <4>2, RecIs
    <3>2. untrusted' \subseteq Pids
      BY DEF TypeOK
    <3> QED BY <3>1, <3>2 DEF Truth
  <2> QED BY <1>3, <2>1 DEF View
<1>5. Chain(v, q, truth)
  BY <1>1, <1>2 DEF Calm
<1>6. \A p \in Pids : truth.image[p] = proc[p].image /\ next.image[p] = proc'[p].image
  BY <1>2, <1>3 DEF Truth
<1>7. ASSUME NEW i \in 1..Len(q)
      PROVE  /\ q[i].what = "fork" => q[i].by \notin N
             /\ q[i].what = "exec" => /\ q[i].pid \notin N
                                      /\ next.image[q[i].pid] = truth.image[q[i].pid]
  <2>1. q[i] \in Event /\ i \in DOMAIN queue
    BY <1>1
  <2>2. q[i].what = "fork" => q[i].by \notin N
    BY <1>0, <1>1, <2>1 DEF FirstSeed
  <2>3. q[i].what = "exec" => Live(q[i].pid) /\ Pending(q[i].pid) /\ q[i].pid \in Pids
    BY <1>1, <2>1, EventIs DEF Execs, Pending, Changes
  <2> QED BY <1>0, <1>6, <2>2, <2>3
<1>8. Foreseen(e, next.image, Less(truth, N), next)
  BY <1>0, <1>2, <1>3
<1> HIDE DEF Chain
<1>9. Adds(q, v, truth, e, next, N)
  BY <1>0, <1>4, <1>5, <1>7, <1>8 DEF Adds
<1>10. \E w : Chain(w, Append(q, e), next) /\ Forgets(w, v, Len(q), N)
  BY <1>9, ChainGrows, Zenon
<1> QED BY <1>0, <1>1, <1>3, <1>10

LEMMA ReadKept ==
    ASSUME procs' = procs, NEW p, proc'[p] = proc[p], Read(p)
    PROVE  Read(p)'
BY DEF Read, Known, Live

(* A process that has no event pending is known for what it is.            *)
LEMMA RestsIs ==
    ASSUME ProcAssumption, TypeOK, NEW v, Calm(v), phase # "seeding", NEW p \in Pids, ~Pending(p)
    PROVE  /\ procs[p].image = proc[p].image
           /\ RootOf(p) # 0 <=> p \in untrusted
<1>1. queue \in Seq(Event) /\ Chain(v, queue, Truth) /\ Truth.ready = Pids
  BY TruthIs DEF TypeOK, Calm
<1>2. \A j \in 1..Len(queue) : j > 0 => ~Changes(queue[j], p)
  BY <1>1 DEF Pending
<1>3. /\ p \in v[0].ready /\ v[0].image[p] = Truth.image[p]
      /\ p \in v[0].tree <=> p \in Truth.tree
  <2>1. PICK q \in Seq(Event) : q = queue
    BY <1>1
  <2>2. PICK truth : truth = Truth
    OBVIOUS
  <2>3. PICK a \in 0..Len(q) : a = 0
    BY <2>1
  <2>4. Chain(v, q, truth) /\ truth.ready = Pids
        /\ \A j \in 1..Len(q) : j > a => ~Changes(q[j], p)
    BY <1>1, <1>2, <2>1, <2>2, <2>3
  <2>5. /\ p \in v[a].ready /\ v[a].image[p] = truth.image[p]
        /\ p \in v[a].tree <=> p \in truth.tree
    BY <2>4, ChainRests, Zenon
  <2> QED BY <2>2, <2>3, <2>5
<1>4. Agrees(v[0])
  BY DEF Calm
<1> QED BY <1>3, <1>4, TruthIs DEF Agrees

LEMMA AgreesKept ==
    ASSUME procs' = procs, NEW a, NEW b, a.image = b.image, a.tree = b.tree,
           b.ready \subseteq a.ready, Agrees(a)
    PROVE  Agrees(b)'
BY RootsFixed DEF Agrees, RootOf, Known

(* The views that follow foresee it, and keep what is due.                 *)
Follow(w, v, N) ==
    /\ Chain(w, queue', Truth')
    /\ w[0].image = v[0].image /\ w[0].tree = v[0].tree
    /\ w[0].ready = v[0].ready \ N
    /\ w[Len(queue)].ready = Pids \ N /\ w[Len(queue)].tree = untrusted
    /\ phase # "seeding" => Agrees(w[0])'
    /\ \A o \in owed : Due(v, o) /\ Live(o[2])'
                       /\ proc'[o[2]].image = proc[o[2]].image => Due(w, o)'

LEMMA StepGrows ==
    ASSUME ProcAssumption, TypeOK, TypeOK', NEW v, Calm(v), Execs, FirstSeed, Lives,
           NEW e, NEW N, Queues(e, N), procs' = procs, clock' = clock
    PROVE  \E w : Follow(w, v, N)
<1>0. /\ e \in Event /\ queue' = Append(queue, e) /\ N \in SUBSET Pids
      /\ phase = "seeding" \/ N = {}
      /\ \A p \in N : ~Live(p)
  BY DEF Queues
<1>1. PICK w : /\ Chain(w, queue', Truth')
               /\ \A i \in 0..Len(queue) :
                     /\ w[i].image = v[i].image /\ w[i].tree = v[i].tree
                     /\ w[i].ready = v[i].ready \ N
  <2>1. \E w : Chain(w, queue', Truth') /\ Forgets(w, v, Len(queue), N)
    BY CalmGrows, Zenon
  <2> QED BY <2>1 DEF Forgets
<1>2. queue \in Seq(Event) /\ Len(queue) \in Nat /\ 0 \in 0..Len(queue)
      /\ Len(queue) \in 0..Len(queue)
  BY DEF TypeOK
<1>3. w[0].image = v[0].image /\ w[0].tree = v[0].tree /\ w[0].ready = v[0].ready \ N
  BY <1>1, <1>2
<1>4. w[Len(queue)].ready = Pids \ N /\ w[Len(queue)].tree = untrusted
  <2>1. v[Len(queue)] = Truth
    BY DEF Calm, Chain
  <2> QED BY <1>1, <1>2, <2>1, TruthIs
<1>5. ASSUME phase # "seeding" PROVE Agrees(w[0])'
  <2>1. Agrees(v[0])
    BY <1>5 DEF Calm
  <2>2. w[0].ready \subseteq v[0].ready
    BY <1>3
  <2> QED BY <1>3, <2>1, <2>2, AgreesKept
<1>6. \A i \in DOMAIN queue : queue[i].pid \notin N
  BY <1>0 DEF FirstSeed
<1>7. ASSUME NEW o \in owed, Due(v, o), Live(o[2])', proc'[o[2]].image = proc[o[2]].image
      PROVE  Due(w, o)'
  <2>1. o \in Signals \X Pids
    BY DEF TypeOK
  <2>2. clock \in Int /\ clock' \in Int /\ clock' >= clock /\ procs \in [Pids -> Rec \cup {None}]
    BY DEF TypeOK
  <2>3. \A i \in 0..Len(queue) : w[i].tree = v[i].tree /\ w[i].ready = v[i].ready \ N
    BY <1>1
  <2> QED BY <1>0, <1>2, <1>6, <1>7, <2>1, <2>2, <2>3, DueGrows, Zenon
<1> QED BY <1>1, <1>3, <1>4, <1>5, <1>7 DEF Follow

LEMMA CalmAgain ==
    ASSUME NEW w, Chain(w, queue', Truth'), strays' = {}, Justified', Owing(w)',
           phase' = "seeding" => Seeds(w[0])', phase' # "seeding" => Agrees(w[0])'
    PROVE  Calm(w)'
<1>1. Chain(w, queue, Truth)'
  BY DEF Chain
<1> QED BY <1>1 DEF Calm

LEMMA EndsCalm ==
    ASSUME ProcAssumption, TypeOK, TypeOK', NEW v, Calm(v), Execs, FirstSeed, Lives,
           NEW p \in Pids, Ends(p, {}), disturbed' = {}, phase # "seeding",
           ~Pending(p), procs' = procs, clock' = clock
    PROVE  \E w : /\ Chain(w, queue', Truth') /\ Agrees(w[0])'
                  /\ \A o \in owed' : Due(v, o) => Due(w, o)'
<1> DEFINE e == [what |-> "exit", pid |-> p]
<1>1. e \in Event /\ e.what = "exit" /\ e.pid = p /\ Queued(e, {})
  BY Events DEF Ends
<1> HIDE DEF e
<1>2. queue' = Append(queue, e) /\ untrusted' = untrusted \ {p}
      /\ owed' = {o \in owed : o[2] # p}
  BY <1>1, QueuedCalmly DEF Ends
<1>3. \A q \in Pids : /\ q # p => (Live(q)' <=> Live(q)) /\ proc'[q].image = proc[q].image
                      /\ q = p => ~Live(q)' /\ proc'[q] = None
  BY EndsKeeps
<1>4. PICK N : N = {}
  OBVIOUS
<1>5. PICK a : a = Less(Truth, N)
  OBVIOUS
<1>6. /\ a.image = [q \in Pids |-> proc[q].image] /\ a.tree = untrusted /\ a.ready = Pids
      /\ a.image \in [Pids -> Images \cup {"none"}]
  BY <1>4, <1>5, LessTruth
<1>7. PICK b : b = Truth'
  OBVIOUS
<1>8. b.image = [q \in Pids |-> proc'[q].image] /\ b.tree = untrusted' /\ b.ready = Pids
  BY <1>7 DEF Truth
<1>9. b.image = [a.image EXCEPT ![p] = "none"]
  <2>1. proc'[p].image = "none"
    BY <1>3 DEF None
  <2>2. b.image[p] = "none" /\ \A q \in Pids : q # p => b.image[q] = a.image[q]
    BY <1>3, <1>6, <1>8, <2>1
  <2>3. b.image = [q \in Pids |-> b.image[q]]
    BY <1>8
  <2> QED BY <1>6, <2>2, <2>3, ExceptIs, Zenon
<1>10. Foreseen(e, b.image, a, b)
  BY <1>1, <1>2, <1>6, <1>8, <1>9 DEF Foreseen
<1>11. \A q \in Pids : proc'[q].image # proc[q].image => ~Live(q) \/ ~Pending(q)
  BY <1>3
<1>12. Foreseen(e, Truth'.image, Less(Truth, N), Truth') /\ N \in SUBSET Pids
       /\ (phase = "seeding" \/ N = {}) /\ \A q \in N : ~Live(q)
  BY <1>4, <1>5, <1>7, <1>10
<1>13. PICK w : /\ Chain(w, queue', Truth')
                /\ Agrees(w[0])'
                /\ \A o \in owed : Due(v, o) /\ Live(o[2])'
                                   /\ proc'[o[2]].image = proc[o[2]].image => Due(w, o)'
  <2>1. Queues(e, N) /\ procs' = procs /\ clock' = clock
    BY <1>1, <1>2, <1>11, <1>12 DEF Queues, monVars
  <2>2. \E w : Follow(w, v, N)
    BY <2>1, StepGrows, Zenon
  <2> QED BY <2>2 DEF Follow
<1>14. ASSUME NEW o \in owed', Due(v, o)
       PROVE  Due(w, o)'
  <2>1. o \in owed /\ o \in Signals \X Pids /\ o[2] # p /\ Live(o[2])
    BY <1>2, <1>14 DEF TypeOK, Due
  <2>2. Live(o[2])' /\ proc'[o[2]].image = proc[o[2]].image
    BY <1>3, <2>1
  <2> QED BY <1>13, <1>14, <2>1, <2>2
<1> QED BY <1>13, <1>14

LEMMA SeedsKept ==
    ASSUME ProcAssumption, TypeOK, procs' = procs, todo' = todo, Lives, NEW N,
           \A p \in N : ~Live(p),
           \A p \in Pids \ N : proc'[p] = proc[p] /\ (p \in untrusted' <=> p \in untrusted),
           NEW a, NEW b, a \in View, b.image = a.image, b.tree = a.tree, b.ready = a.ready \ N,
           Seeds(a)
    PROVE  Seeds(b)'
<1>1. b.ready \subseteq a.ready /\ b.ready \subseteq Pids \ N /\ a.ready \subseteq Pids
  BY DEF View
<1>2. ASSUME NEW p \in b.ready
      PROVE  /\ p \in Pids /\ p \in a.ready /\ proc'[p] = proc[p] /\ (Live(p)' <=> Live(p))
             /\ p \in untrusted' <=> p \in untrusted
             /\ Live(p) => /\ proc[p].parent \in b.ready
                           /\ Live(proc[p].parent) /\ Live(proc[p].parent)'
                           /\ proc[p].parent \in untrusted' <=> proc[p].parent \in untrusted
  <2>1. p \in a.ready /\ p \in Pids \ N /\ proc'[p] = proc[p] /\ (Live(p)' <=> Live(p))
        /\ (p \in untrusted' <=> p \in untrusted)
    BY <1>1 DEF Live
  <2>2. Live(p) => proc[p].parent \in a.ready /\ Live(proc[p].parent)
    BY <2>1 DEF Seeds
  <2>3. Live(p) => proc[p].parent \in b.ready
    BY <2>2
  <2> QED BY <1>1, <2>1, <2>2, <2>3 DEF Live
<1>3. ASSUME NEW p \in b.ready
      PROVE  /\ proc'[p].image = b.image[p] /\ (p \in untrusted' <=> p \in b.tree)
             /\ Live(p)' => proc'[p].parent \in b.ready /\ Live(proc[p].parent)'
  <2>1. proc[p].image = a.image[p] /\ (p \in untrusted <=> p \in a.tree)
    BY <1>2 DEF Seeds
  <2>2. proc'[p].image = b.image[p] /\ (p \in untrusted' <=> p \in b.tree)
    BY <1>2, <2>1
  <2>3. Live(p)' => proc'[p].parent \in b.ready /\ Live(proc[p].parent)'
    BY <1>2
  <2> QED BY <2>2, <2>3
<1>4. ASSUME NEW p \in b.ready, Live(p)', p # 1,
             proc'[p].image \in Guarded \/ proc'[p].parent \in untrusted'
      PROVE  p \in untrusted'
  <2>1. Live(p) /\ (proc[p].image \in Guarded \/ proc[p].parent \in untrusted)
    BY <1>2, <1>4
  <2>2. p \in untrusted
    BY <1>2, <1>4, <2>1 DEF Seeds
  <2> QED BY <1>2, <2>2
<1>5. ASSUME NEW p \in b.ready, p \in untrusted'
      PROVE  proc'[p].image \in Guarded \/ proc'[p].parent \in untrusted'
  <2>1. p \in untrusted /\ Live(p)
    BY <1>2, <1>5 DEF Lives
  <2>2. proc[p].image \in Guarded \/ proc[p].parent \in untrusted
    BY <1>2, <2>1 DEF Seeds
  <2> QED BY <1>2, <2>1, <2>2
<1>6. ASSUME NEW p \in b.ready, p \notin todo'
      PROVE  Read(p)'
  BY <1>2, <1>6, ReadKept DEF Seeds
<1>7. (\A p \in todo : ~Known(p))' /\ proc'[1].image \notin Guarded
  BY Constants DEF Seeds, Known, Lives
<1>8. PICK depth \in [Pids -> 0..32] : \A p \in a.ready :
          p \in untrusted /\ proc[p].image \notin Guarded =>
              depth[proc[p].parent] < depth[p]
  BY DEF Seeds
<1>9. \A p \in b.ready : p \in untrusted' /\ proc'[p].image \notin Guarded =>
                             depth[proc'[p].parent] < depth[p]
  BY <1>2, <1>8
<1> HIDE DEF Read
<1>10. \A p \in b.ready :
          /\ proc'[p].image = b.image[p] /\ (p \in untrusted' <=> p \in b.tree)
          /\ Live(p)' => proc'[p].parent \in b.ready /\ Live(proc[p].parent)'
          /\ Live(p)' /\ p # 1 /\ (proc'[p].image \in Guarded \/ proc'[p].parent \in untrusted')
                 => p \in untrusted'
          /\ p \in untrusted' => proc'[p].image \in Guarded \/ proc'[p].parent \in untrusted'
          /\ p \notin todo' => Read(p)'
  BY <1>3, <1>4, <1>5, <1>6, Zenon
<1>11. \E d \in [Pids -> 0..32] : \A p \in b.ready :
           p \in untrusted' /\ proc'[p].image \notin Guarded => d[proc'[p].parent] < d[p]
  BY <1>9, Zenon
<1>12. (\A p \in todo : ~Known(p))'
  BY <1>7
<1> QED BY <1>7, <1>10, <1>11, <1>12 DEF Seeds

LEMMA DueKept ==
    ASSUME NEW v, NEW o, Due(v, o), proc' = proc, procs' = procs, queue' = queue, clock' = clock
    PROVE  Due(v, o)'
BY DEF Due, PrivescDue, PtraceDue, LineageDue, Offends, Live, Known

LEMMA ExitCalm ==
    ASSUME ProcAssumption, TypeOK, TypeOK', SocketInv, CalmInv, NEW p \in Pids, Exit(p),
           disturbed' = {}
    PROVE  \E v : Calm(v)'
<1>1. Ends(p, Late(p)) /\ p # 1 /\ UNCHANGED <<clock, monVars>>
  BY DEF Exit
<1>2. Queued([what |-> "exit", pid |-> p], Late(p))
  BY <1>1 DEF Ends
<1>3. Late(p) = {} /\ disturbed = {}
  BY <1>2, QueuedCalmly
<1>4. phase # "seeding" /\ ~Pending(p) /\ \A u \in verdict : u[2] # p
  BY <1>3, NotLate
<1>5. Execs /\ FirstSeed /\ Lives
  BY <1>3 DEF SocketInv
<1>6. PICK v : Calm(v)
  BY <1>3 DEF CalmInv
<1>7. procs' = procs /\ clock' = clock /\ Ends(p, {})
  BY <1>1, <1>3 DEF monVars
<1>8. PICK w : /\ Chain(w, queue', Truth') /\ Agrees(w[0])'
               /\ \A o \in owed' : Due(v, o) => Due(w, o)'
  BY <1>4, <1>5, <1>6, <1>7, EndsCalm, Zenon
<1>9. Owing(w)'
  <2>1. \A o \in owed' : o \in owed
    BY <1>7 DEF Ends
  <2>2. Owing(v)
    BY <1>6 DEF Calm
  <2> QED BY <1>1, <1>8, <2>1, <2>2 DEF Owing, monVars
<1>10. Justified'
  <2>1. \A q \in Pids : q # p => proc'[q].image = proc[q].image
    BY <1>7, EndsKeeps
  <2>2. \A u \in verdict : u[2] \in Pids /\ (u[2] \in untrusted \/ proc[u[2]].image \in Temp)
    BY <1>6 DEF Calm, Justified, TypeOK
  <2>3. untrusted' = untrusted \ {p} /\ verdict' = verdict
    BY <1>1, <1>7 DEF Ends, monVars
  <2> QED BY <1>4, <2>1, <2>2, <2>3 DEF Justified
<1>11. strays' = {} /\ phase' # "seeding"
  BY <1>1, <1>4, <1>6 DEF Calm, monVars
<1> QED BY <1>8, <1>9, <1>10, <1>11, CalmAgain

LEMMA StrikeCalm ==
    ASSUME ProcAssumption, TypeOK, TypeOK', SocketInv, CalmInv, Strike, disturbed' = {}
    PROVE  \E v : Calm(v)'
<1>1. phase = "striking" /\ phase' = "watching" /\ verdict' = {} /\ procs' = procs /\ clock' = clock
  BY DEF Strike
<1>2. PICK u \in verdict :
          /\ reports' = reports \cup {u}
          /\ \/ /\ u[2] # 1 /\ Live(u[2]) /\ Ends(u[2], {})
                /\ strays' = strays \cup (IF u[2] \in untrusted THEN {}
                                          ELSE {proc[u[2]].image} \ Temp)
             \/ UNCHANGED <<kernelVars, queue, overrun, strays, owed>>
  BY DEF Strike
<1>3. u \in Signals \X Pids /\ u[2] \in Pids
  BY <1>2 DEF TypeOK
<1>4. disturbed = {}
  BY <1>2 DEF Ends, Queued, kernelVars
<1>5. Execs /\ FirstSeed /\ Lives /\ Verdicts
  BY <1>4 DEF SocketInv
<1>6. PICK v : Calm(v)
  BY <1>4 DEF CalmInv
<1>7. Justified'
  BY <1>1 DEF Justified
<1>8. \A o \in owed : o \in reports' \/ Due(v, o)
  BY <1>2, <1>5, <1>6 DEF Calm, Owing, Verdicts
<1>9. CASE u[2] # 1 /\ Ends(u[2], {}) /\
           strays' = strays \cup (IF u[2] \in untrusted THEN {} ELSE {proc[u[2]].image} \ Temp)
  <2>1. PICK p \in Pids : p = u[2]
    BY <1>3
  <2>2. ~Pending(p)
    BY <1>2, <1>5, <2>1 DEF Verdicts
  <2>3. PICK w : /\ Chain(w, queue', Truth') /\ Agrees(w[0])'
                 /\ \A o \in owed' : Due(v, o) => Due(w, o)'
    BY <1>1, <1>5, <1>6, <1>9, <2>1, <2>2, EndsCalm
  <2>4. \A o \in owed' : o \in owed
    BY <1>9 DEF Ends
  <2>5. Owing(w)'
    BY <1>8, <2>3, <2>4 DEF Owing
  <2>6. strays' = {}
    BY <1>2, <1>6, <1>9 DEF Calm, Justified
  <2> QED BY <1>1, <1>7, <2>3, <2>5, <2>6, CalmAgain
<1>10. CASE UNCHANGED <<kernelVars, queue, overrun, strays, owed>>
  <2>1. Truth' = Truth /\ queue' = queue /\ proc' = proc /\ owed' = owed
    BY <1>10 DEF Truth, kernelVars
  <2>2. Chain(v, queue', Truth')
    BY <1>6, <2>1 DEF Calm
  <2>3. Agrees(v[0])'
    BY <1>1, <1>6, AgreesKept DEF Calm
  <2>4. Owing(v)'
    BY <1>1, <1>8, <2>1, DueKept DEF Owing
  <2>5. strays' = {}
    BY <1>6, <1>10 DEF Calm
  <2> QED BY <1>1, <1>7, <2>2, <2>3, <2>4, <2>5, CalmAgain
<1> QED BY <1>2, <1>9, <1>10

LEMMA TickCalm ==
    ASSUME ProcAssumption, TypeOK, TypeOK', CalmInv, Tick, disturbed' = {}
    PROVE  \E v : Calm(v)'
<1>1. /\ clock' = clock + 1 /\ clock \in Int /\ disturbed = {} /\ procs' = procs /\ proc' = proc
      /\ queue' = queue /\ verdict' = verdict /\ reports' = reports /\ owed' = owed
      /\ strays' = strays /\ phase' = phase /\ todo' = todo /\ untrusted' = untrusted
  BY DEF Tick, kernelVars, monVars, TypeOK
<1>2. PICK v : Calm(v)
  BY <1>1 DEF CalmInv
<1>3. Truth' = Truth
  BY <1>1 DEF Truth
<1>4. Chain(v, queue', Truth')
  BY <1>1, <1>2, <1>3 DEF Calm
<1>5. Justified' /\ strays' = {}
  BY <1>1, <1>2 DEF Calm, Justified
<1>6. phase' = "seeding" => Seeds(v[0])'
  <2>1. \A p : Read(p)' <=> Read(p)
    BY <1>1 DEF Read, Known, Live
  <2> HIDE DEF Read
  <2> QED BY <1>1, <1>2, <2>1 DEF Calm, Seeds, Known, Live
<1>7. phase' # "seeding" => Agrees(v[0])'
  BY <1>1, <1>2, AgreesKept DEF Calm
<1>8. ASSUME NEW o \in owed, Due(v, o)
      PROVE  Due(v, o)'
  <2>1. o[2] \in Pids /\ procs \in [Pids -> Rec \cup {None}] /\ clock' \in Int /\ clock' >= clock
    BY <1>1 DEF TypeOK
  <2>2. Offends(o[2]) => Offends(o[2])'
    BY <1>1, <2>1, OffendsKept
  <2> HIDE DEF Offends
  <2> QED BY <1>1, <1>8, <2>2 DEF Due, PrivescDue, PtraceDue, LineageDue, Live
<1>9. Owing(v)'
  BY <1>1, <1>2, <1>8 DEF Owing, Calm
<1> QED BY <1>4, <1>5, <1>6, <1>7, <1>9, CalmAgain

(* The events that leave the processes as they are.                        *)
LEMMA LooksGrow ==
    ASSUME ProcAssumption, TypeOK, TypeOK', NEW v, Calm(v), Execs, FirstSeed, Lives,
           NEW e \in Event, e.what \in {"uid", "ptrace"}, queue' = Append(queue, e),
           UNCHANGED <<proc, untrusted, clock, monVars>>, owed \subseteq owed',
           \A w : /\ w[Len(queue)].ready = Pids /\ w[Len(queue)].tree = untrusted
                  /\ queue'[Len(queue) + 1] = e /\ Len(queue) + 1 \in DOMAIN queue'
                  /\ (Len(queue) + 1) - 1 = Len(queue)
                  => \A o \in owed' \ owed : Due(w, o)'
    PROVE  \E w : Calm(w)'
<1>1. PICK N : N = {}
  OBVIOUS
<1>2. PICK a : a = Less(Truth, N)
  OBVIOUS
<1>3. Truth' = Truth
  BY DEF Truth
<1>4. PICK b : b = Truth
  OBVIOUS
<1>5. a.image = b.image /\ a.tree = b.tree /\ a.ready = Pids /\ b.ready = Pids
  BY <1>1, <1>2, <1>4, LessTruth DEF Truth
<1>6. Foreseen(e, b.image, a, b)
  BY <1>5 DEF Foreseen
<1>7. Foreseen(e, Truth'.image, Less(Truth, N), Truth') /\ N \in SUBSET Pids
      /\ (phase = "seeding" \/ N = {}) /\ (\A q \in N : ~Live(q))
      /\ procs' = procs
      /\ \A p \in Pids : proc'[p].image # proc[p].image => ~Live(p) \/ ~Pending(p)
  BY <1>1, <1>2, <1>3, <1>4, <1>6 DEF monVars
<1>8. PICK w : /\ Chain(w, queue', Truth')
               /\ w[0].image = v[0].image /\ w[0].tree = v[0].tree
               /\ w[0].ready = v[0].ready \ N
               /\ w[Len(queue)].ready = Pids \ N /\ w[Len(queue)].tree = untrusted
               /\ phase # "seeding" => Agrees(w[0])'
               /\ \A o \in owed : Due(v, o) /\ Live(o[2])'
                                  /\ proc'[o[2]].image = proc[o[2]].image => Due(w, o)'
  <2>1. Queues(e, N) /\ procs' = procs /\ clock' = clock
    BY <1>7 DEF Queues, monVars
  <2>2. \E w : Follow(w, v, N)
    BY <2>1, StepGrows, Zenon
  <2> QED BY <2>2 DEF Follow
<1>9. \A o \in owed : Due(v, o) => Due(w, o)'
  BY <1>8 DEF Due, Live
<1>10. \A o \in owed' \ owed : Due(w, o)'
  <2>1. /\ queue'[Len(queue) + 1] = e /\ Len(queue) + 1 \in DOMAIN queue'
        /\ (Len(queue) + 1) - 1 = Len(queue)
    BY Appended DEF TypeOK
  <2>2. w[Len(queue)].ready = Pids
    BY <1>1, <1>8
  <2> QED BY <1>8, <2>1, <2>2
<1>11. Owing(w)'
  <2>1. Owing(v)
    BY DEF Calm
  <2> HIDE DEF Due
  <2> QED BY <1>9, <1>10, <2>1 DEF Owing, monVars
<1>12. Justified' /\ strays' = {}
  BY DEF Calm, Justified, monVars
<1>13. phase' = "seeding" => Seeds(w[0])'
  <2>1. v[0] \in View /\ (phase = "seeding" => Seeds(v[0]))
    <3>1. v \in [0..Len(queue) -> View] /\ Len(queue) \in Nat
      BY DEF Calm, Chain, TypeOK
    <3> QED BY <3>1 DEF Calm
  <2>2. SUFFICES ASSUME phase = "seeding" PROVE Seeds(w[0])'
    BY DEF monVars
  <2>3. procs' = procs /\ todo' = todo
    BY DEF monVars
  <2>4. /\ \A p \in N : ~Live(p)
        /\ \A p \in Pids \ N : proc'[p] = proc[p] /\ (p \in untrusted' <=> p \in untrusted)
    BY <1>1
  <2> QED BY <1>8, <2>1, <2>2, <2>3, <2>4, SeedsKept
<1>14. phase' # "seeding" => Agrees(w[0])'
  BY <1>8 DEF monVars
<1> QED BY <1>8, <1>11, <1>12, <1>13, <1>14, CalmAgain

LEMMA GainRootCalm ==
    ASSUME ProcAssumption, TypeOK, TypeOK', SocketInv, CalmInv, NEW p \in Pids, GainRoot(p),
           disturbed' = {}
    PROVE  \E v : Calm(v)'
<1> DEFINE e == [what |-> "uid", pid |-> p]
<1>1. /\ Live(p) /\ Queued(e, {}) /\ UNCHANGED <<proc, untrusted, guardRoots, clock, monVars>>
      /\ owed' = owed \cup {o \in {<<"privesc", p>>} :
                                p \in untrusted /\ proc[p].image \notin Elevators}
  BY DEF GainRoot
<1>2. e \in Event /\ e.what = "uid" /\ e.pid = p
  BY Events
<1> HIDE DEF e
<1>3. queue' = Append(queue, e) /\ disturbed = {}
  BY <1>1, QueuedCalmly
<1>4. Execs /\ FirstSeed /\ Lives
  BY <1>3 DEF SocketInv
<1>5. PICK v : Calm(v)
  BY <1>3 DEF CalmInv
<1>6. ASSUME NEW w, w[Len(queue)].ready = Pids, w[Len(queue)].tree = untrusted,
             queue'[Len(queue) + 1] = e, Len(queue) + 1 \in DOMAIN queue',
             (Len(queue) + 1) - 1 = Len(queue), NEW o \in owed' \ owed
      PROVE  Due(w, o)'
  <2>1. o = <<"privesc", p>> /\ p \in untrusted /\ proc[p].image \notin Elevators
    BY <1>1
  <2>2. o[1] = "privesc" /\ o[2] = p
    BY <2>1
  <2>3. Live(p)'
    BY <1>1 DEF Live
  <2>4. PrivescDue(w, p)'
    BY <1>1, <1>2, <1>6, <2>1 DEF PrivescDue
  <2> QED BY <2>2, <2>3, <2>4 DEF Due
<1>7. owed \subseteq owed' /\ e.what \in {"uid", "ptrace"}
      /\ UNCHANGED <<proc, untrusted, clock, monVars>>
  BY <1>1, <1>2
<1> QED BY <1>2, <1>3, <1>4, <1>5, <1>6, <1>7, LooksGrow

LEMMA TraceCalm ==
    ASSUME ProcAssumption, TypeOK, TypeOK', SocketInv, CalmInv, NEW p \in Pids, NEW t \in Pids,
           Trace(p, t), disturbed' = {}
    PROVE  \E v : Calm(v)'
<1> DEFINE e == [what |-> "ptrace", by |-> p, pid |-> t]
<1>1. /\ Live(p) /\ p # t /\ Queued(e, {})
      /\ UNCHANGED <<proc, untrusted, guardRoots, clock, monVars>>
      /\ owed' = owed \cup {o \in {"ptrace", "ptrace guarded"} \X {p} :
                               /\ proc[p].image \notin Debuggers
                               /\ o[1] = "ptrace guarded" => t \in untrusted}
  BY DEF Trace
<1>2. e \in Event /\ e.what = "ptrace" /\ e.pid = t /\ e.by = p
  BY Events
<1> HIDE DEF e
<1>3. queue' = Append(queue, e) /\ disturbed = {}
  BY <1>1, QueuedCalmly
<1>4. Execs /\ FirstSeed /\ Lives
  BY <1>3 DEF SocketInv
<1>5. PICK v : Calm(v)
  BY <1>3 DEF CalmInv
<1>6. ASSUME NEW w, w[Len(queue)].ready = Pids, w[Len(queue)].tree = untrusted,
             queue'[Len(queue) + 1] = e, Len(queue) + 1 \in DOMAIN queue',
             (Len(queue) + 1) - 1 = Len(queue), NEW o \in owed' \ owed
      PROVE  Due(w, o)'
  <2>1. /\ o \in {"ptrace", "ptrace guarded"} \X {p} /\ proc[p].image \notin Debuggers
        /\ o[1] = "ptrace guarded" => t \in untrusted
    BY <1>1
  <2>2. o[1] \in {"ptrace", "ptrace guarded"} /\ o[2] = p
    BY <2>1
  <2>3. Live(p)'
    BY <1>1 DEF Live
  <2>4. ASSUME NEW g \in BOOLEAN, g => t \in untrusted
        PROVE  PtraceDue(w, p, g)'
    <3>1. \E i \in DOMAIN queue' :
              /\ queue'[i].what = "ptrace" /\ queue'[i].by = p /\ queue'[i].pid # p
              /\ g => queue'[i].pid \in w[i - 1].ready /\ queue'[i].pid \in w[i - 1].tree
      BY <1>1, <1>2, <1>6, <2>4
    <3> QED BY <1>1, <2>1, <3>1 DEF PtraceDue
  <2> QED BY <2>1, <2>2, <2>3, <2>4 DEF Due
<1>7. owed \subseteq owed' /\ e.what \in {"uid", "ptrace"}
      /\ UNCHANGED <<proc, untrusted, clock, monVars>>
  BY <1>1, <1>2
<1> QED BY <1>2, <1>3, <1>4, <1>5, <1>6, <1>7, LooksGrow

LEMMA ForkCalm ==
    ASSUME ProcAssumption, TypeOK, TypeOK', SocketInv, CalmInv, NEW p \in Pids, NEW c \in Pids,
           Fork(p, c), disturbed' = {}
    PROVE  \E v : Calm(v)'
<1> DEFINE e == [what |-> "fork", by |-> p, pid |-> c]
<1>1. /\ Live(p) /\ ~Live(c) /\ Queued(e, {})
      /\ proc' = [proc EXCEPT ![c] = [parent |-> p, image |-> proc[p].image]]
      /\ untrusted' = IF p \in untrusted THEN untrusted \cup {c} ELSE untrusted
      /\ owed' = {o \in owed : o[2] # c}
      /\ reports' = {r \in reports : r[2] # c}
      /\ UNCHANGED <<clock, phase, todo, procs, verdict, strays>>
  BY DEF Fork
<1>2. e \in Event /\ e.what = "fork" /\ e.pid = c /\ e.by = p
  BY Events
<1> HIDE DEF e
<1>3. queue' = Append(queue, e) /\ disturbed = {}
  BY <1>1, QueuedCalmly
<1>4. Execs /\ FirstSeed /\ Lives /\ Verdicts
  BY <1>3 DEF SocketInv
<1>5. PICK v : Calm(v)
  BY <1>3 DEF CalmInv
<1>6. PICK N : N = IF phase = "seeding" THEN {c} ELSE {}
  OBVIOUS
<1>7. PICK a : a = Less(Truth, N)
  OBVIOUS
<1>8. PICK b : b = Truth'
  OBVIOUS
<1>9. /\ a.image = [q \in Pids |-> proc[q].image] /\ a.tree = untrusted /\ a.ready = Pids \ N
      /\ a.image \in [Pids -> Images \cup {"none"}]
  BY <1>7, LessTruth
<1>10. b.image = [q \in Pids |-> proc'[q].image] /\ b.tree = untrusted' /\ b.ready = Pids
  BY <1>8 DEF Truth
<1>11. proc \in [Pids -> Process \cup {None}] /\ p # c
  BY <1>1 DEF TypeOK
<1>12. /\ \A q \in Pids : q # c => proc'[q] = proc[q]
       /\ proc'[c].image = proc[p].image
  BY <1>1, <1>11
<1>13. b.image = [a.image EXCEPT ![c] = a.image[p]]
  BY <1>9, <1>10, <1>12
<1>14. c \notin untrusted
  BY <1>1, <1>4 DEF Lives
<1>15. b.tree = IF p \in a.tree THEN a.tree \cup {c} ELSE a.tree \ {c}
  <2>1. a.tree = untrusted /\ a.tree \ {c} = a.tree
    BY <1>9, <1>14
  <2>2. b.tree = IF p \in untrusted THEN untrusted \cup {c} ELSE untrusted
    BY <1>1, <1>10
  <2> QED BY <2>1, <2>2
<1>16. p \in a.ready /\ a.image[p] # "none"
  BY <1>1, <1>6, <1>9, <1>11, TruthIs
<1>17. \A q \in b.ready : q \in a.ready \/ Changes(e, q)
  BY <1>2, <1>6, <1>9, <1>10 DEF Changes
<1>18. Foreseen(e, b.image, a, b)
  BY <1>2, <1>13, <1>15, <1>16, <1>17 DEF Foreseen
<1>19. Foreseen(e, Truth'.image, Less(Truth, N), Truth') /\ N \in SUBSET Pids
       /\ (phase = "seeding" \/ N = {}) /\ (\A q \in N : ~Live(q))
       /\ procs' = procs /\ clock' = clock
       /\ \A q \in Pids : proc'[q].image # proc[q].image => ~Live(q) \/ ~Pending(q)
  BY <1>1, <1>6, <1>7, <1>8, <1>12, <1>18
<1>20. PICK w : /\ Chain(w, queue', Truth')
                /\ w[0].image = v[0].image /\ w[0].tree = v[0].tree
                /\ w[0].ready = v[0].ready \ N
                /\ phase # "seeding" => Agrees(w[0])'
                /\ \A o \in owed : Due(v, o) /\ Live(o[2])'
                                   /\ proc'[o[2]].image = proc[o[2]].image => Due(w, o)'
  <2>1. Queues(e, N) /\ procs' = procs /\ clock' = clock
    BY <1>2, <1>3, <1>19 DEF Queues, monVars
  <2>2. \E w : Follow(w, v, N)
    BY <1>4, <1>5, <2>1, StepGrows, Zenon
  <2> QED BY <2>2 DEF Follow
<1>21. Owing(w)'
  <2>1. ASSUME NEW o \in owed'
        PROVE  o \in reports' \/ o \in verdict' \/ Due(w, o)'
    <3>1. o \in owed /\ o \in Signals \X Pids /\ o[2] \in Pids /\ o[2] # c
      BY <1>1 DEF TypeOK
    <3>2. o \in reports \/ o \in verdict \/ Due(v, o)
      BY <1>5, <3>1 DEF Calm, Owing
    <3>3. Due(v, o) => Live(o[2])' /\ proc'[o[2]].image = proc[o[2]].image
      BY <1>12, <3>1 DEF Due, Live
    <3> QED BY <1>1, <1>20, <3>1, <3>2, <3>3
  <2> HIDE DEF Due
  <2> QED BY <2>1 DEF Owing
<1>22. Justified'
  <2>1. \A u \in verdict : Live(u[2]) /\ u[2] \in Pids
                           /\ (u[2] \in untrusted \/ proc[u[2]].image \in Temp)
    BY <1>4, <1>5 DEF Verdicts, Calm, Justified, TypeOK
  <2>2. \A u \in verdict : proc'[u[2]] = proc[u[2]]
    BY <1>1, <1>12, <2>1
  <2>3. untrusted \subseteq untrusted' /\ verdict' = verdict
    BY <1>1
  <2> QED BY <2>1, <2>2, <2>3 DEF Justified
<1>23. phase' = "seeding" => Seeds(w[0])'
  <2>1. v[0] \in View /\ (phase = "seeding" => Seeds(v[0]))
    <3>1. v \in [0..Len(queue) -> View] /\ Len(queue) \in Nat
      BY <1>5 DEF Calm, Chain, TypeOK
    <3> QED BY <1>5, <3>1 DEF Calm
  <2>2. SUFFICES ASSUME phase = "seeding" PROVE Seeds(w[0])'
    BY <1>1
  <2>3. procs' = procs /\ todo' = todo /\ N = {c}
    BY <1>1, <1>6, <2>2
  <2>4. /\ \A q \in N : ~Live(q)
        /\ \A q \in Pids \ N : proc'[q] = proc[q] /\ (q \in untrusted' <=> q \in untrusted)
    BY <1>1, <1>12, <2>3
  <2> QED BY <1>4, <1>20, <2>1, <2>2, <2>3, <2>4, SeedsKept
<1>24. strays' = {} /\ (phase' # "seeding" => Agrees(w[0])')
  BY <1>1, <1>5, <1>20 DEF Calm
<1> QED BY <1>20, <1>21, <1>22, <1>23, <1>24, CalmAgain

LEMMA ExecCalm ==
    ASSUME ProcAssumption, TypeOK, TypeOK', SocketInv, CalmInv, NEW p \in Pids, NEW i \in Images,
           Exec(p, i), disturbed' = {}
    PROVE  \E v : Calm(v)'
<1> DEFINE e == [what |-> "exec", pid |-> p]
           due == /\ p \in untrusted /\ Settled
                  /\ i \in Payload \ (Ignored \cup Guarded) /\ proc[p].image # i
<1>1. /\ Live(p) /\ Queued(e, Late(p))
      /\ proc' = [proc EXCEPT ![p].image = i]
      /\ untrusted' = IF i \in Guarded THEN untrusted \cup {p} ELSE untrusted
      /\ owed' = {o \in owed : o # <<"lineage", p>>} \cup {o \in {<<"lineage", p>>} : due}
      /\ reports' = {r \in reports : r # <<"lineage", p>>}
      /\ UNCHANGED <<clock, phase, todo, procs, verdict, strays>>
  BY DEF Exec
<1>2. e \in Event /\ e.what = "exec" /\ e.pid = p
  BY Events
<1> HIDE DEF e
<1>3. queue' = Append(queue, e) /\ disturbed = {} /\ Late(p) = {}
  BY <1>1, QueuedCalmly
<1>4. /\ phase # "seeding" /\ ~Pending(p) /\ \A u \in verdict : u[2] # p
      /\ \A j \in DOMAIN queue : /\ queue[j].what = "ptrace" => queue[j].by # p
                                 /\ queue[j].what # "ptrace" => queue[j].pid # p
  BY <1>3, NotLate
<1>5. Execs /\ FirstSeed /\ Lives
  BY <1>3 DEF SocketInv
<1>6. PICK v : Calm(v)
  BY <1>3 DEF CalmInv
<1>7. PICK N : N = {}
  OBVIOUS
<1>8. PICK a : a = Less(Truth, N)
  OBVIOUS
<1>9. PICK b : b = Truth'
  OBVIOUS
<1>10. /\ a.image = [q \in Pids |-> proc[q].image] /\ a.tree = untrusted /\ a.ready = Pids
       /\ a.image \in [Pids -> Images \cup {"none"}]
  BY <1>7, <1>8, LessTruth
<1>11. b.image = [q \in Pids |-> proc'[q].image] /\ b.tree = untrusted' /\ b.ready = Pids
  BY <1>9 DEF Truth
<1>12. proc[p] \in Process /\ proc \in [Pids -> Process \cup {None}]
  BY <1>1 DEF TypeOK, Live
<1>13. /\ \A q \in Pids : q # p => proc'[q] = proc[q]
       /\ proc'[p] = [parent |-> proc[p].parent, image |-> i]
  BY <1>1, <1>12 DEF Process
<1>14. proc'[p].image = i /\ Live(p)'
  <2>1. proc'[p].image = i /\ i # "none"
    BY <1>13 DEF ProcAssumption
  <2>2. None.image = "none"
    BY DEF None
  <2> QED BY <2>1, <2>2 DEF Live
<1>15. b.image = [a.image EXCEPT ![p] = b.image[p]] /\ b.image[p] = i
  <2>1. b.image[p] = i
    BY <1>11, <1>14
  <2>2. \A q \in Pids : q # p => b.image[q] = a.image[q]
    BY <1>10, <1>11, <1>13
  <2>3. b.image = [q \in Pids |-> b.image[q]]
    BY <1>11
  <2> QED BY <1>10, <2>1, <2>2, <2>3, ExceptIs, Zenon
<1>16. Foreseen(e, b.image, a, b)
  BY <1>1, <1>2, <1>10, <1>11, <1>15 DEF Foreseen
<1>17. Foreseen(e, Truth'.image, Less(Truth, N), Truth') /\ N \in SUBSET Pids
       /\ (phase = "seeding" \/ N = {}) /\ (\A q \in N : ~Live(q))
       /\ procs' = procs /\ clock' = clock
       /\ \A q \in Pids : proc'[q].image # proc[q].image => ~Live(q) \/ ~Pending(q)
  BY <1>1, <1>4, <1>7, <1>8, <1>9, <1>13, <1>16
<1>18. PICK w : /\ Chain(w, queue', Truth')
                /\ phase # "seeding" => Agrees(w[0])'
                /\ \A o \in owed : Due(v, o) /\ Live(o[2])'
                                   /\ proc'[o[2]].image = proc[o[2]].image => Due(w, o)'
  <2>1. Queues(e, N) /\ procs' = procs /\ clock' = clock
    BY <1>2, <1>3, <1>17 DEF Queues, monVars
  <2>2. \E w : Follow(w, v, N)
    BY <1>5, <1>6, <2>1, StepGrows, Zenon
  <2> QED BY <2>2 DEF Follow
<1>19. ASSUME NEW o \in owed, Due(v, o)
       PROVE  o[2] # p
  BY <1>4, <1>19 DEF Due, PrivescDue, PtraceDue, LineageDue
<1>20. due => Due(w, <<"lineage", p>>)'
  <2> SUFFICES ASSUME due PROVE Due(w, <<"lineage", p>>)'
    OBVIOUS
  <2>1. procs[p].image = proc[p].image /\ RootOf(p) # 0
    BY <1>4, <1>6, RestsIs
  <2>2. Known(p) /\ procs[p].root # 0
    BY <2>1 DEF RootOf
  <2>3. clock - procs[p].started >= Grace
    BY <2>2 DEF Settled
  <2>4. Offends(p)'
    BY <1>1, <1>14, <2>1, <2>2, <2>3 DEF Offends, Known
  <2>5. \E j \in DOMAIN queue' : queue'[j].what = "exec" /\ queue'[j].pid = p
    <3>1. PICK k : k = Len(queue) + 1
      OBVIOUS
    <3>2. queue \in Seq(Event)
      BY DEF TypeOK
    <3>3. k \in DOMAIN Append(queue, e) /\ Append(queue, e)[k] = e
      BY <1>2, <3>1, <3>2, Appended
    <3> QED BY <1>2, <1>3, <3>3
  <2>6. LineageDue(p)'
    BY <2>4, <2>5 DEF LineageDue
  <2> QED BY <1>14, <2>6 DEF Due
<1> HIDE DEF due
<1>21. Owing(w)'
  <2>1. ASSUME NEW o \in owed'
        PROVE  o \in reports' \/ o \in verdict' \/ Due(w, o)'
    <3>1. CASE o = <<"lineage", p>>
      BY <1>1, <1>20, <3>1
    <3>2. CASE o # <<"lineage", p>>
      <4>1. o \in owed /\ o \in Signals \X Pids /\ o[2] \in Pids
        BY <1>1, <3>2 DEF TypeOK
      <4>2. o \in reports \/ o \in verdict \/ Due(v, o)
        BY <1>6, <4>1 DEF Calm, Owing
      <4>3. Due(v, o) => Live(o[2])' /\ proc'[o[2]].image = proc[o[2]].image
        BY <1>13, <1>19, <4>1 DEF Due, Live
      <4> QED BY <1>1, <1>18, <3>2, <4>1, <4>2, <4>3
    <3> QED BY <3>1, <3>2
  <2> HIDE DEF Due
  <2> QED BY <2>1 DEF Owing
<1>22. Justified'
  <2>1. \A u \in verdict : u[2] \in Pids /\ u[2] # p
                           /\ (u[2] \in untrusted \/ proc[u[2]].image \in Temp)
    BY <1>4, <1>6 DEF Calm, Justified, TypeOK
  <2>2. untrusted \subseteq untrusted' /\ verdict' = verdict
    BY <1>1
  <2> QED BY <1>13, <2>1, <2>2 DEF Justified
<1>23. strays' = {} /\ phase' # "seeding" /\ Agrees(w[0])'
  BY <1>1, <1>4, <1>6, <1>18 DEF Calm
<1> QED BY <1>18, <1>21, <1>22, <1>23, CalmAgain

LEMMA KernelCalm ==
    ASSUME ProcAssumption, TypeOK, TypeOK', SocketInv, CalmInv, Kernel, disturbed' = {}
    PROVE  \E v : Calm(v)'
<1>1. ASSUME NEW p \in Pids, ThreadEvent(p) PROVE FALSE
  BY <1>1 DEF ThreadEvent, Queued
<1> QED BY <1>1, ExitCalm, GainRootCalm, ForkCalm, TraceCalm, ExecCalm DEF Kernel

(***************************************************************************)
(* The steps of the monitor.                                               *)
(***************************************************************************)

LEMMA DueRead ==
    ASSUME FirstSeed, phase = "seeding", NEW v, NEW o, Due(v, o),
           proc' = proc, queue' = queue
    PROVE  Due(v, o)'
<1>1. ~LineageDue(o[2])
  BY DEF FirstSeed, LineageDue
<1> QED BY <1>1 DEF Due, PrivescDue, PtraceDue, Live

LEMMA SeedReadCalm ==
    ASSUME ProcAssumption, TypeOK, TypeOK', SocketInv, CalmInv, NEW p \in Pids, SeedRead(p),
           disturbed' = {}
    PROVE  \E v : Calm(v)'
<1>1. /\ phase = "seeding" /\ p \in todo /\ todo' = todo \ {p}
      /\ procs' = IF ~Live(p) THEN procs
                  ELSE [procs EXCEPT ![p] =
                           [parent |-> IF p = 1 THEN 0 ELSE proc[p].parent,
                            image |-> proc[p].image,
                            root |-> IF proc[p].image \in Guarded THEN p ELSE 0,
                            started |-> clock - Grace]]
      /\ UNCHANGED <<proc, untrusted, queue, phase, verdict, reports, strays, owed, disturbed>>
  BY DEF SeedRead, kernelVars
<1>2. FirstSeed
  BY <1>1 DEF SocketInv
<1>3. PICK v : Calm(v)
  BY <1>1 DEF CalmInv
<1>4. Chain(v, queue', Truth') /\ Justified' /\ strays' = {}
  BY <1>1, <1>3 DEF Calm, Truth, Justified
<1>5. Owing(v)'
  BY <1>1, <1>2, <1>3, DueRead DEF Calm, Owing
<1>6. Seeds(v[0])
  BY <1>1, <1>3 DEF Calm
<1>7. procs \in [Pids -> Rec \cup {None}] /\ \A q \in Pids : q # p => procs'[q] = procs[q]
  BY <1>1 DEF TypeOK
<1>8. v[0].ready \subseteq Pids
  <2>1. v[0] \in View
    <3>1. queue \in Seq(Event) /\ 0 \in 0..Len(queue)
      BY DEF TypeOK
    <3>2. v \in [0..Len(queue) -> View]
      BY <1>3 DEF Calm, Chain
    <3> QED BY <3>1, <3>2
  <2> QED BY <2>1 DEF View
<1>9. Read(p)'
  <2>1. CASE ~Live(p)
    <3>1. ~Known(p)' /\ ~Live(p)'
      BY <1>1, <1>6, <2>1 DEF Seeds, Known, Live
    <3> QED BY <3>1 DEF Read
  <2>2. CASE Live(p)
    <3>1. procs'[p] = [parent |-> IF p = 1 THEN 0 ELSE proc[p].parent,
                       image |-> proc[p].image,
                       root |-> IF proc[p].image \in Guarded THEN p ELSE 0,
                       started |-> clock - Grace]
      BY <1>1, <1>7, <2>2
    <3>2. procs'[p].image # None.image
      <4>1. procs'[p].image = proc[p].image
        BY <3>1
      <4>2. proc[p].image # "none"
        BY <2>2, TruthIs
      <4> QED BY <4>1, <4>2 DEF None
    <3>3. Known(p)' /\ Live(p)'
      BY <1>1, <2>2, <3>2 DEF Known, Live
    <3> QED BY <1>1, <3>1, <3>3 DEF Read
  <2> QED BY <2>1, <2>2
<1>10. Seeds(v[0])'
  <2>1. \A q \in v[0].ready : q \notin todo' => Read(q)'
    <3> SUFFICES ASSUME NEW q \in v[0].ready, q \notin todo', q # p PROVE Read(q)'
      BY <1>9
    <3>1. Read(q) /\ q \in Pids
      BY <1>1, <1>6, <1>8 DEF Seeds
    <3> QED BY <1>1, <1>7, <3>1 DEF Read, Known, Live
  <2>2. (\A q \in todo : ~Known(q))'
    BY <1>1, <1>6, <1>7 DEF Seeds, Known, TypeOK
  <2> HIDE DEF Read
  <2> QED BY <1>1, <1>6, <2>1, <2>2 DEF Seeds, Live
<1> QED BY <1>1, <1>4, <1>5, <1>10, CalmAgain

(* When every process has been read, the climb from one meets a guarded    *)
(* one if and only if it is untrusted.                                     *)
LEMMA NearestTells ==
    ASSUME ProcAssumption, TypeOK, Lives, NEW a \in View, Seeds(a), todo = {}, NEW p \in a.ready,
           Live(p)
    PROVE  Nearest(p) # 0 <=> p \in untrusted
<1>1. PICK up : /\ \A n \in 0..32 : \A q \in Pids \cup {0} : up[n][q] = Climb(up, n, q)
                /\ \A q \in Pids : Nearest(q) = up[32][q]
  BY Constants, ParentsKnown, NearestIs
<1>2. PICK depth \in [Pids -> 0..32] : \A q \in a.ready :
          q \in untrusted /\ proc[q].image \notin Guarded =>
              depth[proc[q].parent] < depth[q]
  BY DEF Seeds
<1>3. a.ready \subseteq Pids /\ Pids \subseteq Nat \ {0}
  BY Constants DEF View
<1>4. ASSUME NEW q \in a.ready, Live(q)
      PROVE  /\ q \in Pids /\ Known(q) /\ procs[q].image = proc[q].image
             /\ q # 1 => procs[q].parent = proc[q].parent
             /\ procs[q].root = IF proc[q].image \in Guarded THEN q ELSE 0
             /\ proc[q].parent \in a.ready /\ Live(proc[q].parent)
             /\ q # 1 /\ (proc[q].image \in Guarded \/ proc[q].parent \in untrusted)
                    => q \in untrusted
             /\ q \in untrusted => proc[q].image \in Guarded \/ proc[q].parent \in untrusted
  BY <1>3, <1>4 DEF Seeds, Read
<1>5. ASSUME NEW n \in 0..32, NEW q \in a.ready, Live(q), q # 1
      PROVE  up[n][q] = IF proc[q].image \in Guarded THEN q
                        ELSE IF n = 0 THEN 0 ELSE up[n - 1][proc[q].parent]
  <2>1. up[n][q] = Climb(up, n, q) /\ q \in Nat /\ q > 1
    <3>1. q \in Pids /\ q # 1
      BY <1>3, <1>5
    <3>2. q \in Nat /\ q > 1
      BY <1>3, <3>1
    <3> QED BY <1>1, <3>1, <3>2, Zenon
  <2> QED BY <1>4, <1>5, <2>1 DEF Climb
<1>6. \A q \in untrusted : q # 1 /\ Live(q)
  BY DEF Lives
<1> DEFINE Met(n) == \A q \in a.ready : q \in untrusted /\ depth[q] <= n => up[n][q] # 0
           Meant(n) == \A q \in a.ready : Live(q) /\ up[n][q] # 0 => q \in untrusted
           S == {n \in 0..32 : Met(n) /\ Meant(n)}
<1>7. \A n \in 0..32 : Live(1) => up[n][1] = 0
  BY <1>1, Constants DEF Climb
<1>8. 0 \in S
  <2>1. Met(0)
    <3> SUFFICES ASSUME NEW q \in a.ready, q \in untrusted, depth[q] <= 0 PROVE up[0][q] # 0
      OBVIOUS
    <3>1. q # 1 /\ Live(q) /\ proc[q].parent \in Pids /\ q # 0
      BY <1>3, <1>4, <1>6
    <3>2. proc[q].image \in Guarded
      <4>1. depth[q] \in 0..32 /\ depth[proc[q].parent] \in 0..32
        BY <1>3, <3>1
      <4>2. ~(depth[proc[q].parent] < depth[q])
        BY <4>1
      <4> QED BY <1>2, <4>2
    <3> QED BY <1>5, <3>1, <3>2
  <2>2. Meant(0)
    <3> SUFFICES ASSUME NEW q \in a.ready, Live(q), up[0][q] # 0 PROVE q \in untrusted
      OBVIOUS
    <3>1. q # 1
      BY <1>7
    <3>2. proc[q].image \in Guarded
      BY <1>5, <3>1
    <3> QED BY <1>4, <3>1, <3>2
  <2> QED BY <2>1, <2>2
<1>9. ASSUME NEW n \in 0..32, n \in S, n < 32
      PROVE  n + 1 \in S
  <2>0. n + 1 \in 0..32 /\ n + 1 # 0 /\ (n + 1) - 1 = n /\ Met(n) /\ Meant(n)
    BY <1>9
  <2>1. Met(n + 1)
    <3> SUFFICES ASSUME NEW q \in a.ready, q \in untrusted, depth[q] <= n + 1
                 PROVE  up[n + 1][q] # 0
      OBVIOUS
    <3>1. q # 1 /\ Live(q) /\ proc[q].parent \in a.ready /\ q # 0
      BY <1>3, <1>4, <1>6
    <3>2. up[n + 1][q] = IF proc[q].image \in Guarded THEN q ELSE up[n][proc[q].parent]
      BY <1>5, <2>0, <3>1
    <3>3. CASE proc[q].image \in Guarded
      BY <3>1, <3>2, <3>3
    <3>4. CASE proc[q].image \notin Guarded
      <4>1. proc[q].parent \in untrusted /\ depth[proc[q].parent] < depth[q]
        BY <1>2, <1>4, <3>1, <3>4
      <4>2. depth[proc[q].parent] \in 0..32 /\ depth[q] \in 0..32
        BY <1>3, <3>1
      <4>3. depth[proc[q].parent] <= n
        BY <4>1, <4>2
      <4> QED BY <2>0, <3>1, <3>2, <3>4, <4>1, <4>3
    <3> QED BY <3>3, <3>4
  <2>2. Meant(n + 1)
    <3> SUFFICES ASSUME NEW q \in a.ready, Live(q), up[n + 1][q] # 0 PROVE q \in untrusted
      OBVIOUS
    <3>1. q # 1 /\ proc[q].parent \in a.ready /\ Live(proc[q].parent)
      BY <1>4, <1>7, <2>0
    <3>2. proc[q].image \in Guarded \/ up[n][proc[q].parent] # 0
      BY <1>5, <2>0, <3>1
    <3>3. proc[q].image \in Guarded \/ proc[q].parent \in untrusted
      BY <2>0, <3>1, <3>2
    <3> QED BY <1>4, <3>1, <3>3
  <2> QED BY <2>0, <2>1, <2>2
<1> HIDE DEF S
<1>10. 32 \in S
  BY <1>8, <1>9, Inductive
<1>11. Met(32) /\ Meant(32)
  BY <1>10 DEF S
<1>12. p \in Pids /\ depth[p] <= 32
  <2>1. p \in Pids
    BY <1>3
  <2>2. depth[p] \in 0..32
    BY <2>1
  <2> QED BY <2>1, <2>2
<1> QED BY <1>1, <1>11, <1>12

LEMMA SeedSpreadCalm ==
    ASSUME ProcAssumption, TypeOK, TypeOK', SocketInv, CalmInv, SeedSpread, disturbed' = {}
    PROVE  \E v : Calm(v)'
<1>1. /\ phase = "seeding" /\ phase' = "watching" /\ todo = {}
      /\ UNCHANGED <<proc, untrusted, queue, verdict, reports, strays, owed, disturbed>>
  BY DEF SeedSpread, kernelVars
<1>2. FirstSeed /\ Lives
  BY <1>1 DEF SocketInv
<1>3. PICK v : Calm(v)
  BY <1>1 DEF CalmInv
<1>4. Chain(v, queue', Truth') /\ Justified' /\ strays' = {}
  BY <1>1, <1>3 DEF Calm, Truth, Justified
<1>5. Owing(v)'
  BY <1>1, <1>2, <1>3, DueRead DEF Calm, Owing
<1>6. PICK a \in View : a = v[0]
  <2>1. v[0] \in View
    BY <1>3 DEF Calm, Chain, TypeOK
  <2> QED BY <2>1
<1>7. Seeds(a)
  BY <1>1, <1>3, <1>6 DEF Calm
<1>8. ASSUME NEW p \in a.ready
      PROVE  procs'[p].image = a.image[p] /\ (RootOf(p)' # 0 <=> p \in a.tree)
  <2>1. p \in Pids /\ Read(p) /\ proc[p].image = a.image[p] /\ (p \in untrusted <=> p \in a.tree)
    BY <1>1, <1>7 DEF Seeds, View
  <2>2. CASE ~Live(p)
    <3>1. ~Known(p) /\ p \notin untrusted
      BY <1>2, <2>1, <2>2 DEF Read, Lives
    <3>2. procs'[p] = procs[p]
      BY <2>1, <3>1, SpreadIs
    <3>3. procs[p] = proc[p] /\ ~Known(p)'
      BY <2>2, <3>1, <3>2 DEF Known, Live
    <3> QED BY <2>1, <3>1, <3>2, <3>3 DEF RootOf
  <2>3. CASE Live(p)
    <3>1. Known(p) /\ procs[p].image = proc[p].image
          /\ procs[p].root = IF proc[p].image \in Guarded THEN p ELSE 0
      BY <2>1, <2>3 DEF Read
    <3>2. Nearest(p) # 0 <=> p \in untrusted
      BY <1>1, <1>2, <1>7, <2>3, NearestTells
    <3>3. CASE Nearest(p) = 0
      <4>1. procs'[p] = procs[p] /\ p \notin untrusted
        BY <2>1, <3>2, <3>3, SpreadIs
      <4>2. proc[p].image \notin Guarded
        BY <1>7, <2>3, <4>1 DEF Seeds
      <4>3. RootOf(p)' = 0
        BY <3>1, <4>1, <4>2 DEF RootOf, Known
      <4> QED BY <2>1, <3>1, <4>1, <4>3
    <3>4. CASE Nearest(p) # 0
      <4>1. /\ procs'[p].root # 0 /\ procs'[p].image = procs[p].image /\ procs'[p] # None
        BY <2>1, <3>1, <3>4, SpreadIs
      <4>2. RootOf(p)' # 0
        BY <4>1 DEF RootOf, Known
      <4> QED BY <2>1, <3>1, <3>2, <3>4, <4>1, <4>2
    <3> QED BY <3>3, <3>4
  <2> QED BY <2>2, <2>3
<1>9. Agrees(v[0])'
  BY <1>6, <1>8 DEF Agrees
<1> QED BY <1>1, <1>4, <1>5, <1>9, CalmAgain

(* Handling an event.                                                      *)
LEMMA HandlesCalm ==
    ASSUME ProcAssumption, TypeOK, TypeOK', SocketInv, disturbed = {}, NEW v, Calm(v),
           queue # <<>>, queue' = Tail(queue), phase = "watching", phase' # "seeding",
           UNCHANGED <<proc, untrusted, clock, owed, strays>>, reports \subseteq reports',
           \A p \in Pids : ~Changes(event, p) => procs'[p] = procs[p],
           Foreseen(event, Truth.image, v[0], v[1]) => Agrees(v[1])',
           \A o \in Signals \X Pids : DueNow(v, o) => o \in reports' \/ o \in verdict',
           \A w : Chain(w, queue', Truth') /\ Agrees(w[0])' => Justified'
    PROVE  \E w : Calm(w)'
<1>1. queue \in Seq(Event) /\ Len(queue) \in Nat \ {0} /\ Chain(v, queue, Truth)
      /\ DOMAIN queue = 1..Len(queue)
  BY DEF TypeOK, Calm
<1>2. PICK truth : truth = Truth
  OBVIOUS
<1>3. Truth' = truth
  BY <1>2 DEF Truth
<1>4. Chain(v, queue, truth)
  BY <1>1, <1>2
<1>5. PICK w : Chain(w, Tail(queue), truth) /\ \A i \in 0..(Len(queue) - 1) : w[i] = v[i + 1]
  BY <1>1, <1>4, ChainShrinks
<1>6. Chain(w, queue', Truth')
  BY <1>3, <1>5
<1>7. Foreseen(event, Truth.image, v[0], v[1])
  <2>1. \A i \in 1..Len(queue) : Foreseen(queue[i], Truth.image, v[i - 1], v[i])
    BY <1>1 DEF Chain
  <2>2. 1 \in 1..Len(queue) /\ 1 - 1 = 0 /\ event = queue[1]
    BY <1>1 DEF event
  <2> QED BY <2>1, <2>2
<1>8. w[0] = v[1]
  BY <1>1, <1>5
<1>9. Agrees(w[0])'
  BY <1>7, <1>8
<1>10. Justified'
  BY <1>6, <1>9
<1>11. Owing(w)'
  <2>1. verdict = {} /\ Execs
    BY DEF SocketInv, Verdicts
  <2>2. ASSUME NEW o \in owed PROVE o \in reports' \/ o \in verdict' \/ Due(w, o)'
    <3>1. o \in Signals \X Pids /\ (o \in reports \/ Due(v, o))
      BY <2>1 DEF Calm, Owing, TypeOK
    <3>2. Due(v, o) => Due(w, o)' \/ DueNow(v, o)
      BY <1>1, <1>5, <2>1, <3>1, DueShrinks
    <3> QED BY <3>1, <3>2
  <2> HIDE DEF Due
  <2> QED BY <2>2 DEF Owing
<1> QED BY <1>6, <1>9, <1>10, <1>11, CalmAgain DEF Calm

LEMMA Views ==
    ASSUME TypeOK, NEW v, Calm(v), queue # <<>>
    PROVE  v[0] \in View /\ v[1] \in View /\ event \in Event
<1>1. Len(queue) \in Nat \ {0} /\ queue \in Seq(Event)
  BY DEF TypeOK
<1>2. v \in [0..Len(queue) -> View]
  BY DEF Calm, Chain
<1> QED BY <1>1, <1>2, HeadTailProperties DEF event

(* A record that is changed and one that is not.                           *)
LEMMA AgreesNow ==
    ASSUME NEW a \in View, NEW b \in View, Agrees(a), NEW p \in Pids,
           \A q \in b.ready : q \in a.ready \/ q = p,
           \A q \in Pids : q # p => /\ procs'[q] = procs[q] /\ b.image[q] = a.image[q]
                                    /\ q \in b.tree <=> q \in a.tree,
           p \in b.ready => procs'[p].image = b.image[p] /\ (RootOf(p)' # 0 <=> p \in b.tree)
    PROVE  Agrees(b)'
<1>1. ASSUME NEW q \in b.ready, q # p
      PROVE  procs'[q].image = b.image[q] /\ (RootOf(q)' # 0 <=> q \in b.tree)
  <2>1. q \in a.ready /\ q \in Pids /\ procs'[q] = procs[q]
    BY <1>1 DEF View
  <2>2. procs[q].image = a.image[q] /\ (RootOf(q) # 0 <=> q \in a.tree)
    BY <2>1 DEF Agrees
  <2> QED BY <1>1, <2>1, <2>2 DEF RootOf, Known
<1> QED BY <1>1 DEF Agrees

LEMMA NothingNow ==
    ASSUME event.what \in {"fork", "exit"}, NEW v, NEW o
    PROVE  ~DueNow(v, o)
BY DEF DueNow

LEMMA OnForkCalm ==
    ASSUME ProcAssumption, TypeOK, TypeOK', SocketInv, CalmInv, OnFork, disturbed' = {}
    PROVE  \E v : Calm(v)'
<1>1. /\ Receive("fork") /\ disturbed = {}
      /\ procs' = [procs EXCEPT ![event.pid] = Child(event.by)]
      /\ UNCHANGED <<proc, untrusted, clock, phase, verdict, reports, strays, owed>>
  BY DEF OnFork
<1>2. /\ queue # <<>> /\ queue' = Tail(queue) /\ phase = "watching" /\ event.what = "fork"
  BY <1>1 DEF Receive, event
<1>3. PICK v : Calm(v)
  BY <1>1 DEF CalmInv
<1>4. PICK a \in View : a = v[0]
  BY <1>2, <1>3, Views
<1>5. PICK b \in View : b = v[1]
  BY <1>2, <1>3, Views
<1>6. event \in Event
  BY <1>2, <1>3, Views
<1>7. PICK p \in Pids : p = event.pid
  BY <1>6, EventIs
<1>8. PICK r \in Pids : r = event.by
  BY <1>2, <1>6, EventIs
<1>9. Agrees(a)
  BY <1>2, <1>3, <1>4 DEF Calm
<1>10. procs \in [Pids -> Rec \cup {None}]
  BY DEF TypeOK
<1>11. ASSUME NEW x, Foreseen(event, x, a, b)
       PROVE  Agrees(b)'
  <2>1. /\ r \in a.ready /\ a.image[r] # "none" /\ b.image = [a.image EXCEPT ![p] = a.image[r]]
        /\ b.tree = IF r \in a.tree THEN a.tree \cup {p} ELSE a.tree \ {p}
        /\ \A q \in b.ready : q \in a.ready \/ q = p
    BY <1>2, <1>7, <1>8, <1>11 DEF Foreseen, Changes
  <2>2. a.image \in [Pids -> Images \cup {"none"}]
    BY DEF View
  <2>3. \A q \in Pids : q # p => /\ procs'[q] = procs[q] /\ b.image[q] = a.image[q]
                                 /\ q \in b.tree <=> q \in a.tree
    BY <1>1, <1>7, <1>10, <2>1, <2>2
  <2>4. procs[r].image = a.image[r] /\ (RootOf(r) # 0 <=> r \in a.tree)
    BY <1>9, <2>1 DEF Agrees
  <2>5. Known(r)
    BY <2>1, <2>4 DEF Known, None
  <2>6. procs'[p] = [procs[r] EXCEPT !.parent = r] /\ procs[r] \in Rec
    BY <1>1, <1>7, <1>8, <1>10, <2>5 DEF Child, Known
  <2>7. procs'[p].image = procs[r].image /\ procs'[p].root = procs[r].root
    BY <2>6 DEF Rec
  <2>8. Known(p)'
    BY <2>1, <2>4, <2>7 DEF Known, None
  <2>9. procs'[p].image = b.image[p] /\ (RootOf(p)' # 0 <=> p \in b.tree)
    BY <2>1, <2>2, <2>4, <2>5, <2>7, <2>8 DEF RootOf
  <2> QED BY <1>9, <2>1, <2>3, <2>9, AgreesNow
<1>12. \A q \in Pids : ~Changes(event, q) => procs'[q] = procs[q]
  BY <1>1, <1>2, <1>10 DEF Changes
<1>13. \A w : Justified'
  BY <1>1, <1>3 DEF Calm, Justified
<1>14. \A o : ~DueNow(v, o)
  BY <1>2, NothingNow
<1>15. Foreseen(event, Truth.image, v[0], v[1]) => Agrees(v[1])'
  BY <1>4, <1>5, <1>11
<1>16. /\ phase' # "seeding" /\ reports \subseteq reports'
       /\ UNCHANGED <<proc, untrusted, clock, owed, strays>>
  BY <1>1, <1>2
<1> QED BY <1>1, <1>2, <1>3, <1>12, <1>13, <1>14, <1>15, <1>16, HandlesCalm

LEMMA OnExitCalm ==
    ASSUME ProcAssumption, TypeOK, TypeOK', SocketInv, CalmInv, OnExit, disturbed' = {}
    PROVE  \E v : Calm(v)'
<1>1. /\ Receive("exit") /\ disturbed = {}
      /\ procs' = [procs EXCEPT ![event.pid] = None]
      /\ UNCHANGED <<proc, untrusted, clock, phase, verdict, reports, strays, owed>>
  BY DEF OnExit, kernelVars
<1>2. /\ queue # <<>> /\ queue' = Tail(queue) /\ phase = "watching" /\ event.what = "exit"
  BY <1>1 DEF Receive, event
<1>3. PICK v : Calm(v)
  BY <1>1 DEF CalmInv
<1>4. PICK a \in View : a = v[0]
  BY <1>2, <1>3, Views
<1>5. PICK b \in View : b = v[1]
  BY <1>2, <1>3, Views
<1>6. event \in Event
  BY <1>2, <1>3, Views
<1>7. PICK p \in Pids : p = event.pid
  BY <1>6, EventIs
<1>8. Agrees(a)
  BY <1>2, <1>3, <1>4 DEF Calm
<1>9. procs \in [Pids -> Rec \cup {None}]
  BY DEF TypeOK
<1>10. ASSUME NEW x, Foreseen(event, x, a, b)
       PROVE  Agrees(b)'
  <2>1. /\ b.image = [a.image EXCEPT ![p] = "none"] /\ b.tree = a.tree \ {p}
        /\ \A q \in b.ready : q \in a.ready \/ q = p
    BY <1>2, <1>7, <1>10 DEF Foreseen, Changes
  <2>2. a.image \in [Pids -> Images \cup {"none"}]
    BY DEF View
  <2>3. \A q \in Pids : q # p => /\ procs'[q] = procs[q] /\ b.image[q] = a.image[q]
                                 /\ q \in b.tree <=> q \in a.tree
    BY <1>1, <1>7, <1>9, <2>1, <2>2
  <2>4. procs'[p] = None
    BY <1>1, <1>7, <1>9
  <2>5. procs'[p].image = b.image[p] /\ (RootOf(p)' # 0 <=> p \in b.tree)
    BY <2>1, <2>2, <2>4 DEF RootOf, Known, None
  <2> QED BY <1>8, <2>1, <2>3, <2>5, AgreesNow
<1>11. \A q \in Pids : ~Changes(event, q) => procs'[q] = procs[q]
  BY <1>1, <1>2, <1>9 DEF Changes
<1>12. \A w : Justified'
  BY <1>1, <1>3 DEF Calm, Justified
<1>13. \A o : ~DueNow(v, o)
  BY <1>2, NothingNow
<1>14. Foreseen(event, Truth.image, v[0], v[1]) => Agrees(v[1])'
  BY <1>4, <1>5, <1>10
<1>15. /\ phase' # "seeding" /\ reports \subseteq reports'
       /\ UNCHANGED <<proc, untrusted, clock, owed, strays>>
  BY <1>1, <1>2
<1> QED BY <1>1, <1>2, <1>3, <1>11, <1>12, <1>13, <1>14, <1>15, HandlesCalm

LEMMA OnUidCalm ==
    ASSUME ProcAssumption, TypeOK, TypeOK', SocketInv, CalmInv, OnUid, disturbed' = {}
    PROVE  \E v : Calm(v)'
<1> DEFINE p == event.pid
           noted == /\ Live(p) /\ proc[p].image \notin Elevators
                    /\ RootOf(p) # 0 \/ proc[p].image \in Temp
<1>1. /\ Receive("uid") /\ disturbed = {} /\ procs' = procs
      /\ reports' = IF noted THEN reports \cup {<<"privesc", p>>} ELSE reports
      /\ UNCHANGED <<proc, untrusted, clock, phase, verdict, strays, owed>>
  BY DEF OnUid, kernelVars
<1>2. /\ queue # <<>> /\ queue' = Tail(queue) /\ phase = "watching" /\ event.what = "uid"
  BY <1>1 DEF Receive, event
<1>3. PICK v : Calm(v)
  BY <1>1 DEF CalmInv
<1>4. PICK a \in View : a = v[0]
  BY <1>2, <1>3, Views
<1>5. PICK b \in View : b = v[1]
  BY <1>2, <1>3, Views
<1>6. Agrees(a)
  BY <1>2, <1>3, <1>4 DEF Calm
<1>7. ASSUME NEW x, Foreseen(event, x, a, b)
      PROVE  Agrees(b)'
  <2>1. b.image = a.image /\ b.tree = a.tree /\ b.ready \subseteq a.ready
    BY <1>2, <1>7 DEF Foreseen, Changes
  <2> QED BY <1>1, <1>6, <2>1, AgreesKept
<1>8. \A w : Justified'
  BY <1>1, <1>3 DEF Calm, Justified
<1>9. ASSUME NEW o \in Signals \X Pids, DueNow(v, o)
      PROVE  o \in reports'
  <2>1. /\ o[1] = "privesc" /\ p = o[2] /\ Live(p)
        /\ proc[p].image \notin Elevators /\ p \in a.ready /\ p \in a.tree
    BY <1>2, <1>4, <1>9 DEF DueNow
  <2>2. RootOf(p) # 0
    BY <1>6, <2>1 DEF Agrees
  <2>3. o = <<"privesc", p>>
    BY <2>1, PairIs
  <2> QED BY <1>1, <2>1, <2>2, <2>3
<1>10. Foreseen(event, Truth.image, v[0], v[1]) => Agrees(v[1])'
  BY <1>4, <1>5, <1>7
<1>11. /\ phase' # "seeding" /\ reports \subseteq reports'
       /\ UNCHANGED <<proc, untrusted, clock, owed, strays>>
  BY <1>1, <1>2
<1> QED BY <1>1, <1>2, <1>3, <1>8, <1>9, <1>10, <1>11, HandlesCalm

LEMMA OnPtraceCalm ==
    ASSUME ProcAssumption, TypeOK, TypeOK', SocketInv, CalmInv, OnPtrace, disturbed' = {}
    PROVE  \E v : Calm(v)'
<1> DEFINE p == event.by
           noted == p # event.pid /\ Live(p) /\ proc[p].image \notin Debuggers
           signals == {"ptrace"} \cup {s \in {"ptrace guarded"} : RootOf(event.pid) # 0}
<1>1. /\ Receive("ptrace") /\ disturbed = {} /\ procs' = procs
      /\ reports' = IF noted THEN reports \cup (signals \X {p}) ELSE reports
      /\ UNCHANGED <<proc, untrusted, clock, phase, verdict, strays, owed>>
  BY DEF OnPtrace, kernelVars
<1>2. /\ queue # <<>> /\ queue' = Tail(queue) /\ phase = "watching" /\ event.what = "ptrace"
  BY <1>1 DEF Receive, event
<1>3. PICK v : Calm(v)
  BY <1>1 DEF CalmInv
<1>4. PICK a \in View : a = v[0]
  BY <1>2, <1>3, Views
<1>5. PICK b \in View : b = v[1]
  BY <1>2, <1>3, Views
<1>6. Agrees(a)
  BY <1>2, <1>3, <1>4 DEF Calm
<1>7. ASSUME NEW x, Foreseen(event, x, a, b)
      PROVE  Agrees(b)'
  <2>1. b.image = a.image /\ b.tree = a.tree /\ b.ready \subseteq a.ready
    BY <1>2, <1>7 DEF Foreseen, Changes
  <2> QED BY <1>1, <1>6, <2>1, AgreesKept
<1>8. \A w : Justified'
  BY <1>1, <1>3 DEF Calm, Justified
<1>9. ASSUME NEW o \in Signals \X Pids, DueNow(v, o)
      PROVE  o \in reports'
  <2>1. /\ o[1] \in {"ptrace", "ptrace guarded"} /\ p = o[2] /\ noted
        /\ o[1] = "ptrace guarded" => event.pid \in a.ready /\ event.pid \in a.tree
    BY <1>2, <1>4, <1>9 DEF DueNow
  <2>2. o[1] = "ptrace guarded" => RootOf(event.pid) # 0
    BY <1>6, <2>1 DEF Agrees
  <2>3. o[1] \in signals
    BY <2>1, <2>2
  <2>4. o = <<o[1], p>>
    BY <2>1, PairIs
  <2> QED BY <1>1, <2>1, <2>3, <2>4
<1>10. Foreseen(event, Truth.image, v[0], v[1]) => Agrees(v[1])'
  BY <1>4, <1>5, <1>7
<1>11. /\ phase' # "seeding" /\ reports \subseteq reports'
       /\ UNCHANGED <<proc, untrusted, clock, owed, strays>>
  BY <1>1, <1>2
<1> QED BY <1>1, <1>2, <1>3, <1>8, <1>9, <1>10, <1>11, HandlesCalm

LEMMA OnExecCalm ==
    ASSUME ProcAssumption, TypeOK, TypeOK', SocketInv, CalmInv, OnExec, disturbed' = {}
    PROVE  \E v : Calm(v)'
<1>1. PICK p : p = event.pid
  OBVIOUS
<1> DEFINE new == Examined(p)
           judged == Live(p) /\ new.image \notin Guarded \cup Ignored
<1>2. /\ Receive("exec") /\ disturbed = {}
      /\ procs' = IF Live(p) THEN [procs EXCEPT ![p] = new] ELSE procs
      /\ verdict' = IF judged /\ Lineage(p, new) THEN {<<"lineage", p>>}
                    ELSE IF judged /\ new.image \in Temp THEN {<<"temp", p>>} ELSE {}
      /\ phase' = IF verdict' = {} THEN phase ELSE "striking"
      /\ UNCHANGED <<proc, untrusted, clock, reports, strays, owed>>
  BY <1>1 DEF OnExec, kernelVars
<1>3. /\ queue # <<>> /\ queue' = Tail(queue) /\ phase = "watching" /\ event.what = "exec"
  BY <1>2 DEF Receive, event
<1>4. PICK v : Calm(v)
  BY <1>2 DEF CalmInv
<1>5. PICK a \in View : a = v[0]
  BY <1>3, <1>4, Views
<1>6. PICK b \in View : b = v[1]
  BY <1>3, <1>4, Views
<1>7. Agrees(a)
  BY <1>3, <1>4, <1>5 DEF Calm
<1>8. procs \in [Pids -> Rec \cup {None}]
  BY DEF TypeOK
<1>9. p \in Pids /\ Live(p) /\ ~Pending(p)'
  <2>1. queue \in Seq(Event) /\ Execs
    BY <1>2 DEF TypeOK, SocketInv
  <2> QED BY <1>1, <1>2, <1>3, <2>1, SocketShrinks
<1>10. /\ new.image = proc[p].image /\ new \in Rec
       /\ proc[p].image \in Guarded => new.root = p
       /\ proc[p].image \notin Guarded => new.root = Former(p).root /\ new.started = Former(p).started
  BY <1>9, ExaminedIs
<1> HIDE DEF new
<1>11. procs'[p] = new /\ \A q \in Pids : q # p => procs'[q] = procs[q]
  BY <1>2, <1>8, <1>9
<1>12. Known(p)' /\ RootOf(p)' = new.root
  <2>1. new # None
    BY <1>10, RecIs
  <2> QED BY <1>11, <2>1 DEF Known, RootOf
<1>13. Former(p).root = RootOf(p)
  BY DEF Former, RootOf
<1>14. p # 0
  BY <1>9, Constants
<1>15. Foreseen(event, Truth.image, a, b) => Agrees(b)'
  <2> SUFFICES ASSUME Foreseen(event, Truth.image, a, b) PROVE Agrees(b)'
    OBVIOUS
  <2>0. Truth.image[p] = proc[p].image
    BY <1>9, TruthIs
  <2>1. /\ p \in a.ready /\ b.image = [a.image EXCEPT ![p] = proc[p].image]
        /\ b.tree = IF proc[p].image \in Guarded THEN a.tree \cup {p} ELSE a.tree
        /\ \A q \in b.ready : q \in a.ready \/ q = p
    BY <1>1, <1>3, <2>0 DEF Foreseen, Changes
  <2>2. a.image \in [Pids -> Images \cup {"none"}]
    BY DEF View
  <2>3. \A q \in Pids : q # p => /\ procs'[q] = procs[q] /\ b.image[q] = a.image[q]
                                 /\ q \in b.tree <=> q \in a.tree
    <3>1. \A q \in Pids : q # p => b.image[q] = a.image[q]
      BY <2>1, <2>2
    <3>2. \A q : q # p => (q \in b.tree <=> q \in a.tree)
      BY <2>1
    <3> QED BY <1>11, <3>1, <3>2, Zenon
  <2>4. RootOf(p) # 0 <=> p \in a.tree
    BY <1>7, <2>1 DEF Agrees
  <2>5. procs'[p].image = b.image[p]
    BY <1>9, <1>10, <1>11, <2>1, <2>2
  <2>6. RootOf(p)' # 0 <=> p \in b.tree
    BY <1>10, <1>12, <1>13, <1>14, <2>1, <2>4
  <2> QED BY <1>7, <1>9, <2>1, <2>3, <2>5, <2>6, AgreesNow
<1>16. \A q \in Pids : ~Changes(event, q) => procs'[q] = procs[q]
  BY <1>1, <1>3, <1>11 DEF Changes
<1>17. ASSUME NEW o \in Signals \X Pids, DueNow(v, o)
       PROVE  o \in verdict'
  <2>1. o[1] = "lineage" /\ p = o[2] /\ Offends(p)
    BY <1>1, <1>3, <1>17 DEF DueNow
  <2>2. o = <<"lineage", p>>
    BY <2>1, PairIs
  <2>3. /\ proc[p].image \in Payload \ (Ignored \cup Guarded)
        /\ Known(p) /\ procs[p].root # 0 /\ clock - procs[p].started >= Grace
        /\ procs[p].root = p => procs[p].image # proc[p].image
    BY <2>1 DEF Offends
  <2>4. new.root = procs[p].root /\ new.started = procs[p].started
    BY <1>10, <2>3 DEF Former
  <2>5. judged
    BY <1>9, <1>10, <2>3
  <2>6. ~InGrace(new)
    <3>1. procs[p].started \in Int /\ clock \in Int
      BY <1>8, <1>9, <2>3, Constants DEF Known, Rec, TypeOK
    <3> QED BY <2>3, <2>4, <3>1, Constants DEF InGrace
  <2>7. Lineage(p, new)
    BY <1>10, <2>3, <2>4, <2>6 DEF Lineage, InTree
  <2> QED BY <1>2, <2>2, <2>5, <2>7
<1>18. ASSUME NEW w, Chain(w, queue', Truth'), Agrees(w[0])'
       PROVE  Justified'
  <2>1. PICK q \in Seq(Event) : q = queue'
    BY DEF TypeOK
  <2>2. PICK truth : truth = Truth
    OBVIOUS
  <2>3. Truth' = truth /\ truth.ready = Pids /\ truth.tree = untrusted
    BY <1>2, <2>2, TruthIs DEF Truth
  <2>4. 0 \in 0..Len(q) /\ \A j \in 1..Len(q) : j > 0 => ~Changes(q[j], p)
    BY <1>9, <2>1 DEF Pending, Changes
  <2>5. Chain(w, q, truth)
    BY <1>18, <2>1, <2>3
  <2>6. p \in w[0].ready /\ (p \in w[0].tree <=> p \in untrusted)
    BY <1>9, <2>3, <2>4, <2>5, ChainRests
  <2>7. RootOf(p)' # 0 <=> p \in w[0].tree
    BY <1>18, <2>6 DEF Agrees
  <2>8. Lineage(p, new) => p \in untrusted
    BY <1>12, <2>6, <2>7 DEF Lineage, InTree
  <2>9. \A u \in verdict' : u[2] = p /\ (Lineage(p, new) \/ new.image \in Temp)
    BY <1>2
  <2> QED BY <1>2, <1>10, <2>8, <2>9 DEF Justified
<1>19. Foreseen(event, Truth.image, v[0], v[1]) => Agrees(v[1])'
  BY <1>5, <1>6, <1>15
<1>20. /\ phase' # "seeding" /\ reports \subseteq reports'
       /\ UNCHANGED <<proc, untrusted, clock, owed, strays>>
  BY <1>2, <1>3
<1> QED BY <1>2, <1>3, <1>4, <1>16, <1>17, <1>18, <1>19, <1>20, HandlesCalm

LEMMA MonitorCalm ==
    ASSUME ProcAssumption, TypeOK, TypeOK', SocketInv, CalmInv, Seed \/ Resync \/ Handle,
           disturbed' = {}
    PROVE  \E v : Calm(v)'
<1>1. ASSUME Resync PROVE FALSE
  BY <1>1 DEF Resync, SocketInv, kernelVars
<1> QED BY <1>1, SeedReadCalm, SeedSpreadCalm, StrikeCalm, OnForkCalm, OnExitCalm, OnExecCalm,
           OnUidCalm, OnPtraceCalm DEF Seed, Handle

LEMMA StepCalm ==
    ASSUME ProcAssumption, TypeOK, TypeOK', SocketInv, CalmInv, [Next]_vars
    PROVE  CalmInv'
<1> SUFFICES ASSUME disturbed' = {} PROVE \E v : Calm(v)'
  BY DEF CalmInv
<1>1. CASE UNCHANGED vars
  <2>1. /\ UNCHANGED <<kernelVars, queue, clock, monVars, owed>>
    BY <1>1 DEF vars
  <2>2. PICK v : Calm(v)
    BY <2>1 DEF CalmInv, kernelVars
  <2>3. Chain(v, queue', Truth') /\ Justified' /\ strays' = {}
    BY <2>1, <2>2 DEF Calm, Truth, Justified, kernelVars, monVars
  <2>4. Owing(v)'
    BY <2>1, <2>2, DueKept DEF Calm, Owing, kernelVars, monVars
  <2>5. phase' # "seeding" => Agrees(v[0])'
    BY <2>1, <2>2, AgreesKept DEF Calm, kernelVars, monVars
  <2>6. phase' = "seeding" => Seeds(v[0])'
    BY <2>1, <2>2 DEF Calm, Seeds, Read, Known, Live, kernelVars, monVars
  <2> QED BY <2>3, <2>4, <2>5, <2>6, CalmAgain
<1>2. CASE Next
  BY <1>2, KernelCalm, MonitorCalm, TickCalm DEF Next
<1> QED BY <1>1, <1>2

(***************************************************************************)
(* The theorems.                                                           *)
(***************************************************************************)

(* No process that the daemon finds is more than 32 generations below a    *)
(* guarded one it descends from: as far as the climb of seed_from_proc     *)
(* goes.                                                                   *)
Shallow(t) == \E depth \in [Pids -> 0..32] : \A p \in TreeOf(t) :
                 t[p].image \notin Guarded => depth[t[p].parent] < depth[p]

LEMMA InitCalm ==
    ASSUME ProcAssumption, Init, Shallow(proc)
    PROVE  CalmInv
<1>0. TypeOK
  BY InitTypes
<1>1. PICK a \in View : a = Truth
  BY <1>0, TruthIs
<1>2. PICK v : v = [i \in 0..0 |-> a]
  OBVIOUS
<1>3. Len(queue) = 0 /\ v[0] = a /\ v \in [0..0 -> View]
  BY <1>2 DEF Init
<1>4. Chain(v, queue, Truth)
  BY <1>1, <1>3 DEF Chain
<1>5. Seeds(a)
  <2>1. /\ a.ready = Pids /\ a.tree = untrusted
        /\ \A p \in Pids : a.image[p] = proc[p].image
    BY <1>0, <1>1, TruthIs
  <2>2. untrusted = TreeOf(proc) /\ todo = Pids /\ procs = [p \in Pids |-> None]
    BY DEF Init
  <2>3. /\ proc[1] = [parent |-> 1, image |-> Plain]
        /\ \A p \in Pids : p # 1 /\ Live(p) => proc[p].parent \in Pids /\ Live(proc[p].parent)
    <3>1. 1 \in Pids /\ proc \in [Pids -> Process \cup {None}]
      BY <1>0, Constants DEF TypeOK
    <3>2. \A p \in Pids : IF p = 1 THEN proc[p] = [parent |-> 1, image |-> Plain]
                          ELSE proc[p] # None => proc[proc[p].parent] # None
      BY DEF Init, Trees
    <3>3. \A p \in Pids : Live(p) => proc[p].parent \in Pids
      BY <3>1 DEF Live, Process
    <3> QED BY <3>1, <3>2, <3>3 DEF Live
  <2>4. /\ \A p \in Pids : Live(p) => proc[p].parent \in Pids /\ Live(proc[p].parent)
        /\ proc[1].image \notin Guarded
    <3>1. Live(1) /\ proc[1].parent = 1 /\ proc[1].image = Plain /\ Plain \notin Guarded
      BY <2>3 DEF Live, None, ProcAssumption
    <3> QED BY <2>3, <3>1, Constants
  <2>5. /\ \A p \in Pids : Live(p) /\ p # 1
                             /\ (proc[p].image \in Guarded \/ proc[p].parent \in untrusted)
                             => p \in untrusted
        /\ \A p \in untrusted : proc[p].image \in Guarded \/ proc[p].parent \in untrusted
    BY <2>2, TreeCloses, TreeIsLeast DEF Closed, Live
  <2>6. \A p \in todo : ~Known(p)
    BY <2>2 DEF Known
  <2>7. \E depth \in [Pids -> 0..32] : \A p \in Pids :
            p \in untrusted /\ proc[p].image \notin Guarded => depth[proc[p].parent] < depth[p]
    BY <2>2 DEF Shallow
  <2> HIDE DEF Read
  <2> QED BY <2>1, <2>2, <2>4, <2>5, <2>6, <2>7 DEF Seeds
<1>6. Owing(v) /\ Justified /\ strays = {} /\ phase = "seeding"
  BY DEF Init, Owing, Justified
<1> QED BY <1>3, <1>4, <1>5, <1>6 DEF Calm, CalmInv

LEMMA SocketInvHolds == Spec => []SocketInv
<1>1. Init => SocketInv
  BY InitSocket, ProcAssumption
<1>2. TypeOK /\ SocketInv /\ [Next]_vars => SocketInv'
  BY StepSocket, ProcAssumption
<1> QED BY <1>1, <1>2, TypeCorrect, PTL DEF Spec

LEMMA CalmInvHolds == Spec /\ Shallow(proc) => []CalmInv
<1>1. Init /\ Shallow(proc) => CalmInv
  BY InitCalm, ProcAssumption
<1>2. TypeOK /\ TypeOK' /\ SocketInv /\ CalmInv /\ [Next]_vars => CalmInv'
  BY StepCalm, ProcAssumption
<1> QED BY <1>1, <1>2, TypeCorrect, SocketInvHolds, PTL DEF Spec

(* When every event is handled, the records are the truth.                 *)
LEMMA CaughtUpIs ==
    ASSUME ProcAssumption, TypeOK, CaughtUp, NEW v, Calm(v), NEW p \in Pids
    PROVE  RootOf(p) # 0 <=> p \in untrusted
<1>1. ~Pending(p) /\ phase # "seeding"
  BY DEF CaughtUp, Pending
<1> QED BY <1>1, RestsIs

(* Once every event is handled, each process that runs a guarded program   *)
(* or descends from one is known to have a guarded root, as long as        *)
(* nothing of Kinds has happened.                                          *)
THEOREM WholeTreeUntrusted == Spec /\ Shallow(proc) => []TreeUntrusted
<1>1. ASSUME TypeOK, CalmInv PROVE TreeUntrusted
  <2> SUFFICES ASSUME disturbed = {}, CaughtUp, NEW p \in untrusted PROVE RootOf(p) # 0
    BY DEF TreeUntrusted, TreeKnown
  <2>1. p \in Pids
    BY <1>1 DEF TypeOK
  <2>2. PICK v : Calm(v)
    BY <1>1 DEF CalmInv
  <2> QED BY <1>1, <2>1, <2>2, CaughtUpIs, ProcAssumption
<1>2. TypeOK /\ CalmInv => TreeUntrusted
  BY <1>1
<1> QED BY <1>2, TypeCorrect, CalmInvHolds, PTL

(* A payload started in a guarded tree, a process of one that becomes      *)
(* root, and one that attaches to another are reported once the events are *)
(* handled, as long as nothing of Kinds has happened.                      *)
THEOREM EveryOffenceReported == Spec /\ Shallow(proc) => []OffencesReported
<1>1. ASSUME TypeOK, SocketInv, CalmInv PROVE OffencesReported
  <2> SUFFICES ASSUME CaughtUp, disturbed = {}, NEW o \in owed PROVE o \in reports
    BY DEF OffencesReported
  <2>1. PICK v : Calm(v)
    BY <1>1 DEF CalmInv
  <2>2. verdict = {}
    BY <1>1 DEF SocketInv, Verdicts, CaughtUp
  <2>3. ~Due(v, o)
    BY DEF CaughtUp, Due, PrivescDue, PtraceDue, LineageDue
  <2> HIDE DEF Due
  <2> QED BY <2>1, <2>2, <2>3 DEF Calm, Owing
<1>2. TypeOK /\ SocketInv /\ CalmInv => OffencesReported
  BY <1>1
<1> QED BY <1>2, TypeCorrect, SocketInvHolds, CalmInvHolds, PTL

(* A kill hits a process of a guarded tree or one from a scratch           *)
(* directory, however late it comes, as long as nothing of Kinds has       *)
(* happened.                                                               *)
THEOREM OnlyOffendersKilled == Spec /\ Shallow(proc) => []KillsOffenders
<1>1. CalmInv => KillsOffenders
  BY DEF CalmInv, Calm, KillsOffenders
<1> QED BY <1>1, CalmInvHolds, PTL
=============================================================================
