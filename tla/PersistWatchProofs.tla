------------------------- MODULE PersistWatchProofs -------------------------
(***************************************************************************)
(* Theorems about PersistWatch, for any targets, filters and queue sizes.  *)
(***************************************************************************)
EXTENDS PersistWatch, SequenceTheorems, TLAPS

LEMMA OneMore == \A n \in Nat : n + 1 \in Nat /\ n < n + 1
OBVIOUS

(***************************************************************************)
(* The queue of the kernel.                                                *)
(***************************************************************************)

(* What a queue tells after one more event: what it told, and that event   *)
(* at its end.                                                             *)
TellsMore(q, e, r) ==
    \A i \in DOMAIN r : \A n \in r[i].of :
        \/ /\ i \in DOMAIN q /\ n \in q[i].of
           /\ r[i].dir = q[i].dir /\ r[i].name = q[i].name
        \/ /\ i = Len(r) /\ n \in e.of
           /\ r[i].dir = e.dir /\ r[i].name = e.name

QueueOK(q) == /\ q \in Seq(Events) /\ Len(q) <= QueueMax + 1
              /\ Len(q) > QueueMax => Overflow \in Range(q)

LEMMA OverflowIs == /\ Overflow \in Events /\ Overflow.of = {} /\ Overflow.dir = NoDir
BY DEF Overflow, Events

LEMMA EventIs ==
    ASSUME NEW e \in Events
    PROVE  /\ e.of \subseteq Changes
           /\ e.dir \in Dirs \cup {NoDir}
           /\ e.name \in Names \cup {"none"}
           /\ e.dir # NoDir => e.dir \in Dirs
BY DEF Events, Overflow

LEMMA QueueGrows ==
    ASSUME PersistAssumption, QueueOK(events), NEW e \in Events, e.dir \in Dirs, Queued(e)
    PROVE  QueueOK(events') /\ TellsMore(events, e, events')
<1>0. QueueMax \in Nat \ {0} /\ Len(events) \in Nat
  BY DEF PersistAssumption, QueueOK
<1>1. ASSUME Len(events) >= QueueMax, Overflow \in Range(events), events' = events
      PROVE  QueueOK(events') /\ TellsMore(events, e, events')
  BY <1>1 DEF QueueOK, TellsMore
<1>2. ASSUME Len(events) >= QueueMax, Overflow \notin Range(events),
             events' = Append(events, Overflow)
      PROVE  QueueOK(events') /\ TellsMore(events, e, events')
  <2>1. /\ events' \in Seq(Events) /\ Len(events') = Len(events) + 1
        /\ events'[Len(events')] = Overflow
        /\ \A i \in DOMAIN events : events'[i] = events[i]
        /\ DOMAIN events' = DOMAIN events \cup {Len(events')}
    BY <1>2, OverflowIs, AppendProperties DEF QueueOK
  <2>2. Len(events) <= QueueMax
    BY <1>0, <1>2 DEF QueueOK
  <2>3. Overflow \in Range(events')
    BY <2>1 DEF Range
  <2>4. QueueOK(events')
    BY <1>0, <2>1, <2>2, <2>3 DEF QueueOK
  <2>5. TellsMore(events, e, events')
    BY <2>1, OverflowIs DEF TellsMore
  <2> QED BY <2>4, <2>5
<1>3. ASSUME Len(events) < QueueMax, events' = Append(events, e)
      PROVE  QueueOK(events') /\ TellsMore(events, e, events')
  <2>1. /\ events' \in Seq(Events) /\ Len(events') = Len(events) + 1
        /\ events'[Len(events')] = e
        /\ \A i \in DOMAIN events : events'[i] = events[i]
        /\ DOMAIN events' = DOMAIN events \cup {Len(events')}
    BY <1>3, AppendProperties DEF QueueOK
  <2>2. QueueOK(events')
    BY <1>0, <1>3, <2>1 DEF QueueOK
  <2>3. TellsMore(events, e, events')
    BY <2>1 DEF TellsMore
  <2> QED BY <2>2, <2>3
<1>4. ASSUME Len(events) < QueueMax, Merges(e),
             events' = [events EXCEPT ![Len(events)].of = @ \cup e.of]
      PROVE  QueueOK(events') /\ TellsMore(events, e, events')
  <2> DEFINE k == Len(events)
             last == events[k]
  <2>1. /\ events \in Seq(Events) /\ events # <<>> /\ k \in DOMAIN events
        /\ last \in Events /\ last.dir = e.dir /\ last.name = e.name
    BY <1>0, <1>4 DEF QueueOK, Merges, Last
  <2>2. last \in [dir : Dirs, name : Names \cup {"none"}, of : SUBSET Changes]
    BY <2>1 DEF Events, Overflow, NoDir, Dirs
  <2>3. e.of \subseteq Changes
    BY EventIs
  <2>4. /\ [last EXCEPT !.of = @ \cup e.of] \in Events
        /\ [last EXCEPT !.of = @ \cup e.of].dir = e.dir
        /\ [last EXCEPT !.of = @ \cup e.of].name = e.name
        /\ [last EXCEPT !.of = @ \cup e.of].of = last.of \cup e.of
    BY <2>1, <2>2, <2>3 DEF Events
  <2>5. events' = [events EXCEPT ![k] = [last EXCEPT !.of = @ \cup e.of]]
    BY <1>4
  <2> HIDE DEF last
  <2>6. /\ events' \in Seq(Events) /\ Len(events') = k /\ DOMAIN events' = DOMAIN events
        /\ events'[k] = [last EXCEPT !.of = @ \cup e.of]
        /\ \A i \in DOMAIN events : i # k => events'[i] = events[i]
    BY <2>1, <2>4, <2>5
  <2>7. QueueOK(events')
    BY <1>0, <1>4, <2>6 DEF QueueOK
  <2>8. TellsMore(events, e, events')
    BY <2>1, <2>4, <2>6 DEF TellsMore, last
  <2> QED BY <2>7, <2>8
<1> QED BY <1>0, <1>1, <1>2, <1>3, <1>4 DEF Queued, Dropped

(***************************************************************************)
(* Types and watches.                                                      *)
(***************************************************************************)

LEMMA TargetIs ==
    ASSUME PersistAssumption
    PROVE  /\ Len(Targets) \in Nat /\ DOMAIN Targets = 1..Len(Targets)
           /\ \A i \in 1..Len(Targets) : Targets[i] \in Paths
BY DEF PersistAssumption

(* A target is the last one of a set when the others come before it.       *)
LEMMA LastIs ==
    ASSUME PersistAssumption, NEW C, NEW k \in DOMAIN Targets, Targets[k] \in C,
           \A j \in DOMAIN Targets : Targets[j] \in C => j <= k
    PROVE  LastOf(C) = Targets[k]
<1> DEFINE P(i) == /\ Targets[i] \in C
                   /\ \A j \in DOMAIN Targets : Targets[j] \in C => j <= i
<1>1. \A i \in DOMAIN Targets : P(i) => i = k
  BY TargetIs
<1>2. P(k)
  OBVIOUS
<1> HIDE DEF P
<1>3. (CHOOSE i \in DOMAIN Targets : P(i)) = k
  BY <1>1, <1>2
<1> QED BY <1>3 DEF P, LastOf

Silent == UNCHANGED <<events, batch, alerts, changes>>

(* The steps of the world, of the start and of the stop that neither queue *)
(* an event nor handle one.                                                *)
Quiet == \/ \E p \in Paths : MakeDir(p)
         \/ \E p, q \in Paths : MoveDir(p, q)
         \/ Start \/ StartThread \/ Stop \/ EndLoop \/ NextPoll

LEMMA QuietOnes ==
    ASSUME Quiet
    PROVE  Silent /\ UNCHANGED <<watches, covered, next>>
BY DEF Quiet, MakeDir, MoveDir, Start, StartThread, Stop, EndLoop, NextPoll, Silent,
       disk, thread, history

LEMMA ChangeQueues ==
    ASSUME PersistAssumption, TypeOK, WatchInv, NEW d \in Dirs, NEW name \in Names,
           Change(d, name)
    PROVE  LET n == Len(changes) + 1
               e == [dir |-> d, name |-> name, of |-> {n}]
           IN /\ n \in Changes /\ e \in Events
              /\ changes' = Append(changes, [dir |-> d, name |-> name])
              /\ QueueOK(events') /\ TellsMore(events, e, events')
<1> DEFINE n == Len(changes) + 1
           e == [dir |-> d, name |-> name, of |-> {n}]
<1>1. n \in Changes
  BY DEF Change, TypeOK, Changes, PersistAssumption
<1>2. e \in Events /\ e.dir \in Dirs
  BY <1>1 DEF Events
<1>3. QueueOK(events)
  BY DEF TypeOK, WatchInv, QueueOK
<1>4. CASE d \in marked
  <2>1. Queued(e)
    BY <1>4 DEF Change
  <2> HIDE DEF e
  <2>2. QueueOK(events') /\ TellsMore(events, e, events')
    BY <1>2, <1>3, <2>1, QueueGrows
  <2> QED BY <1>1, <1>2, <2>2 DEF Change, e
<1>5. CASE d \notin marked
  <2>1. events' = events
    BY <1>5 DEF Change
  <2>2. QueueOK(events')
    BY <1>3, <2>1 DEF QueueOK
  <2>3. TellsMore(events, e, events')
    BY <2>1 DEF TellsMore
  <2> QED BY <1>1, <1>2, <2>2, <2>3 DEF Change
<1> QED BY <1>4, <1>5

LEMMA RemovalQueues ==
    ASSUME PersistAssumption, TypeOK, WatchInv, NEW d \in Dirs, RemoveDir(d)
    PROVE  LET e == [dir |-> d, name |-> "none", of |-> {}]
           IN e \in Events /\ QueueOK(events') /\ TellsMore(events, e, events')
<1> DEFINE e == [dir |-> d, name |-> "none", of |-> {}]
<1>1. e \in Events /\ e.dir \in Dirs
  BY DEF Events
<1>2. QueueOK(events)
  BY DEF TypeOK, WatchInv, QueueOK
<1>3. CASE d \in marked
  <2>1. Queued(e)
    BY <1>3 DEF RemoveDir
  <2> HIDE DEF e
  <2>2. QueueOK(events') /\ TellsMore(events, e, events')
    BY <1>1, <1>2, <2>1, QueueGrows
  <2> QED BY <1>1, <2>2 DEF e
<1>4. CASE d \notin marked
  <2>1. events' = events
    BY <1>4 DEF RemoveDir
  <2>2. QueueOK(events')
    BY <1>2, <2>1 DEF QueueOK
  <2>3. TellsMore(events, e, events')
    BY <2>1 DEF TellsMore
  <2> QED BY <1>1, <2>2, <2>3
<1> QED BY <1>3, <1>4

LEMMA QueueRead ==
    ASSUME PersistAssumption, TypeOK, WatchInv, ReadEvents
    PROVE  /\ QueueOK(events')
           /\ batch' \in Seq(Events) /\ Len(batch') <= BatchMax
           /\ \E k \in 1..Len(events) :
                 /\ DOMAIN batch' = 1..k /\ DOMAIN events' = 1..(Len(events) - k)
                 /\ \A i \in 1..k : batch'[i] = events[i]
                 /\ \A i \in 1..(Len(events) - k) : events'[i] = events[i + k]
<1> DEFINE k == IF Len(events) < BatchMax THEN Len(events) ELSE BatchMax
<1>1. /\ events \in Seq(Events) /\ Len(events) \in Nat /\ Len(events) <= QueueMax + 1
      /\ BatchMax \in Nat \ {0} /\ QueueMax \in Nat \ {0} /\ events # <<>>
  BY DEF TypeOK, PersistAssumption, ReadEvents
<1>2. k \in 1..Len(events) /\ k <= BatchMax
  BY <1>1
<1>3. batch' = SubSeq(events, 1, k) /\ events' = SubSeq(events, k + 1, Len(events))
  BY DEF ReadEvents
<1> HIDE DEF k
<1>4. /\ batch' \in Seq(Events) /\ Len(batch') = k /\ DOMAIN batch' = 1..k
      /\ \A i \in 1..k : batch'[i] = events[i]
  BY <1>1, <1>2, <1>3
<1>5. /\ events' \in Seq(Events) /\ Len(events') = Len(events) - k
      /\ DOMAIN events' = 1..(Len(events) - k)
      /\ \A i \in 1..(Len(events) - k) : events'[i] = events[i + k]
  BY <1>1, <1>2, <1>3
<1>6. QueueOK(events')
  BY <1>1, <1>2, <1>5 DEF QueueOK
<1> QED BY <1>2, <1>4, <1>5, <1>6

LEMMA ReportIs ==
    ASSUME PersistAssumption, TypeOK, Report
    PROVE  LET e == batch[1]
           IN /\ batch # <<>> /\ e \in Events
              /\ batch' = Tail(batch) /\ batch' \in Seq(Events) /\ Len(batch') = Len(batch) - 1
              /\ \A i \in 1..(Len(batch) - 1) : batch'[i] = batch[i + 1]
              /\ \/ alerts' = alerts
                 \/ /\ Reported(e) /\ e.dir \in Dirs /\ e.name \in Names
                    /\ [path |-> watches[e.dir], name |-> e.name, of |-> e.of] \in Alerts
                    /\ alerts' = Append(alerts, [path |-> watches[e.dir],
                                                 name |-> e.name, of |-> e.of])
<1> DEFINE e == batch[1]
<1>1. batch \in Seq(Events) /\ batch # <<>> /\ e = Head(batch) /\ batch' = Tail(batch)
  BY DEF TypeOK, Report
<1>2. e \in Events
  BY <1>1
<1>3. /\ batch' \in Seq(Events) /\ Len(batch') = Len(batch) - 1
      /\ \A i \in 1..(Len(batch) - 1) : batch'[i] = batch[i + 1]
  BY <1>1
<1>4. ASSUME Reported(e)
      PROVE  /\ e.dir \in Dirs /\ e.name \in Names /\ watches[e.dir] \in Paths
             /\ [path |-> watches[e.dir], name |-> e.name, of |-> e.of] \in Alerts
  <2>1. e.of \subseteq Changes /\ e.dir \in Dirs /\ e.name \in Names
    BY <1>2, <1>4, EventIs DEF Reported
  <2>2. watches[e.dir] \in Paths
    BY <1>4, <2>1 DEF Reported, TypeOK
  <2> QED BY <2>1, <2>2 DEF Alerts
<1>5. alerts' = IF Reported(e)
                THEN Append(alerts, [path |-> watches[e.dir], name |-> e.name, of |-> e.of])
                ELSE alerts
  BY <1>1 DEF Report
<1> QED BY <1>1, <1>2, <1>3, <1>4, <1>5

LEMMA TypeInit == PersistAssumption /\ Init => TypeOK /\ WatchInv
<1> SUFFICES ASSUME PersistAssumption, Init
             PROVE  TypeOK /\ WatchInv
  OBVIOUS
<1>1. /\ made \in Nat /\ 0..made \subseteq Dirs \cup {NoDir}
      /\ Len(Targets) \in Nat
  BY TargetIs DEF Init, PersistAssumption, Dirs, NoDir
<1>2. at \in [Paths -> Dirs \cup {NoDir}]
  BY <1>1 DEF Init
<1>3. /\ events \in Seq(Events) /\ batch \in Seq(Events) /\ alerts \in Seq(Alerts)
      /\ changes \in Seq([dir : Dirs, name : Names])
      /\ Len(events) = 0 /\ Len(batch) = 0 /\ Len(changes) = 0
  BY DEF Init
<1>4. TypeOK
  <2>1. watches \in [Dirs -> Paths \cup {NoPath}] /\ covered \in [Dirs -> SUBSET Paths]
    BY DEF Init
  <2>2. BatchMax \in Nat /\ QueueMax \in Nat /\ MaxChanges \in Nat
    BY DEF PersistAssumption
  <2>3. /\ made \in 0..MaxDirs /\ alive \subseteq 1..made /\ marked \subseteq alive
    BY DEF Init
  <2>6. next \in 1..Len(Targets) + 1
    BY <1>1 DEF Init
  <2>7. running \in BOOLEAN /\ kept \subseteq DOMAIN changes
    BY DEF Init
  <2>4. pc \in {"off", "adding", "poll", "reports", "ended", "stopped"}
    BY DEF Init
  <2>5. /\ Len(events) <= QueueMax + 1 /\ Len(batch) <= BatchMax
        /\ Len(changes) <= MaxChanges
    BY <1>3, <2>2
  <2> QED BY <1>2, <1>3, <2>1, <2>3, <2>4, <2>5, <2>6, <2>7 DEF TypeOK
<1>5. WatchInv
  <2>1. \A p \in Paths : at[p] # NoDir => at[p] \in alive
    BY <1>1 DEF Init, NoDir
  <2>2. ~(Len(events) > QueueMax)
    BY <1>3 DEF PersistAssumption
  <2>3. /\ batch = <<>> /\ alerts = <<>> /\ covered = [d \in Dirs |-> {}]
        /\ watches = [d \in Dirs |-> NoPath]
    BY DEF Init
  <2> QED BY <2>1, <2>2, <2>3 DEF WatchInv
<1> QED BY <1>4, <1>5

LEMMA TypeKept ==
    ASSUME PersistAssumption, TypeOK, WatchInv, Next
    PROVE  TypeOK' /\ WatchInv'
<1>0. /\ QueueMax \in Nat \ {0} /\ BatchMax \in Nat \ {0} /\ MaxDirs \in Nat
      /\ made \in Nat /\ Len(Targets) \in Nat
  BY TargetIs DEF PersistAssumption, TypeOK
<1>1. ASSUME NEW d \in Dirs, NEW name \in Names, Change(d, name)
      PROVE  TypeOK' /\ WatchInv'
  <2> DEFINE n == Len(changes) + 1
  <2>1. /\ n \in Changes /\ changes' = Append(changes, [dir |-> d, name |-> name])
        /\ QueueOK(events')
    BY <1>1, ChangeQueues
  <2>2. /\ changes \in Seq([dir : Dirs, name : Names])
        /\ [dir |-> d, name |-> name] \in [dir : Dirs, name : Names]
    BY DEF TypeOK
  <2>3. /\ changes' \in Seq([dir : Dirs, name : Names]) /\ Len(changes') = n
        /\ DOMAIN changes' = DOMAIN changes \cup {n}
    BY <2>1, <2>2, AppendProperties
  <2>4. n <= MaxChanges
    BY <1>1 DEF Change
  <2>5. kept' \subseteq kept \cup {n}
    BY <1>1 DEF Change
  <2>6. kept' \subseteq DOMAIN changes'
    BY <2>3, <2>5 DEF TypeOK
  <2>7. UNCHANGED <<disk, marked, thread, covered>>
    BY <1>1 DEF Change
  <2>8. TypeOK'
    BY <2>1, <2>3, <2>4, <2>6, <2>7 DEF TypeOK, QueueOK, disk, thread
  <2>9. WatchInv'
    BY <2>1, <2>7 DEF WatchInv, QueueOK, disk, thread
  <2> QED BY <2>8, <2>9
<1>2. ASSUME NEW p \in Paths, MakeDir(p)
      PROVE  TypeOK' /\ WatchInv'
  <2>1. /\ made' = made + 1 /\ alive' = alive \cup {made + 1}
        /\ at' = [at EXCEPT ![p] = made + 1] /\ made < MaxDirs
        /\ UNCHANGED <<marked, events, thread, history>>
    BY <1>2 DEF MakeDir
  <2>2. made' \in 0..MaxDirs /\ alive' \subseteq 1..made' /\ marked' \subseteq alive'
        /\ 0..made \subseteq 0..made' /\ made + 1 \in 0..made' /\ made + 1 \in Dirs
    BY <1>0, <2>1 DEF TypeOK, Dirs
  <2>3. /\ at' \in [Paths -> Dirs \cup {NoDir}]
        /\ \A q \in Paths : at'[q] # NoDir => at'[q] \in alive'
    BY <2>1, <2>2 DEF TypeOK, WatchInv
  <2>4. TypeOK'
    BY <2>1, <2>2, <2>3 DEF TypeOK, thread, history
  <2>5. WatchInv'
    BY <2>1, <2>3 DEF WatchInv, thread, history
  <2> QED BY <2>4, <2>5
<1>3. ASSUME NEW d \in Dirs, RemoveDir(d)
      PROVE  TypeOK' /\ WatchInv'
  <2>1. /\ alive' = alive \ {d} /\ marked' = marked \ {d}
        /\ at' = [p \in Paths |-> IF at[p] = d THEN NoDir ELSE at[p]]
        /\ UNCHANGED <<made, thread, history>>
    BY <1>3 DEF RemoveDir
  <2>2. QueueOK(events')
    BY <1>3, RemovalQueues
  <2>3. /\ at' \in [Paths -> Dirs \cup {NoDir}]
        /\ \A p \in Paths : at'[p] # NoDir => at'[p] \in alive'
    BY <2>1 DEF TypeOK, WatchInv
  <2>4. TypeOK'
    BY <2>1, <2>2, <2>3 DEF TypeOK, QueueOK, thread, history
  <2>5. WatchInv'
    BY <2>1, <2>2, <2>3 DEF WatchInv, QueueOK, thread, history
  <2> QED BY <2>4, <2>5
<1>4. ASSUME NEW p \in Paths, NEW q \in Paths, MoveDir(p, q)
      PROVE  TypeOK' /\ WatchInv'
  <2>1. /\ at' = [at EXCEPT ![q] = at[p], ![p] = NoDir]
        /\ UNCHANGED <<made, alive, marked, events, thread, history>>
    BY <1>4 DEF MoveDir
  <2>2. /\ at' \in [Paths -> Dirs \cup {NoDir}]
        /\ \A r \in Paths : at'[r] # NoDir => at'[r] \in alive'
    BY <2>1 DEF TypeOK, WatchInv
  <2>3. TypeOK'
    BY <2>1, <2>2 DEF TypeOK, thread, history
  <2>4. WatchInv'
    BY <2>1, <2>2 DEF WatchInv, thread, history
  <2> QED BY <2>3, <2>4
<1>5. ASSUME Start
      PROVE  TypeOK' /\ WatchInv'
  BY <1>5 DEF Start, TypeOK, WatchInv, disk, history
<1>6. ASSUME AddWatch
      PROVE  TypeOK' /\ WatchInv'
  <2> DEFINE p == Targets[next]
             d == at[p]
  <2>1. /\ next \in 1..Len(Targets) /\ next' = next + 1 /\ p \in Paths /\ pc = "adding"
        /\ UNCHANGED <<disk, events, pc, running, batch, alerts, changes, kept>>
    BY <1>6, TargetIs DEF AddWatch, TypeOK
  <2>2. {Targets[i] : i \in 1..(next' - 1)} = {Targets[i] : i \in 1..(next - 1)} \cup {p}
    BY <2>1
  <2>3. ASSUME d = NoDir, UNCHANGED <<marked, watches, covered>>
        PROVE  TypeOK' /\ WatchInv'
    <3>1. TypeOK'
      BY <2>1, <2>3 DEF TypeOK, disk
    <3>2. WatchInv'
      BY <2>1, <2>2, <2>3 DEF WatchInv, disk
    <3> QED BY <3>1, <3>2
  <2>4. ASSUME d # NoDir, marked' = marked \cup {d}, watches' = TakeOver(d, p),
               covered' = [covered EXCEPT ![d] = @ \cup {p}]
        PROVE  TypeOK' /\ WatchInv'
    <3>1. d \in Dirs /\ d \in alive
      BY <2>1, <2>4 DEF TypeOK, WatchInv, NoDir
    <3>2. watches' \in [Dirs -> Paths \cup {NoPath}] /\ covered' \in [Dirs -> SUBSET Paths]
      BY <2>1, <2>4, <3>1 DEF TypeOK, TakeOver
    <3>3. TypeOK'
      <4>1. made' = made /\ at' = at /\ alive' = alive
        BY <2>1 DEF disk
      <4>2. marked' \subseteq alive'
        BY <2>4, <3>1, <4>1 DEF TypeOK
      <4>3. next' \in 1..Len(Targets) + 1
        BY <1>0, <2>1
      <4> QED BY <2>1, <3>2, <4>1, <4>2, <4>3 DEF TypeOK
    <3>4. \A c \in Dirs : covered'[c] \subseteq {Targets[i] : i \in 1..(next' - 1)}
      BY <2>2, <2>4, <3>1 DEF TypeOK, WatchInv
    <3>5. LastOf(covered'[d]) = p
      <4>1. p \in covered'[d]
        BY <2>4, <3>1 DEF TypeOK
      <4>2. ASSUME NEW j \in DOMAIN Targets, Targets[j] \in covered'[d]
            PROVE  j <= next
        <5>1. PICK i \in 1..(next' - 1) : Targets[j] = Targets[i]
          BY <3>1, <3>4, <4>2
        <5>2. i \in DOMAIN Targets /\ i <= next
          BY <2>1, <5>1, TargetIs
        <5>3. i = j
          BY <5>1, <5>2 DEF PersistAssumption, IsInjective
        <5> QED BY <5>2, <5>3
      <4>3. next \in DOMAIN Targets
        BY <2>1, TargetIs
      <4> QED BY <4>1, <4>2, <4>3, LastIs
    <3>6. \A c \in Dirs : c # d => covered'[c] = covered[c] /\ watches'[c] = watches[c]
      BY <2>4 DEF TypeOK, TakeOver
    <3>7. covered'[d] # {} /\ watches'[d] = p
      BY <2>4, <3>1 DEF TypeOK, TakeOver
    <3>8. \A c \in Dirs : watches'[c] # NoPath =>
                          covered'[c] # {} /\ watches'[c] = LastOf(covered'[c])
      BY <3>5, <3>6, <3>7 DEF WatchInv
    <3>9. WatchInv'
      BY <2>1, <3>4, <3>8 DEF WatchInv, disk
    <3> QED BY <3>3, <3>9
  <2> QED BY <1>6, <2>3, <2>4 DEF AddWatch
<1>7. ASSUME StartThread
      PROVE  TypeOK' /\ WatchInv'
  BY <1>7 DEF StartThread, TypeOK, WatchInv, disk, history
<1>8. ASSUME Stop
      PROVE  TypeOK' /\ WatchInv'
  BY <1>8 DEF Stop, TypeOK, WatchInv, disk, history
<1>9. ASSUME Join
      PROVE  TypeOK' /\ WatchInv'
  <2>1. /\ pc' = "stopped" /\ marked' = {} /\ events' = <<>>
        /\ watches' = [d \in Dirs |-> NoPath] /\ pc = "ended"
        /\ UNCHANGED <<disk, next, running, batch, alerts, history>>
    BY <1>9 DEF Join
  <2>2. events' \in Seq(Events) /\ Len(events') = 0 /\ watches' \in [Dirs -> Paths \cup {NoPath}]
    BY <2>1
  <2>3. TypeOK'
    BY <1>0, <2>1, <2>2 DEF TypeOK, disk, history
  <2>4. WatchInv'
    BY <1>0, <2>1, <2>2 DEF WatchInv, disk, history
  <2> QED BY <2>3, <2>4
<1>10. ASSUME EndLoop
       PROVE  TypeOK' /\ WatchInv'
  BY <1>10 DEF EndLoop, TypeOK, WatchInv, disk, history
<1>11. ASSUME ReadEvents
       PROVE  TypeOK' /\ WatchInv'
  <2>1. /\ pc' = "reports" /\ UNCHANGED <<disk, marked, next, watches, running, alerts, history>>
        /\ pc = "poll"
    BY <1>11 DEF ReadEvents
  <2>2. QueueOK(events') /\ batch' \in Seq(Events) /\ Len(batch') <= BatchMax
    BY <1>11, QueueRead
  <2>3. TypeOK'
    BY <2>1, <2>2 DEF TypeOK, QueueOK, disk, history
  <2>4. WatchInv'
    BY <2>1, <2>2 DEF WatchInv, QueueOK, disk, history
  <2> QED BY <2>3, <2>4
<1>12. ASSUME Report
       PROVE  TypeOK' /\ WatchInv'
  <2>1. /\ pc = "reports" /\ UNCHANGED <<disk, marked, events, pc, next, watches, running, history>>
    BY <1>12 DEF Report
  <2>2. /\ batch' \in Seq(Events) /\ Len(batch') = Len(batch) - 1 /\ Len(batch) \in Nat
        /\ Len(batch) <= BatchMax
    BY <1>12, ReportIs DEF TypeOK
  <2>3. alerts' \in Seq(Alerts)
    <3>1. alerts \in Seq(Alerts)
      BY DEF TypeOK
    <3>2. alerts' = alerts \/ \E a \in Alerts : alerts' = Append(alerts, a)
      BY <1>12, ReportIs
    <3> QED BY <3>1, <3>2, AppendProperties
  <2>4. TypeOK'
    BY <1>0, <2>1, <2>2, <2>3 DEF TypeOK, disk, history
  <2>5. WatchInv'
    BY <2>1 DEF WatchInv, disk, history
  <2> QED BY <2>4, <2>5
<1>13. ASSUME NextPoll
       PROVE  TypeOK' /\ WatchInv'
  BY <1>13 DEF NextPoll, TypeOK, WatchInv, disk, history
<1> QED BY <1>1, <1>2, <1>3, <1>4, <1>5, <1>6, <1>7, <1>8, <1>9, <1>10, <1>11, <1>12, <1>13
        DEF Next, World, Loop

(***************************************************************************)
(* What the events and the alerts tell.                                    *)
(***************************************************************************)

LEMMA StepIs ==
    ASSUME Next
    PROVE  \/ Silent /\ UNCHANGED <<watches, covered>>
           \/ AddWatch /\ Silent
           \/ \E d \in Dirs, name \in Names : Change(d, name) /\ UNCHANGED <<batch, alerts, covered>>
           \/ \E d \in Dirs : RemoveDir(d) /\ UNCHANGED <<batch, alerts, changes, covered>>
           \/ Join /\ UNCHANGED <<batch, alerts, changes, covered>>
           \/ ReadEvents /\ UNCHANGED <<alerts, changes, covered>>
           \/ Report /\ UNCHANGED <<events, changes, covered>>
<1>1. AddWatch => Silent
  BY DEF AddWatch, Silent
<1>2. \A d \in Dirs, name \in Names : Change(d, name) => UNCHANGED <<batch, alerts, covered>>
  BY DEF Change, thread
<1>3. \A d \in Dirs : RemoveDir(d) => UNCHANGED <<batch, alerts, changes, covered>>
  BY DEF RemoveDir, thread, history
<1>4. Join => UNCHANGED <<batch, alerts, changes, covered>>
  BY DEF Join, history
<1>5. ReadEvents => UNCHANGED <<alerts, changes, covered>>
  BY DEF ReadEvents, history
<1>6. Report => UNCHANGED <<events, changes, covered>>
  BY DEF Report, history
<1> QED BY QuietOnes, <1>1, <1>2, <1>3, <1>4, <1>5, <1>6 DEF Next, World, Loop, Quiet

LEMMA ChangesAdd ==
    ASSUME TypeOK, NEW d \in Dirs, NEW name \in Names,
           changes' = Append(changes, [dir |-> d, name |-> name])
    PROVE  /\ Len(changes) + 1 \in DOMAIN changes'
           /\ changes'[Len(changes) + 1] = [dir |-> d, name |-> name]
           /\ \A n \in DOMAIN changes : /\ n \in DOMAIN changes' /\ changes'[n] = changes[n]
                                        /\ n < Len(changes) + 1
<1>1. /\ changes \in Seq([dir : Dirs, name : Names])
      /\ [dir |-> d, name |-> name] \in [dir : Dirs, name : Names]
  BY DEF TypeOK
<1> QED BY <1>1

LEMMA BatchTail ==
    ASSUME PersistAssumption, TypeOK, Report
    PROVE  /\ 1 \in DOMAIN batch
           /\ \A i \in DOMAIN batch' : i + 1 \in DOMAIN batch /\ batch'[i] = batch[i + 1] /\ 1 < i + 1
           /\ \A i, j \in DOMAIN batch' : i < j => i + 1 < j + 1
<1>1. /\ batch \in Seq(Events) /\ Len(batch) \in Nat /\ batch # <<>>
      /\ batch' \in Seq(Events) /\ Len(batch') = Len(batch) - 1
      /\ \A i \in 1..(Len(batch) - 1) : batch'[i] = batch[i + 1]
  BY ReportIs, SMTT(20) DEF TypeOK
<1>2. DOMAIN batch = 1..Len(batch) /\ DOMAIN batch' = 1..(Len(batch) - 1) /\ Len(batch) > 0
  BY <1>1
<1> QED BY <1>1, <1>2

LEMMA ReadSplits ==
    ASSUME PersistAssumption, TypeOK, WatchInv, ReadEvents
    PROVE  \E k \in Nat :
              /\ \A i \in DOMAIN batch' : i \in DOMAIN events /\ batch'[i] = events[i] /\ i <= k
              /\ \A i \in DOMAIN events' : i + k \in DOMAIN events /\ events'[i] = events[i + k]
              /\ \A i \in DOMAIN batch', j \in DOMAIN events' : i < j + k
              /\ \A i, j \in DOMAIN events' : i < j => i + k < j + k
<1>1. PICK k \in 1..Len(events) :
                 /\ DOMAIN batch' = 1..k /\ DOMAIN events' = 1..(Len(events) - k)
                 /\ \A i \in 1..k : batch'[i] = events[i]
                 /\ \A i \in 1..(Len(events) - k) : events'[i] = events[i + k]
  BY QueueRead
<1>2. Len(events) \in Nat /\ DOMAIN events = 1..Len(events)
  BY DEF TypeOK
<1>3. k \in Nat
  BY <1>2
<1>4. \A i \in DOMAIN batch' : i \in DOMAIN events /\ batch'[i] = events[i] /\ i <= k
  BY <1>1, <1>2
<1>5. \A i \in DOMAIN events' : i + k \in DOMAIN events /\ events'[i] = events[i + k]
  BY <1>1, <1>2
<1>6. \A i \in DOMAIN batch', j \in DOMAIN events' : i < j + k
  BY <1>1, <1>2
<1>7. \A i, j \in DOMAIN events' : i < j => i + k < j + k
  BY <1>1, <1>2
<1> QED BY <1>3, <1>4, <1>5, <1>6, <1>7

LEMMA AlertsAdd ==
    ASSUME PersistAssumption, TypeOK, Report
    PROVE  /\ \A i \in DOMAIN alerts' :
                 \/ i \in DOMAIN alerts /\ alerts'[i] = alerts[i]
                 \/ /\ i \notin DOMAIN alerts /\ i = Len(alerts) + 1
                    /\ Reported(batch[1]) /\ batch[1].dir \in Dirs
                    /\ alerts'[i].path = watches[batch[1].dir]
                    /\ alerts'[i].name = batch[1].name
                    /\ alerts'[i].of = batch[1].of
           /\ \A i, j \in DOMAIN alerts' : i < j => i \in DOMAIN alerts
<1> DEFINE e == batch[1]
           a == [path |-> watches[e.dir], name |-> e.name, of |-> e.of]
<1>1. alerts \in Seq(Alerts) /\ Len(alerts) \in Nat /\ DOMAIN alerts = 1..Len(alerts)
  BY DEF TypeOK
<1>2. a.path = watches[e.dir] /\ a.name = e.name /\ a.of = e.of
  OBVIOUS
<1>3. \/ alerts' = alerts
      \/ Reported(e) /\ e.dir \in Dirs /\ a \in Alerts /\ alerts' = Append(alerts, a)
  BY ReportIs
<1>4. ASSUME alerts' = alerts
      PROVE  /\ \A i \in DOMAIN alerts' : i \in DOMAIN alerts /\ alerts'[i] = alerts[i]
  BY <1>4
<1> HIDE DEF a
<1>5. ASSUME a \in Alerts, alerts' = Append(alerts, a)
      PROVE  /\ DOMAIN alerts' = 1..(Len(alerts) + 1)
             /\ alerts'[Len(alerts) + 1] = a
             /\ \A i \in DOMAIN alerts : alerts'[i] = alerts[i]
             /\ \A i, j \in DOMAIN alerts' : i < j => i \in DOMAIN alerts
  BY <1>1, <1>5
<1>6. \A i \in 1..(Len(alerts) + 1) : i \in DOMAIN alerts \/ i = Len(alerts) + 1
  BY <1>1
<1>7. Len(alerts) + 1 \notin DOMAIN alerts
  BY <1>1
<1>8. CASE alerts' = alerts
  BY <1>4, <1>8
<1>9. CASE Reported(e) /\ e.dir \in Dirs /\ a \in Alerts /\ alerts' = Append(alerts, a)
  BY <1>2, <1>5, <1>6, <1>7, <1>9
<1> QED BY <1>3, <1>8, <1>9

LEMMA TellsKept ==
    ASSUME PersistAssumption, TypeOK, WatchInv, TellsInv, Next
    PROVE  TellsInv'
<1>1. ASSUME Silent
      PROVE  TellsInv'
  BY <1>1 DEF Silent, TellsInv, Tells
<1>2. ASSUME NEW d \in Dirs, NEW name \in Names, Change(d, name), UNCHANGED <<batch, alerts>>
      PROVE  TellsInv'
  <2> DEFINE n == Len(changes) + 1
             e == [dir |-> d, name |-> name, of |-> {n}]
  <2>1. /\ changes' = Append(changes, [dir |-> d, name |-> name])
        /\ TellsMore(events, e, events')
    BY <1>2, ChangeQueues
  <2>2. /\ n \in DOMAIN changes' /\ changes'[n] = [dir |-> d, name |-> name]
        /\ \A m \in DOMAIN changes : m \in DOMAIN changes' /\ changes'[m] = changes[m]
    BY <2>1, ChangesAdd
  <2>3. e.of = {n} /\ e.dir = d /\ e.name = name
    OBVIOUS
  <2> HIDE DEF e, n
  <2>4. \A i \in DOMAIN events' : Tells(events[i])'
    BY <2>1, <2>2, <2>3 DEF TellsInv, Tells, TellsMore
  <2>5. \A i \in DOMAIN batch' : Tells(batch[i])'
    BY <1>2, <2>2 DEF TellsInv, Tells
  <2>6. \A i \in DOMAIN alerts' : \A m \in alerts'[i].of : m \in DOMAIN changes'
    BY <1>2, <2>2 DEF TellsInv
  <2> QED BY <2>4, <2>5, <2>6 DEF TellsInv
<1>3. ASSUME NEW d \in Dirs, RemoveDir(d), UNCHANGED <<batch, alerts, changes>>
      PROVE  TellsInv'
  <2> DEFINE e == [dir |-> d, name |-> "none", of |-> {}]
  <2>1. TellsMore(events, e, events')
    BY <1>3, RemovalQueues
  <2>2. e.of = {}
    OBVIOUS
  <2> HIDE DEF e
  <2>3. \A i \in DOMAIN events' : Tells(events[i])'
    BY <1>3, <2>1, <2>2 DEF TellsInv, Tells, TellsMore
  <2> QED BY <1>3, <2>3 DEF TellsInv, Tells
<1>4. ASSUME Join, UNCHANGED <<batch, alerts, changes>>
      PROVE  TellsInv'
  <2>1. DOMAIN events' = {}
    BY <1>4 DEF Join
  <2> QED BY <1>4, <2>1 DEF TellsInv, Tells
<1>5. ASSUME ReadEvents, UNCHANGED <<alerts, changes>>
      PROVE  TellsInv'
  BY <1>5, ReadSplits DEF TellsInv, Tells
<1>6. ASSUME Report, UNCHANGED <<events, changes>>
      PROVE  TellsInv'
  <2>1. \A i \in DOMAIN batch' : Tells(batch[i])'
    BY <1>6, BatchTail DEF TellsInv, Tells
  <2>2. \A i \in DOMAIN alerts' : \A m \in alerts'[i].of : m \in DOMAIN changes'
    BY <1>6, AlertsAdd, BatchTail DEF TellsInv, Tells
  <2> QED BY <1>6, <2>1, <2>2 DEF TellsInv, Tells
<1> QED BY StepIs, <1>1, <1>2, <1>3, <1>4, <1>5, <1>6

LEMMA OrderKept ==
    ASSUME PersistAssumption, TypeOK, WatchInv, TellsInv, OrderInv, Next
    PROVE  OrderInv'
<1>1. ASSUME Silent
      PROVE  OrderInv'
  BY <1>1 DEF Silent, OrderInv, InOrder, Precedes
<1>2. ASSUME NEW d \in Dirs, NEW name \in Names, Change(d, name), UNCHANGED <<batch, alerts>>
      PROVE  OrderInv'
  <2> DEFINE n == Len(changes) + 1
             e == [dir |-> d, name |-> name, of |-> {n}]
  <2>1. /\ changes' = Append(changes, [dir |-> d, name |-> name])
        /\ TellsMore(events, e, events')
        /\ events' \in Seq(Events)
    BY <1>2, ChangeQueues DEF QueueOK
  <2>2. \A m \in DOMAIN changes : m < n
    BY <2>1, ChangesAdd
  <2>3. e.of = {n}
    OBVIOUS
  <2> HIDE DEF e, n
  <2>4. \A i, j \in DOMAIN events' : i < j => i # Len(events')
    BY <2>1
  <2>5. /\ \A i \in DOMAIN events : \A m \in events[i].of : m < n
        /\ \A i \in DOMAIN batch : \A m \in batch[i].of : m < n
        /\ \A i \in DOMAIN alerts : \A m \in alerts[i].of : m < n
    BY <2>2 DEF TellsInv, Tells
  <2>6. InOrder(events')
    <3> SUFFICES ASSUME NEW i \in DOMAIN events', NEW j \in DOMAIN events', i < j,
                        NEW k \in events'[i].of, NEW m \in events'[j].of
                 PROVE  k < m
      BY DEF InOrder, Earlier
    <3>1. i \in DOMAIN events /\ k \in events[i].of
      BY <2>1, <2>4 DEF TellsMore
    <3>2. CASE m \in e.of
      BY <2>3, <2>5, <3>1, <3>2
    <3>3. CASE j \in DOMAIN events /\ m \in events[j].of
      BY <3>1, <3>3 DEF OrderInv, InOrder, Earlier
    <3> QED BY <2>1, <3>2, <3>3 DEF TellsMore
  <2>7. ASSUME NEW q, Precedes(q, events), \A i \in DOMAIN q : \A m \in q[i].of : m < n
        PROVE  Precedes(q, events')
    BY <2>1, <2>3, <2>7 DEF TellsMore, Precedes, Earlier
  <2>8. Precedes(alerts', events') /\ Precedes(batch', events')
    BY <1>2, <2>5, <2>7 DEF OrderInv
  <2> QED BY <1>2, <2>6, <2>8 DEF OrderInv
<1>3. ASSUME NEW d \in Dirs, RemoveDir(d), UNCHANGED <<batch, alerts, changes>>
      PROVE  OrderInv'
  <2> DEFINE e == [dir |-> d, name |-> "none", of |-> {}]
  <2>1. TellsMore(events, e, events')
    BY <1>3, RemovalQueues
  <2>2. e.of = {}
    OBVIOUS
  <2> HIDE DEF e
  <2>3. InOrder(events')
    BY <2>1, <2>2 DEF TellsMore, OrderInv, InOrder, Earlier
  <2>4. Precedes(alerts', events') /\ Precedes(batch', events')
    BY <1>3, <2>1, <2>2 DEF TellsMore, OrderInv, Precedes, Earlier
  <2> QED BY <1>3, <2>3, <2>4 DEF OrderInv
<1>4. ASSUME Join, UNCHANGED <<batch, alerts, changes>>
      PROVE  OrderInv'
  <2>1. DOMAIN events' = {}
    BY <1>4 DEF Join
  <2> QED BY <1>4, <2>1 DEF OrderInv, InOrder, Precedes
<1>5. ASSUME ReadEvents, UNCHANGED <<alerts, changes>>
      PROVE  OrderInv'
  <2>1. PICK k \in Nat :
              /\ \A i \in DOMAIN batch' : i \in DOMAIN events /\ batch'[i] = events[i] /\ i <= k
              /\ \A i \in DOMAIN events' : i + k \in DOMAIN events /\ events'[i] = events[i + k]
              /\ \A i \in DOMAIN batch', j \in DOMAIN events' : i < j + k
              /\ \A i, j \in DOMAIN events' : i < j => i + k < j + k
    BY <1>5, ReadSplits
  <2>2. InOrder(events') /\ InOrder(batch')
    BY <2>1 DEF OrderInv, InOrder
  <2>3. Precedes(alerts', batch') /\ Precedes(alerts', events') /\ Precedes(batch', events')
    BY <1>5, <2>1 DEF OrderInv, InOrder, Precedes
  <2> QED BY <1>5, <2>2, <2>3 DEF OrderInv
<1>6. ASSUME Report, UNCHANGED <<events, changes>>
      PROVE  OrderInv'
  <2>1. InOrder(batch') /\ Precedes(batch', events')
    BY <1>6, BatchTail DEF OrderInv, InOrder, Precedes
  <2>2. InOrder(alerts')
    BY <1>6, AlertsAdd, BatchTail DEF OrderInv, InOrder, Precedes, Earlier
  <2>3. Precedes(alerts', batch') /\ Precedes(alerts', events')
    BY <1>6, AlertsAdd, BatchTail DEF OrderInv, InOrder, Precedes, Earlier
  <2> QED BY <1>6, <2>1, <2>2, <2>3 DEF OrderInv
<1> QED BY StepIs, <1>1, <1>2, <1>3, <1>4, <1>5, <1>6

(***************************************************************************)
(* The alerts.                                                             *)
(***************************************************************************)

True(a) == \A n \in a.of : /\ a.path = LastOf(covered[changes[n].dir])
                           /\ a.name = changes[n].name
                           /\ Wanted(a.path, changes[n].name)

LEMMA TrueKept ==
    ASSUME PersistAssumption, TypeOK, WatchInv, TellsInv, OrderInv, OrderInv', AlertsAreTrue, Next
    PROVE  AlertsAreTrue'
<1>1. \A i \in DOMAIN alerts : True(alerts[i])
  BY DEF AlertsAreTrue, True
<1>2. SUFFICES \A i \in DOMAIN alerts' : True(alerts[i])'
  BY <1>2 DEF AlertsAreTrue, True, OrderInv, InOrder, Earlier
<1>3. ASSUME UNCHANGED <<alerts, covered>>,
             \A n \in DOMAIN changes : changes'[n] = changes[n]
      PROVE  \A i \in DOMAIN alerts' : True(alerts[i])'
  BY <1>1, <1>3 DEF True, TellsInv
<1>4. ASSUME AddWatch, Silent
      PROVE  \A i \in DOMAIN alerts' : True(alerts[i])'
  BY <1>4 DEF AddWatch, Silent, WatchInv
<1>5. ASSUME NEW d \in Dirs, NEW name \in Names, Change(d, name)
      PROVE  \A n \in DOMAIN changes : changes'[n] = changes[n]
  BY <1>5, ChangeQueues, ChangesAdd
<1>6. ASSUME Report, UNCHANGED <<events, changes, covered>>
      PROVE  \A i \in DOMAIN alerts' : True(alerts[i])'
  <2> DEFINE e == batch[1]
  <2>1. Tells(e)
    BY <1>6, BatchTail DEF TellsInv
  <2>2. ASSUME Reported(e), e.dir \in Dirs
        PROVE  /\ watches[e.dir] = LastOf(covered[e.dir])
               /\ Wanted(watches[e.dir], e.name)
    BY <2>2 DEF Reported, WatchInv
  <2>3. \A n \in e.of : changes[n].dir = e.dir /\ changes[n].name = e.name
    BY <2>1 DEF Tells
  <2> HIDE DEF e
  <2>4. \A i \in DOMAIN alerts' :
            \/ i \in DOMAIN alerts /\ alerts'[i] = alerts[i]
            \/ /\ Reported(e) /\ e.dir \in Dirs
               /\ alerts'[i].path = watches[e.dir]
               /\ alerts'[i].name = e.name
               /\ alerts'[i].of = e.of
    BY <1>6, AlertsAdd DEF e
  <2> QED BY <1>1, <1>6, <2>2, <2>3, <2>4 DEF True
<1> QED BY StepIs, <1>3, <1>4, <1>5, <1>6 DEF Silent

(***************************************************************************)
(* The theorems.                                                           *)
(***************************************************************************)

LEMMA InvHolds == PersistAssumption => (Spec => []PersistInv)
<1> SUFFICES ASSUME PersistAssumption
             PROVE  Spec => []PersistInv
  OBVIOUS
<1>1. Init => PersistInv
  <2> SUFFICES ASSUME Init
               PROVE  PersistInv
    OBVIOUS
  <2>1. DOMAIN alerts = {} /\ DOMAIN batch = {} /\ DOMAIN events = {}
    BY DEF Init
  <2> QED BY <2>1, TypeInit DEF PersistInv, TellsInv, OrderInv, InOrder, Precedes, AlertsAreTrue
<1>2. PersistInv /\ [Next]_vars => PersistInv'
  <2> SUFFICES ASSUME PersistInv, [Next]_vars
               PROVE  PersistInv'
    OBVIOUS
  <2>1. CASE Next
    BY <2>1, TypeKept, TellsKept, OrderKept, TrueKept DEF PersistInv
  <2>2. CASE UNCHANGED vars
    BY <2>2 DEF PersistInv, TypeOK, WatchInv, TellsInv, Tells, OrderInv, InOrder, Precedes,
                AlertsAreTrue, vars, disk, thread, history
  <2> QED BY <2>1, <2>2
<1> QED BY <1>1, <1>2, PTL DEF Spec

(* Directories, queue, watches and alerts stay in their domains, and the   *)
(* queue never holds more than the overflow notice beyond its limit.       *)
THEOREM TypeCorrect == Spec => []TypeOK
<1>1. PersistInv => TypeOK
  BY DEF PersistInv
<1> QED BY <1>1, PersistAssumption, InvHolds, PTL

(* For any targets, layout of the paths, queue size and buffer size, an    *)
(* alert tells of changes that happened, once and in order, under the path *)
(* the directory was watched for, and only what its filter lets through.   *)
THEOREM AlertsTellTruth == Spec => []AlertsAreTrue
<1>1. PersistInv => AlertsAreTrue
  BY DEF PersistInv
<1> QED BY <1>1, PersistAssumption, InvHolds, PTL
=============================================================================
