-------------------------- MODULE AlertPathProofs ---------------------------
(***************************************************************************)
(* Theorems about the way of an alert: AlertBus in the daemon, for any     *)
(* number of emitting threads and keys, and Agent on the desktop, for any  *)
(* limits and any number of alerts. The two modules share no variable:     *)
(* each theorem is about the specification it names, BusSpec of AlertBus   *)
(* or Spec of Agent.                                                       *)
(***************************************************************************)
EXTENDS AlertBus, Agent, FiniteSetTheorems, SequenceTheorems, WellFoundedInduction, TLAPS

(***************************************************************************)
(* AlertBus.                                                               *)
(***************************************************************************)

(* What emit stamps is an alert, and never the absence of one.             *)
LEMMA AlertIsAlert ==
    ASSUME NEW k \in Keys, NEW s \in Severities, NEW t \in 0..MaxClock, NEW e \in Emitters
    PROVE  /\ [key |-> k, severity |-> s, ts |-> t, by |-> e] \in Alerts
           /\ [key |-> k, severity |-> s, ts |-> t, by |-> e] # NoAlert
<1> DEFINE a == [key |-> k, severity |-> s, ts |-> t, by |-> e]
<1>1. a \in Alerts
  BY DEF Alerts
<1>2. "ts" \in DOMAIN a /\ "ts" \notin DOMAIN NoAlert
  BY DEF NoAlert
<1> QED BY <1>1, <1>2

(* A thread inside emit holds an alert with a time of the clock.           *)
LEMMA CurIsAlert ==
    ASSUME BusTypeOK, BusAssumption, NEW e \in Emitters, step[e] # "idle"
    PROVE  /\ cur[e] \in Alerts
           /\ cur[e].ts \in 0..MaxClock /\ cur[e].ts \in Int
           /\ cur[e].key \in Keys /\ cur[e].severity \in Nat
<1>1. cur[e] \in Alerts
  BY DEF BusTypeOK
<1>2. cur[e].ts \in 0..MaxClock /\ cur[e].key \in Keys /\ cur[e].severity \in Severities
  BY <1>1 DEF Alerts
<1>3. cur[e].ts \in Int
  BY <1>2, BusAssumption
<1>4. cur[e].severity \in Nat
  BY <1>2, BusAssumption
<1> QED BY <1>1, <1>2, <1>3, <1>4

(* Every call of emit leaves the bus well typed.                           *)
THEOREM BusTypeCorrect == BusSpec => []BusTypeOK
<1>1. BusInit => BusTypeOK
  <2> SUFFICES ASSUME BusInit PROVE BusTypeOK
    OBVIOUS
  <2>1. clock \in 0..MaxClock
    BY BusAssumption DEF BusInit
  <2>2. lastSeen \in [Keys -> {Never} \cup 0..MaxClock]
    BY DEF BusInit
  <2>3. recorded \in Seq(Alerts) /\ journal \in Seq(Alerts) /\ suppressed \in Nat
    BY DEF BusInit
  <2>4. sent \in Seq([alert : Alerts, popup : BOOLEAN])
    BY DEF BusInit
  <2> QED BY <2>1, <2>2, <2>3, <2>4 DEF BusInit, BusTypeOK
<1>2. BusTypeOK /\ [BusNext]_emitVars => BusTypeOK'
  <2> SUFFICES ASSUME BusTypeOK, [BusNext]_emitVars PROVE BusTypeOK'
    OBVIOUS
  <2>1. CASE Tick
    <3>1. clock' \in 0..MaxClock
      BY <2>1, BusAssumption DEF Tick, BusTypeOK
    <3> QED BY <2>1, <3>1 DEF Tick, BusTypeOK, busVars
  <2>2. CASE SetSink
    BY <2>2 DEF SetSink, BusTypeOK, busVars
  <2>3. ASSUME NEW e \in Emitters, NEW k \in Keys, NEW s \in Severities, Stamp(e, k, s)
        PROVE  BusTypeOK'
    <3> DEFINE a == [key |-> k, severity |-> s, ts |-> clock, by |-> e]
    <3>1. a \in Alerts /\ a # NoAlert
      BY AlertIsAlert DEF BusTypeOK
    <3> HIDE DEF a
    <3>2. step' = [step EXCEPT ![e] = "stamped"] /\ cur' = [cur EXCEPT ![e] = a]
          /\ UNCHANGED <<clock, sinkSet, busVars, sent>>
      BY <2>3 DEF Stamp, a
    <3> QED BY <3>1, <3>2 DEF BusTypeOK, busVars
  <2>4. ASSUME NEW e \in Emitters, Emitting(e) PROVE BusTypeOK'
    <3>1. CASE Ignore(e)
      BY <3>1 DEF Ignore, Leave, BusTypeOK, busVars
    <3>2. CASE Suppress(e)
      BY <3>2 DEF Suppress, Leave, BusTypeOK
    <3>3. CASE Record(e)
      <4>1. cur[e] \in Alerts /\ cur[e].ts \in 0..MaxClock
        BY <3>3, CurIsAlert, BusAssumption DEF Record
      <4>2. SeenAfter(cur[e]) \in [Keys -> {Never} \cup 0..MaxClock]
        BY <4>1 DEF BusTypeOK, SeenAfter
      <4>3. recorded' \in Seq(Alerts) /\ journal' \in Seq(Alerts)
        <5> DEFINE a == cur[e]
        <5>1. recorded' = Append(recorded, a) /\ journal' \in {journal, Append(journal, a)}
          BY <3>3 DEF Record
        <5>2. recorded \in Seq(Alerts) /\ journal \in Seq(Alerts)
          BY DEF BusTypeOK
        <5>3. a \in Alerts
          BY <4>1
        <5> HIDE DEF a
        <5>4. Append(recorded, a) \in Seq(Alerts) /\ Append(journal, a) \in Seq(Alerts)
          BY <5>2, <5>3
        <5> QED BY <5>1, <5>2, <5>4
      <4>4. /\ step' \in [Emitters -> {"idle", "stamped", "sink"}]
            /\ cur' \in [Emitters -> Alerts \cup {NoAlert}]
            /\ \A f \in Emitters : step'[f] = "idle" <=> cur'[f] = NoAlert
        BY <3>3 DEF Record, Leave, BusTypeOK
      <4> QED BY <3>3, <4>2, <4>3, <4>4 DEF Record, BusTypeOK
    <3>4. CASE Deliver(e)
      <4> DEFINE m == [alert |-> cur[e], popup |-> cur[e].severity >= PopupMin]
      <4>1. cur[e] \in Alerts /\ cur[e].severity \in Nat
        BY <3>4, CurIsAlert, BusAssumption DEF Deliver
      <4>2. m \in [alert : Alerts, popup : BOOLEAN]
        BY <4>1
      <4>3. sent' \in Seq([alert : Alerts, popup : BOOLEAN])
        BY <3>4, <4>2 DEF Deliver, BusTypeOK
      <4> QED BY <3>4, <4>3 DEF Deliver, Leave, BusTypeOK, busVars
    <3> QED BY <2>4, <3>1, <3>2, <3>3, <3>4 DEF Emitting
  <2>5. CASE UNCHANGED emitVars
    BY <2>5 DEF emitVars, BusTypeOK, busVars
  <2> QED BY <2>1, <2>2, <2>3, <2>4, <2>5 DEF BusNext
<1> QED BY <1>1, <1>2, PTL DEF BusSpec

(* While no pruning has happened, last_seen_ never lags behind what was    *)
(* recorded, so a late thread with an old timestamp is measured against    *)
(* the newest alert of its key.                                            *)
SeenIsLatest == \A i \in DOMAIN recorded : recorded[i].ts <= lastSeen[recorded[i].key]

(* With no more keys than the limit, last_seen_ is never pruned.           *)
LEMMA NoPrune ==
    ASSUME IsFiniteSet(Keys), Cardinality(Keys) <= PruneLimit, NEW a
    PROVE  SeenAfter(a) = [lastSeen EXCEPT ![a.key] = a.ts]
<1> DEFINE held == {k \in Keys : [lastSeen EXCEPT ![a.key] = a.ts][k] # Never}
<1>1. Cardinality(held) <= Cardinality(Keys) /\ Cardinality(held) \in Nat
      /\ Cardinality(Keys) \in Nat
  BY FS_Subset, FS_CardinalityType
<1>2. ~(Cardinality(held) > PruneLimit)
  BY <1>1, BusAssumption
<1> QED BY <1>2 DEF SeenAfter

(* What the duplicate test establishes about everything already recorded.  *)
LEMMA FreshIsApart ==
    ASSUME BusAssumption, BusTypeOK, SeenIsLatest, NEW e \in Emitters, Record(e),
           NEW i \in DOMAIN recorded, recorded[i].key = cur[e].key
    PROVE  cur[e].ts - recorded[i].ts >= Dedup
<1>1. cur[e].ts \in 0..MaxClock /\ cur[e].key \in Keys
  BY CurIsAlert DEF Record
<1>2. recorded[i] \in Alerts
  BY DEF BusTypeOK
<1>3. recorded[i].ts \in 0..MaxClock
  BY <1>2 DEF Alerts
<1>4. lastSeen[cur[e].key] \in {Never} \cup 0..MaxClock
  BY <1>1 DEF BusTypeOK
<1>5. recorded[i].ts <= lastSeen[cur[e].key]
  BY DEF SeenIsLatest
<1>6. lastSeen[cur[e].key] # Never
  BY <1>3, <1>4, <1>5 DEF Never
<1>7. cur[e].ts - lastSeen[cur[e].key] >= Dedup
  BY <1>1, <1>4, <1>6, BusAssumption DEF Record, Duplicate, Never
<1> QED BY <1>1, <1>3, <1>4, <1>5, <1>7, BusAssumption DEF Never

(* The configured promise about repeats (backmaster.conf:111) holds        *)
(* whatever order the emitting threads get the mutex in, as long as the    *)
(* keys fit the table, that is, until last_seen_ is pruned.                *)
THEOREM RepeatsAreApart ==
    ASSUME IsFiniteSet(Keys), Cardinality(Keys) <= PruneLimit
    PROVE  BusSpec => []DedupWindow
<1>1. BusInit => SeenIsLatest /\ DedupWindow
  BY DEF BusInit, SeenIsLatest, DedupWindow
<1>2. BusTypeOK /\ SeenIsLatest /\ DedupWindow /\ [BusNext]_emitVars => (SeenIsLatest /\ DedupWindow)'
  <2> SUFFICES ASSUME BusTypeOK, SeenIsLatest, DedupWindow, [BusNext]_emitVars
               PROVE  SeenIsLatest' /\ DedupWindow'
    OBVIOUS
  <2>1. ASSUME NEW e \in Emitters, Record(e) PROVE SeenIsLatest' /\ DedupWindow'
    <3> DEFINE a == cur[e]
               n == Len(recorded)
    <3>1. a.ts \in Int /\ a.key \in Keys
      BY <2>1, CurIsAlert, BusAssumption DEF Record
    <3>2. recorded' = Append(recorded, a)
      BY <2>1 DEF Record
    <3>3. /\ n \in Nat /\ DOMAIN recorded = 1..n /\ DOMAIN recorded' = 1..(n + 1)
          /\ recorded'[n + 1] = a
          /\ \A i \in 1..n : recorded'[i] = recorded[i]
      BY <3>2 DEF BusTypeOK
    <3>4. lastSeen' = [lastSeen EXCEPT ![a.key] = a.ts]
      BY <2>1, NoPrune DEF Record
    <3>5. \A i \in 1..n : recorded[i].key = a.key => a.ts - recorded[i].ts >= Dedup
      BY <2>1, <3>3, FreshIsApart, BusAssumption
    <3>6. DedupWindow'
      <4> SUFFICES ASSUME NEW i \in 1..(n + 1), NEW j \in 1..(n + 1), i < j,
                          recorded'[i].key = recorded'[j].key
                   PROVE  recorded'[j].ts - recorded'[i].ts >= Dedup
        BY <3>3 DEF DedupWindow
      <4>1. CASE j = n + 1
        BY <3>3, <3>5, <4>1
      <4>2. CASE j \in 1..n
        <5>1. i \in 1..n BY <3>3, <4>2
        <5> QED BY <3>3, <4>2, <5>1 DEF DedupWindow
      <4> QED BY <3>3, <4>1, <4>2
    <3>7. SeenIsLatest'
      <4> SUFFICES ASSUME NEW i \in 1..(n + 1)
                   PROVE  recorded'[i].ts <= lastSeen'[recorded'[i].key]
        BY <3>3 DEF SeenIsLatest
      <4>1. CASE i = n + 1
        BY <3>1, <3>3, <3>4, <4>1 DEF BusTypeOK
      <4>2. CASE i \in 1..n
        <5>1. recorded[i] \in Alerts
          BY <3>3, <4>2 DEF BusTypeOK
        <5>2. recorded[i].ts \in Int /\ recorded[i].key \in Keys
          BY <5>1, BusAssumption DEF Alerts
        <5>3. CASE recorded[i].key = a.key
          BY <3>1, <3>3, <3>4, <3>5, <4>2, <5>2, <5>3, BusAssumption DEF BusTypeOK
        <5>4. CASE recorded[i].key # a.key
          BY <3>3, <3>4, <4>2, <5>2, <5>4 DEF BusTypeOK, SeenIsLatest
        <5> QED BY <5>3, <5>4
      <4> QED BY <3>3, <4>1, <4>2
    <3> QED BY <3>6, <3>7
  <2>2. CASE UNCHANGED <<lastSeen, recorded>>
    BY <2>2 DEF SeenIsLatest, DedupWindow
  <2>3. (\E e \in Emitters : Record(e)) \/ UNCHANGED <<lastSeen, recorded>>
    BY DEF BusNext, emitVars, busVars, Tick, SetSink, Stamp, Emitting, Ignore, Suppress, Deliver
  <2> QED BY <2>1, <2>2, <2>3
<1> QED BY <1>1, <1>2, BusTypeCorrect, PTL DEF BusSpec

(***************************************************************************)
(* The order of what one detector sends.                                   *)
(***************************************************************************)

LEMMA EntriesAreAlerts ==
    ASSUME BusTypeOK
    PROVE  /\ \A m \in DOMAIN recorded : recorded[m] \in Alerts /\ recorded[m].by \in Emitters
           /\ \A i \in DOMAIN sent : sent[i].alert \in Alerts
           /\ Len(recorded) \in Nat /\ DOMAIN recorded = 1..Len(recorded)
           /\ Len(sent) \in Nat /\ DOMAIN sent = 1..Len(sent)
<1>1. \A m \in DOMAIN recorded : recorded[m] \in Alerts
  BY DEF BusTypeOK
<1>2. \A i \in DOMAIN sent : sent[i] \in [alert : Alerts, popup : BOOLEAN]
  <2> DEFINE Entries == [alert : Alerts, popup : BOOLEAN]
  <2>1. sent \in Seq(Entries)
    BY DEF BusTypeOK
  <2> HIDE DEF Entries
  <2>2. \A i \in DOMAIN sent : sent[i] \in Entries
    BY <2>1
  <2> QED BY <2>2 DEF Entries
<1>3. \A a \in Alerts : a.by \in Emitters
  BY DEF Alerts
<1> QED BY <1>1, <1>2, <1>3 DEF BusTypeOK

(* A step that neither records nor sends, and moves nobody to or from the  *)
(* sink, leaves the order as it was.                                       *)
LEMMA OrderUntouched ==
    ASSUME BusTypeOK, DetectorOrder, UNCHANGED <<recorded, sent>>,
           \A e \in Emitters : step'[e] = "sink" <=> step[e] = "sink"
    PROVE  Waiting' = Waiting /\ DetectorOrder'
<1>1. Waiting' = Waiting
  BY EntriesAreAlerts DEF Waiting
<1> QED BY <1>1 DEF DetectorOrder

(* A recording puts one more alert, its emitter's last, on its way.        *)
LEMMA OrderRecord ==
    ASSUME BusTypeOK, OrderInv, NEW e \in Emitters, Record(e), BusAssumption
    PROVE  OrderInv'
<1> DEFINE n == Len(recorded)
<1>1. /\ step[e] = "stamped" /\ cur[e].by = e /\ recorded' = Append(recorded, cur[e])
      /\ UNCHANGED <<sinkSet, sent>>
  BY DEF Record, OrderInv
<1>2. /\ n \in Nat /\ DOMAIN recorded = 1..n /\ DOMAIN recorded' = 1..(n + 1)
      /\ recorded'[n + 1] = cur[e] /\ \A m \in 1..n : recorded'[m] = recorded[m]
      /\ \A m \in 1..n : recorded[m].by \in Emitters
  <2>1. cur[e] \in Alerts
    BY <1>1, CurIsAlert
  <2> QED BY <1>1, <2>1, EntriesAreAlerts DEF BusTypeOK
<1> HIDE DEF n
<1>3. CASE ~sinkSet
  <2>1. sent = <<>> /\ \A f \in Emitters : step[f] # "sink"
    BY <1>3 DEF OrderInv
  <2>2. /\ step' = [step EXCEPT ![e] = "idle"] /\ cur' = [cur EXCEPT ![e] = NoAlert]
    BY <1>3 DEF Record, Leave
  <2>3. DetectorOrder'
    <3>1. DOMAIN sent' = {}
      BY <1>1, <2>1
    <3>2. [i \in {} |-> i] \in [{} -> DOMAIN recorded']
      OBVIOUS
    <3> QED BY ONLY <3>1, <3>2 DEF DetectorOrder
  <2> QED BY <1>1, <1>3, <2>1, <2>2, <2>3 DEF OrderInv, BusTypeOK
<1>4. CASE sinkSet
  <2>1. step' = [step EXCEPT ![e] = "sink"] /\ cur' = cur
    BY <1>4 DEF Record
  <2>2. Waiting' = Waiting \cup {n + 1}
    <3>1. ASSUME NEW m \in 1..n PROVE m \in Waiting' <=> m \in Waiting
      <4>1. CASE recorded[m].by = e
        <5>1. n + 1 \in DOMAIN recorded' /\ n + 1 > m /\ recorded'[n + 1].by = recorded'[m].by
          BY <1>1, <1>2, <4>1
        <5> QED BY <1>1, <4>1, <5>1 DEF Waiting
      <4>2. CASE recorded[m].by # e
        <5>1. step'[recorded'[m].by] = step[recorded[m].by]
          BY <1>2, <2>1, <4>2 DEF BusTypeOK
        <5> QED BY <1>1, <1>2, <4>2, <5>1 DEF Waiting
      <4> QED BY <4>1, <4>2
    <3>2. n + 1 \in Waiting'
      BY <1>1, <1>2, <2>1 DEF Waiting, BusTypeOK
    <3> QED BY <1>2, <3>1, <3>2 DEF Waiting
  <2>3. DetectorOrder'
    <3>1. PICK at \in [DOMAIN sent -> DOMAIN recorded] :
             /\ \A i \in DOMAIN sent : recorded[at[i]] = sent[i].alert /\ at[i] \notin Waiting
             /\ \A i, j \in DOMAIN sent :
                   i < j /\ sent[i].alert.by = sent[j].alert.by => at[i] < at[j]
             /\ \A i \in DOMAIN sent, m \in DOMAIN recorded :
                   m > at[i] /\ recorded[m].by = sent[i].alert.by
                       => m \in Waiting \/ \E j \in DOMAIN sent : at[j] = m
      BY DEF OrderInv, DetectorOrder
    <3>2. at \in [DOMAIN sent' -> DOMAIN recorded']
      BY <1>1, <1>2, <3>1
    <3>3. \A i \in DOMAIN sent' : recorded'[at[i]] = sent'[i].alert /\ at[i] \notin Waiting'
      BY <1>1, <1>2, <2>2, <3>1
    <3>4. \A i \in DOMAIN sent', m \in DOMAIN recorded' :
             m > at[i] /\ recorded'[m].by = sent'[i].alert.by
                 => m \in Waiting' \/ \E j \in DOMAIN sent' : at[j] = m
      BY <1>1, <1>2, <2>2, <3>1
    <3> QED BY <1>1, <3>1, <3>2, <3>3, <3>4 DEF DetectorOrder
  <2>4. \A f \in Emitters : step'[f] = "sink" => \E m \in Waiting' : recorded'[m] = cur'[f]
    <3> SUFFICES ASSUME NEW f \in Emitters, step'[f] = "sink"
                 PROVE  \E m \in Waiting' : recorded'[m] = cur'[f]
      OBVIOUS
    <3>1. CASE f = e
      BY <1>2, <2>1, <2>2, <3>1
    <3>2. CASE f # e
      <4>1. PICK m \in Waiting : recorded[m] = cur[f]
        BY <2>1, <3>2 DEF OrderInv, BusTypeOK
      <4>2. m \in 1..n
        BY <1>2 DEF Waiting
      <4> QED BY <1>2, <2>1, <2>2, <4>1, <4>2
    <3> QED BY <3>1, <3>2
  <2> QED BY <1>1, <1>4, <2>1, <2>3, <2>4 DEF OrderInv, BusTypeOK
<1> QED BY <1>3, <1>4

(* A delivery sends the last recorded alert of its emitter.                *)
LEMMA OrderDeliver ==
    ASSUME BusTypeOK, OrderInv, NEW e \in Emitters, Deliver(e), BusAssumption
    PROVE  OrderInv'
<1> DEFINE n == Len(sent)
           m0 == [alert |-> cur[e], popup |-> cur[e].severity >= PopupMin]
<1>1. /\ step[e] = "sink" /\ cur[e].by = e /\ sent' = Append(sent, m0)
      /\ step' = [step EXCEPT ![e] = "idle"] /\ cur' = [cur EXCEPT ![e] = NoAlert]
      /\ UNCHANGED <<sinkSet, recorded>>
  BY DEF Deliver, OrderInv, Leave, busVars
<1>2. /\ n \in Nat /\ DOMAIN sent = 1..n /\ DOMAIN sent' = 1..(n + 1)
      /\ sent'[n + 1] = m0 /\ \A i \in 1..n : sent'[i] = sent[i]
  <2>1. cur[e] \in Alerts /\ cur[e].severity \in Nat
    BY <1>1, CurIsAlert
  <2>2. m0 \in [alert : Alerts, popup : BOOLEAN]
    BY <2>1
  <2> HIDE DEF m0
  <2> QED BY <1>1, <2>2, EntriesAreAlerts DEF BusTypeOK
<1>3. m0.alert = cur[e]
  OBVIOUS
<1> HIDE DEF n, m0
<1>4. DOMAIN recorded \subseteq Int /\ \A m \in DOMAIN recorded : recorded[m].by \in Emitters
  BY EntriesAreAlerts
<1>5. PICK w \in Waiting : recorded[w] = cur[e]
  BY <1>1 DEF OrderInv
<1>6. /\ w \in DOMAIN recorded /\ recorded[w].by = e
      /\ \A l \in DOMAIN recorded : l > w => recorded[l].by # e
      /\ \A x \in Waiting : recorded[x].by = e => x = w
  BY <1>1, <1>4, <1>5 DEF Waiting
<1>7. Waiting' = Waiting \ {w}
  BY <1>1, <1>4, <1>5, <1>6 DEF Waiting, BusTypeOK
<1>8. DetectorOrder'
  <2>1. PICK at \in [DOMAIN sent -> DOMAIN recorded] :
           /\ \A i \in DOMAIN sent : recorded[at[i]] = sent[i].alert /\ at[i] \notin Waiting
           /\ \A i, j \in DOMAIN sent :
                 i < j /\ sent[i].alert.by = sent[j].alert.by => at[i] < at[j]
           /\ \A i \in DOMAIN sent, m \in DOMAIN recorded :
                 m > at[i] /\ recorded[m].by = sent[i].alert.by
                     => m \in Waiting \/ \E j \in DOMAIN sent : at[j] = m
    BY DEF OrderInv, DetectorOrder
  <2> DEFINE to == [i \in 1..(n + 1) |-> IF i = n + 1 THEN w ELSE at[i]]
  <2>2. /\ to \in [DOMAIN sent' -> DOMAIN recorded'] /\ to[n + 1] = w
        /\ \A i \in 1..n : to[i] = at[i] /\ i \in DOMAIN sent /\ at[i] \in DOMAIN recorded
    BY <1>1, <1>2, <1>6, <2>1
  <2>3. \A i \in 1..n : sent[i].alert.by = e => at[i] < w
    <3> SUFFICES ASSUME NEW i \in 1..n, sent[i].alert.by = e PROVE at[i] < w
      OBVIOUS
    <3>1. at[i] \in DOMAIN recorded /\ recorded[at[i]].by = e /\ at[i] # w
      BY <1>2, <1>5, <2>1
    <3> QED BY <1>4, <1>6, <3>1
  <2>4. \A i \in DOMAIN sent' : recorded'[to[i]] = sent'[i].alert /\ to[i] \notin Waiting'
    BY <1>1, <1>2, <1>3, <1>5, <1>7, <2>1, <2>2
  <2>5. \A i, j \in DOMAIN sent' :
           i < j /\ sent'[i].alert.by = sent'[j].alert.by => to[i] < to[j]
    <3> SUFFICES ASSUME NEW i \in 1..(n + 1), NEW j \in 1..(n + 1), i < j,
                        sent'[i].alert.by = sent'[j].alert.by
                 PROVE  to[i] < to[j]
      BY <1>2
    <3>1. i \in 1..n
      BY <1>2
    <3>2. CASE j = n + 1
      BY <1>1, <1>2, <1>3, <2>2, <2>3, <3>1, <3>2
    <3>3. CASE j \in 1..n
      BY <1>2, <2>1, <2>2, <3>1, <3>3
    <3> QED BY <1>2, <3>2, <3>3
  <2>6. \A i \in DOMAIN sent', m \in DOMAIN recorded' :
           m > to[i] /\ recorded'[m].by = sent'[i].alert.by
               => m \in Waiting' \/ \E j \in DOMAIN sent' : to[j] = m
    <3> SUFFICES ASSUME NEW i \in 1..(n + 1), NEW m \in DOMAIN recorded,
                        m > to[i], recorded[m].by = sent'[i].alert.by
                 PROVE  m \in Waiting' \/ \E j \in 1..(n + 1) : to[j] = m
      BY <1>1, <1>2
    <3>1. i \in 1..n
      BY <1>1, <1>2, <1>3, <1>6, <2>2
    <3>2. m \in Waiting \/ \E j \in 1..n : at[j] = m
      BY <1>2, <2>1, <2>2, <3>1
    <3>3. m = w => to[n + 1] = m
      BY <2>2
    <3> QED BY <1>2, <1>7, <2>2, <3>2, <3>3
  <2> HIDE DEF to
  <2> QED BY <2>2, <2>4, <2>5, <2>6 DEF DetectorOrder
<1>9. \A f \in Emitters : step'[f] = "sink" => \E m \in Waiting' : recorded'[m] = cur'[f]
  <2> SUFFICES ASSUME NEW f \in Emitters, step'[f] = "sink"
               PROVE  \E m \in Waiting' : recorded'[m] = cur'[f]
    OBVIOUS
  <2>1. f # e /\ step[f] = "sink" /\ cur'[f] = cur[f] /\ cur[f].by = f
    BY <1>1 DEF BusTypeOK, OrderInv
  <2>2. PICK m \in Waiting : recorded[m] = cur[f]
    BY <2>1 DEF OrderInv
  <2>3. m # w
    BY <1>6, <2>1, <2>2
  <2> QED BY <1>1, <1>7, <2>1, <2>2, <2>3
<1>10. sinkSet' /\ \A f \in Emitters : step'[f] # "idle" => cur'[f].by = f
  BY <1>1 DEF OrderInv, BusTypeOK
<1> QED BY <1>8, <1>9, <1>10 DEF OrderInv

(* Whatever order the threads get the mutex and reach the sink in, the     *)
(* clients see the alerts of one detector in the order it found them.      *)
THEOREM DetectorsInOrder == BusSpec => []DetectorOrder
<1>1. BusInit => OrderInv
  <2> SUFFICES ASSUME BusInit PROVE OrderInv
    OBVIOUS
  <2>1. sent = <<>> /\ \A e \in Emitters : step[e] = "idle"
    BY DEF BusInit
  <2>2. DOMAIN sent = {}
    BY <2>1
  <2>3. [i \in {} |-> i] \in [{} -> DOMAIN recorded]
    OBVIOUS
  <2>4. DetectorOrder
    BY ONLY <2>2, <2>3 DEF DetectorOrder
  <2> QED BY <2>1, <2>4 DEF OrderInv
<1>2. BusTypeOK /\ OrderInv /\ [BusNext]_emitVars => OrderInv'
  <2> SUFFICES ASSUME BusTypeOK, OrderInv, [BusNext]_emitVars PROVE OrderInv'
    OBVIOUS
  <2>1. CASE Tick \/ SetSink \/ UNCHANGED emitVars
    <3>1. UNCHANGED <<step, cur, recorded, sent>> /\ (sinkSet => sinkSet')
      BY <2>1 DEF Tick, SetSink, emitVars, busVars
    <3> QED BY <3>1, OrderUntouched DEF OrderInv
  <2>2. ASSUME NEW e \in Emitters, NEW k \in Keys, NEW s \in Severities, Stamp(e, k, s)
        PROVE  OrderInv'
    <3>1. /\ step[e] = "idle" /\ step' = [step EXCEPT ![e] = "stamped"]
          /\ \A f \in Emitters \ {e} : cur'[f] = cur[f]
          /\ cur'[e].by = e /\ UNCHANGED <<sinkSet, recorded, sent>>
      BY <2>2 DEF Stamp, busVars, BusTypeOK
    <3>2. \A f \in Emitters : step'[f] = "sink" <=> (step[f] = "sink" /\ f # e)
      BY <3>1 DEF BusTypeOK
    <3>3. Waiting' = Waiting /\ DetectorOrder'
      BY <3>1, <3>2, OrderUntouched DEF OrderInv
    <3> QED BY <3>1, <3>2, <3>3 DEF OrderInv, BusTypeOK
  <2>3. ASSUME NEW e \in Emitters, Ignore(e) \/ Suppress(e) PROVE OrderInv'
    <3>1. /\ step[e] = "stamped" /\ step' = [step EXCEPT ![e] = "idle"]
          /\ cur' = [cur EXCEPT ![e] = NoAlert] /\ UNCHANGED <<sinkSet, recorded, sent>>
      BY <2>3 DEF Ignore, Suppress, Leave, busVars
    <3>2. \A f \in Emitters : step'[f] = "sink" <=> (step[f] = "sink" /\ f # e)
      BY <3>1 DEF BusTypeOK
    <3>3. Waiting' = Waiting /\ DetectorOrder'
      BY <3>1, <3>2, OrderUntouched DEF OrderInv
    <3> QED BY <3>1, <3>2, <3>3 DEF OrderInv, BusTypeOK
  <2> QED BY <2>1, <2>2, <2>3, OrderRecord, OrderDeliver, BusAssumption DEF BusNext, Emitting
<1>3. OrderInv => DetectorOrder
  BY DEF OrderInv
<1> QED BY <1>1, <1>2, <1>3, BusTypeCorrect, PTL DEF BusSpec

(***************************************************************************)
(* Agent.                                                                  *)
(***************************************************************************)

(***************************************************************************)
(* Induction, for a set of numbers.                                        *)
(***************************************************************************)

LEMMA Leasts ==
    ASSUME NEW S, S \subseteq Nat, S # {}
    PROVE  \E x \in S : \A y \in S : x <= y
<1>1. PICK x \in S : \A y \in S : <<y, x>> \notin OpToRel(<, Nat)
  BY NatLessThanWellFounded, WFMin, Zenon
<1>2. \A y \in S : ~(y < x)
  BY <1>1, Zenon DEF OpToRel
<1> QED BY <1>2

LEMMA Inductive ==
    ASSUME NEW n \in Nat, NEW S, 0 \in S,
           \A i \in 0..n : i \in S /\ i < n => i + 1 \in S
    PROVE  0..n \subseteq S
<1> SUFFICES ASSUME (0..n) \ S # {}
             PROVE  FALSE
  OBVIOUS
<1>1. PICK m \in (0..n) \ S : \A y \in (0..n) \ S : m <= y
  <2> DEFINE rest == (0..n) \ S
  <2>1. rest \subseteq Nat /\ rest # {}
    OBVIOUS
  <2> HIDE DEF rest
  <2>2. \E m \in rest : \A y \in rest : m <= y
    BY <2>1, Leasts
  <2> QED BY <2>2 DEF rest
<1>2. m # 0 /\ m - 1 \in 0..n /\ m - 1 < n /\ ~(m <= m - 1) /\ (m - 1) + 1 = m
  BY <1>1
<1>3. m - 1 \in S
  BY <1>1, <1>2
<1> QED BY <1>1, <1>2, <1>3

(***************************************************************************)
(* Rising sequences of numbers.                                            *)
(***************************************************************************)

Rising(q) == \A i, j \in 1..Len(q) : i < j => q[i] < q[j]

LEMMA RangeIs ==
    ASSUME NEW T, NEW q \in Seq(T)
    PROVE  /\ Range(q) \subseteq T /\ Len(q) \in Nat /\ DOMAIN q = 1..Len(q)
           /\ \A x \in Range(q) : \E i \in 1..Len(q) : x = q[i]
           /\ \A i \in 1..Len(q) : q[i] \in Range(q)
           /\ q = <<>> => Range(q) = {}
BY DEF Range

LEMMA AppendIs ==
    ASSUME NEW T, T \subseteq Int, NEW q \in Seq(T), NEW x \in T
    PROVE  /\ Append(q, x) \in Seq(T) /\ Len(Append(q, x)) = Len(q) + 1
           /\ Range(Append(q, x)) = Range(q) \cup {x}
           /\ Rising(q) /\ (\A y \in Range(q) : y < x) => Rising(Append(q, x))
<1> DEFINE r == Append(q, x)
<1>1. /\ r \in Seq(T) /\ Len(r) = Len(q) + 1 /\ r[Len(q) + 1] = x
      /\ \A i \in 1..Len(q) : r[i] = q[i]
      /\ Len(q) \in Nat
  BY AppendProperties
<1> HIDE DEF r
<1>2. Range(r) = Range(q) \cup {x}
  <2>1. DOMAIN r = 1..(Len(q) + 1) /\ DOMAIN q = 1..Len(q)
    BY <1>1
  <2>2. \A y \in Range(r) : y \in Range(q) \cup {x}
    BY <1>1, <2>1 DEF Range
  <2>3. Len(q) + 1 \in DOMAIN r /\ \A i \in DOMAIN q : i \in DOMAIN r
    BY <1>1, <2>1
  <2>4. \A y \in Range(q) \cup {x} : y \in Range(r)
    BY <1>1, <2>1, <2>3 DEF Range
  <2> QED BY <2>2, <2>4
<1>3. ASSUME Rising(q), \A y \in Range(q) : y < x
      PROVE  Rising(r)
  <2> SUFFICES ASSUME NEW i \in 1..(Len(q) + 1), NEW j \in 1..(Len(q) + 1), i < j
               PROVE  r[i] < r[j]
    BY <1>1 DEF Rising
  <2>1. i \in 1..Len(q) /\ r[i] = q[i] /\ q[i] \in Range(q)
    BY <1>1, RangeIs
  <2>2. CASE j \in 1..Len(q)
    BY <1>1, <1>3, <2>1, <2>2 DEF Rising
  <2>3. CASE j = Len(q) + 1
    BY <1>1, <1>3, <2>1, <2>3
  <2> QED BY <1>1, <2>2, <2>3
<1> QED BY <1>1, <1>2, <1>3 DEF r

LEMMA SubSeqIs ==
    ASSUME NEW T, T \subseteq Int, NEW q \in Seq(T), NEW a \in Nat \ {0}, NEW b \in Nat,
           b <= Len(q), a <= b + 1
    PROVE  /\ SubSeq(q, a, b) \in Seq(T) /\ Len(SubSeq(q, a, b)) = b - a + 1
           /\ \A i \in 1..(b - a + 1) : SubSeq(q, a, b)[i] = q[a + i - 1]
           /\ Range(SubSeq(q, a, b)) \subseteq Range(q)
           /\ Rising(q) => Rising(SubSeq(q, a, b))
<1> DEFINE r == SubSeq(q, a, b)
<1>0. Len(q) \in Nat /\ \A i \in a..b : i \in 1..Len(q) /\ q[i] \in T
  OBVIOUS
<1>1. /\ r \in Seq(T) /\ Len(r) = b - a + 1
      /\ \A i \in 1..(b - a + 1) : r[i] = q[a + i - 1]
  BY <1>0, SubSeqProperties
<1> HIDE DEF r
<1>2. \A i \in 1..(b - a + 1) : a + i - 1 \in 1..Len(q) /\ r[i] = q[a + i - 1]
  BY <1>0, <1>1
<1>3. Range(r) \subseteq Range(q)
  <2> SUFFICES ASSUME NEW x \in Range(r) PROVE x \in Range(q)
    OBVIOUS
  <2>1. PICK i \in 1..(b - a + 1) : x = r[i]
    BY <1>1, RangeIs
  <2>2. a + i - 1 \in 1..Len(q) /\ x = q[a + i - 1]
    BY <1>2, <2>1
  <2> QED BY <2>2, RangeIs
<1>4. ASSUME Rising(q) PROVE Rising(r)
  <2> SUFFICES ASSUME NEW i \in 1..(b - a + 1), NEW j \in 1..(b - a + 1), i < j
               PROVE  r[i] < r[j]
    BY <1>1 DEF Rising
  <2>1. a + i - 1 \in 1..Len(q) /\ a + j - 1 \in 1..Len(q) /\ a + i - 1 < a + j - 1
    BY <1>2
  <2>2. q[a + i - 1] < q[a + j - 1]
    BY <1>4, <2>1 DEF Rising
  <2> QED BY <1>2, <2>2
<1> QED BY <1>1, <1>3, <1>4 DEF r

LEMMA TailIs ==
    ASSUME NEW T, T \subseteq Int, NEW q \in Seq(T), q # <<>>
    PROVE  /\ Head(q) \in T /\ Tail(q) \in Seq(T) /\ Len(Tail(q)) = Len(q) - 1
           /\ Range(q) = {Head(q)} \cup Range(Tail(q))
           /\ Rising(q) => Rising(Tail(q)) /\ \A x \in Range(Tail(q)) : Head(q) < x
<1> DEFINE r == Tail(q)
           h == Head(q)
<1>1. /\ h = q[1] /\ h \in T /\ r \in Seq(T) /\ Len(r) = Len(q) - 1
      /\ Len(q) \in Nat \ {0} /\ \A i \in 1..(Len(q) - 1) : r[i] = q[i + 1]
  BY HeadTailProperties
<1> HIDE DEF r, h
<1>2. Range(q) = {h} \cup Range(r)
  <2>1. ASSUME NEW x \in Range(q) PROVE x \in {h} \cup Range(r)
    <3>1. PICK i \in 1..Len(q) : x = q[i]
      BY RangeIs
    <3>2. i # 1 => i - 1 \in 1..Len(r) /\ r[i - 1] = q[i]
      BY <1>1
    <3> QED BY <1>1, <3>1, <3>2, RangeIs
  <2>2. ASSUME NEW x \in Range(r) PROVE x \in Range(q)
    <3>1. PICK i \in 1..Len(r) : x = r[i]
      BY <1>1, RangeIs
    <3>2. i + 1 \in 1..Len(q) /\ x = q[i + 1]
      BY <1>1, <3>1
    <3> QED BY <3>2, RangeIs
  <2>3. h \in Range(q)
    BY <1>1, RangeIs
  <2> QED BY <2>1, <2>2, <2>3
<1>3. ASSUME Rising(q) PROVE Rising(r)
  <2> SUFFICES ASSUME NEW i \in 1..Len(r), NEW j \in 1..Len(r), i < j PROVE r[i] < r[j]
    BY DEF Rising
  <2>1. i + 1 \in 1..Len(q) /\ j + 1 \in 1..Len(q) /\ i + 1 < j + 1
    BY <1>1
  <2>2. q[i + 1] < q[j + 1]
    BY <1>3, <2>1 DEF Rising
  <2> QED BY <1>1, <2>2
<1>4. ASSUME Rising(q), NEW x \in Range(r) PROVE h < x
  <2>1. PICK i \in 1..Len(r) : x = r[i]
    BY <1>1, RangeIs
  <2>2. 1 \in 1..Len(q) /\ i + 1 \in 1..Len(q) /\ 1 < i + 1 /\ x = q[i + 1]
    BY <1>1, <2>1
  <2> QED BY <1>1, <1>4, <2>2 DEF Rising
<1> QED BY <1>1, <1>2, <1>3, <1>4 DEF r, h

LEMMA ConcatIs ==
    ASSUME NEW T, T \subseteq Int, NEW a \in Seq(T), NEW b \in Seq(T)
    PROVE  Rising(a \o b) <=> /\ Rising(a) /\ Rising(b)
                              /\ \A x \in Range(a), y \in Range(b) : x < y
<1> DEFINE all == a \o b
           m == Len(a)
           n == Len(b)
<1>1. /\ m \in Nat /\ n \in Nat /\ all \in Seq(T) /\ Len(all) = m + n
      /\ \A i \in 1..m : all[i] = a[i]
      /\ \A i \in 1..n : all[m + i] = b[i]
  <2>1. all \in Seq(T) /\ Len(all) = m + n /\ m \in Nat /\ n \in Nat
    BY ConcatProperties
  <2>2. \A i \in 1..(m + n) : all[i] = IF i <= m THEN a[i] ELSE b[i - m]
    BY ConcatProperties
  <2> HIDE DEF all, m, n
  <2>3. \A i \in 1..m : i \in 1..(m + n) /\ i <= m
    BY <2>1
  <2>4. \A i \in 1..n : m + i \in 1..(m + n) /\ ~(m + i <= m) /\ (m + i) - m = i
    BY <2>1
  <2> QED BY <2>1, <2>2, <2>3, <2>4
<1> HIDE DEF all
<1>2. ASSUME Rising(all)
      PROVE  Rising(a) /\ Rising(b) /\ \A x \in Range(a), y \in Range(b) : x < y
  <2>1. \A i, j \in 1..m : i < j => a[i] < a[j]
    <3>1. \A i \in 1..m : i \in 1..(m + n)
      BY <1>1
    <3> QED BY <1>1, <1>2, <3>1 DEF Rising
  <2>2. \A i, j \in 1..n : i < j => b[i] < b[j]
    <3> SUFFICES ASSUME NEW i \in 1..n, NEW j \in 1..n, i < j PROVE b[i] < b[j]
      OBVIOUS
    <3>1. m + i \in 1..Len(all) /\ m + j \in 1..Len(all) /\ m + i < m + j
      BY <1>1
    <3>2. all[m + i] < all[m + j]
      BY <1>2, <3>1 DEF Rising
    <3> QED BY <1>1, <3>2
  <2>3. ASSUME NEW x \in Range(a), NEW y \in Range(b) PROVE x < y
    <3>1. PICK i \in 1..m : x = a[i]
      BY RangeIs
    <3>2. PICK j \in 1..n : y = b[j]
      BY RangeIs
    <3>3. i \in 1..Len(all) /\ m + j \in 1..Len(all) /\ i < m + j
      BY <1>1
    <3>4. all[i] < all[m + j]
      BY <1>2, <3>3 DEF Rising
    <3> QED BY <1>1, <3>1, <3>2, <3>4
  <2> QED BY <2>1, <2>2, <2>3 DEF Rising
<1>3. ASSUME Rising(a), Rising(b), \A x \in Range(a), y \in Range(b) : x < y
      PROVE  Rising(all)
  <2> SUFFICES ASSUME NEW i \in 1..(m + n), NEW j \in 1..(m + n), i < j PROVE all[i] < all[j]
    BY <1>1 DEF Rising
  <2>1. CASE j <= m
    <3>1. i \in 1..m /\ j \in 1..m
      BY <1>1, <2>1
    <3> QED BY <1>1, <1>3, <3>1 DEF Rising
  <2>2. CASE i <= m /\ j > m
    <3>1. i \in 1..m /\ j - m \in 1..n /\ m + (j - m) = j
      BY <1>1, <2>2
    <3>2. all[i] = a[i] /\ all[j] = b[j - m] /\ a[i] \in Range(a) /\ b[j - m] \in Range(b)
      BY <1>1, <3>1, RangeIs
    <3> QED BY <1>3, <3>2
  <2>3. CASE i > m
    <3>1. i - m \in 1..n /\ j - m \in 1..n /\ m + (j - m) = j /\ m + (i - m) = i /\ i - m < j - m
      BY <1>1, <2>3
    <3>2. all[i] = b[i - m] /\ all[j] = b[j - m]
      BY <1>1, <3>1
    <3> QED BY <1>3, <3>1, <3>2 DEF Rising
  <2> QED BY <1>1, <2>1, <2>2, <2>3
<1> QED BY <1>2, <1>3 DEF all

(* The elements of a rising sequence are as many as its length.            *)
LEMMA RisingCounts ==
    ASSUME NEW T, T \subseteq Int, NEW q \in Seq(T), Rising(q)
    PROVE  IsFiniteSet(Range(q)) /\ Cardinality(Range(q)) = Len(q)
<1>1. Len(q) \in Nat /\ q \in [1..Len(q) -> T] /\ DOMAIN q = 1..Len(q)
  OBVIOUS
<1>2. q \in Surjection(1..Len(q), Range(q))
  BY <1>1 DEF Surjection, Range
<1>3. ASSUME NEW i \in 1..Len(q), NEW j \in 1..Len(q), q[i] = q[j] PROVE i = j
  <2>0. PICK x \in Int : x = q[i] /\ x = q[j]
    BY <1>1, <1>3
  <2>1. ~(q[i] < q[j]) /\ ~(q[j] < q[i])
    BY <2>0
  <2>2. ~(i < j) /\ ~(j < i)
    BY <2>1 DEF Rising
  <2> QED BY <2>2
<1>4. q \in Injection(1..Len(q), Range(q))
  BY <1>1, <1>2, <1>3 DEF Injection, IsInjective, Surjection
<1>5. IsFiniteSet(1..Len(q)) /\ Cardinality(1..Len(q)) = Len(q)
  BY <1>1, FS_Interval
<1> QED BY <1>2, <1>4, <1>5, FS_Surjection

(***************************************************************************)
(* The queue and the popup.                                                *)
(***************************************************************************)

Screens == [queue : Seq(Ids), showing : BOOLEAN, popup : Popups \cup {NoPopup}]

(* Something waits only behind a popup, in order, and QueueMax at most.    *)
Orderly(s) ==
    /\ s.showing <=> s.popup # NoPopup
    /\ ~s.showing => s.queue = <<>>
    /\ Rising(s.queue) /\ Len(s.queue) <= QueueMax
    /\ \A n \in Range(s.queue) : s.popup.alert < n

LEMMA IdsAre == Ids \subseteq Nat \ {0}
BY DEF Ids

LEMMA PopupIs ==
    ASSUME NEW n \in Ids, NEW b \in BOOLEAN
    PROVE  /\ [alert |-> n, sticky |-> b] \in Popups /\ [alert |-> n, sticky |-> b] # NoPopup
           /\ \A p \in Popups : p.alert \in Ids /\ p.sticky \in BOOLEAN /\ p # NoPopup
           /\ NoPopup.alert = 0
<1>1. \A p \in Popups : p.alert \in Ids /\ p.sticky \in BOOLEAN
  BY DEF Popups
<1>2. NoPopup.alert = 0 /\ 0 \notin Ids
  BY DEF NoPopup, Ids
<1>3. [alert |-> n, sticky |-> b] \in Popups
  BY DEF Popups
<1> QED BY <1>1, <1>2, <1>3

LEMMA ShowNextIs ==
    ASSUME NEW s \in Screens, Rising(s.queue), Len(s.queue) <= QueueMax
    PROVE  /\ ShowNext(s) \in Screens /\ Orderly(ShowNext(s))
           /\ s.queue = <<>> => ShowNext(s).queue = <<>> /\ ShowNext(s).popup = NoPopup
           /\ s.queue # <<>> => /\ ShowNext(s).popup = [alert |-> Head(s.queue), sticky |-> FALSE]
                                /\ Head(s.queue) \in Ids
                                /\ ShowNext(s).queue = Tail(s.queue)
                                /\ Range(s.queue) = {Head(s.queue)} \cup Range(Tail(s.queue))
<1>1. PICK q \in Seq(Ids) : q = s.queue
  BY DEF Screens
<1>2. CASE q = <<>>
  <2>1. ShowNext(s) = [s EXCEPT !.showing = FALSE, !.popup = NoPopup]
    BY <1>1, <1>2 DEF ShowNext
  <2>2. /\ ShowNext(s) \in Screens /\ ShowNext(s).queue = <<>>
        /\ ShowNext(s).popup = NoPopup /\ ShowNext(s).showing = FALSE
    BY <1>1, <1>2, <2>1 DEF Screens
  <2>3. Range(ShowNext(s).queue) = {} /\ Rising(ShowNext(s).queue) /\ Len(ShowNext(s).queue) = 0
    BY <2>2 DEF Range, Rising
  <2> QED BY <1>1, <1>2, <2>2, <2>3 DEF Orderly
<1>3. CASE q # <<>>
  <2>1. PICK r : r = Tail(q)
    OBVIOUS
  <2>2. PICK h : h = Head(q)
    OBVIOUS
  <2>3. ShowNext(s) = [queue |-> r, showing |-> TRUE, popup |-> [alert |-> h, sticky |-> FALSE]]
    BY <1>1, <1>3, <2>1, <2>2 DEF ShowNext
  <2>4. /\ h \in Ids /\ r \in Seq(Ids) /\ Len(r) = Len(q) - 1
        /\ Range(q) = {h} \cup Range(r)
        /\ Rising(r) /\ \A x \in Range(r) : h < x
    <3>1. Ids \subseteq Int
      BY IdsAre
    <3> QED BY <1>1, <1>3, <2>1, <2>2, <3>1, TailIs
  <2>5. [alert |-> h, sticky |-> FALSE] \in Popups /\ [alert |-> h, sticky |-> FALSE] # NoPopup
    BY <2>4, PopupIs
  <2>6. Len(r) <= QueueMax
    BY <1>1, <2>4, AgentAssumption
  <2>7. /\ ShowNext(s).queue = r /\ ShowNext(s).showing = TRUE
        /\ ShowNext(s).popup = [alert |-> h, sticky |-> FALSE] /\ ShowNext(s).popup.alert = h
    BY <2>3
  <2>8. ShowNext(s) \in Screens
    BY <2>3, <2>4, <2>5 DEF Screens
  <2>9. Orderly(ShowNext(s))
    BY <2>4, <2>5, <2>6, <2>7 DEF Orderly
  <2> QED BY <1>1, <1>3, <2>1, <2>2, <2>4, <2>7, <2>8, <2>9
<1> QED BY <1>2, <1>3

(* What the queue loses is older than the QueueMax that it is left with.   *)
LEMMA EnqueueIs ==
    ASSUME NEW s \in Screens, Orderly(s), NEW n \in Ids,
           \A x \in Range(s.queue) : x < n
    PROVE  LET t == Enqueue(s, n)
           IN  /\ t \in Screens /\ (s.popup.alert < n => Orderly(t))
               /\ Range(t.queue) \subseteq Range(s.queue) \cup {n}
               /\ s.popup # NoPopup => t.popup = s.popup /\ n \in Range(t.queue)
               /\ s.popup = NoPopup => t.popup = [alert |-> n, sticky |-> FALSE]
               /\ \A x \in Range(s.queue) :
                     x \in Range(t.queue) \/ (Len(t.queue) = QueueMax /\ \A y \in Range(t.queue) : x < y)
               /\ Len(s.queue) = QueueMax => Len(t.queue) = QueueMax
<1>1. PICK q \in Seq(Ids) : q = s.queue
  BY DEF Screens
<1>2. PICK r : r = IF Len(q) >= QueueMax THEN Trimmed(q) ELSE q
  OBVIOUS
<1>3. PICK p : p = Append(r, n)
  OBVIOUS
<1>4. PICK full : full = [s EXCEPT !.queue = p]
  OBVIOUS
<1>5. Enqueue(s, n) = IF s.showing THEN full ELSE ShowNext(full)
  BY <1>1, <1>2, <1>3, <1>4 DEF Enqueue
<1>6. Rising(q) /\ Len(q) <= QueueMax /\ Len(q) \in Nat /\ QueueMax \in Nat \ {0} /\ Ids \subseteq Int
  BY <1>1, IdsAre, AgentAssumption DEF Orderly
<1>7. /\ r \in Seq(Ids) /\ Rising(r) /\ Range(r) \subseteq Range(q)
      /\ Len(r) = IF Len(q) = QueueMax THEN QueueMax - 1 ELSE Len(q)
      /\ \A x \in Range(q) : x \in Range(r) \/ (Len(q) = QueueMax /\ \A y \in Range(r) : x < y)
  <2>1. CASE Len(q) # QueueMax
    BY <1>2, <1>6, <2>1
  <2>2. CASE Len(q) = QueueMax
    <3>1. r = SubSeq(q, 2, Len(q))
      BY <1>2, <1>6, <2>2 DEF Trimmed
    <3>2. /\ r \in Seq(Ids) /\ Len(r) = Len(q) - 2 + 1
          /\ \A i \in 1..(Len(q) - 2 + 1) : r[i] = q[2 + i - 1]
          /\ Range(r) \subseteq Range(q) /\ Rising(r)
      <4>1. PICK a \in Nat \ {0} : a = 2
        OBVIOUS
      <4>2. PICK b \in Nat : b = Len(q)
        BY <1>6
      <4>3. a <= b + 1 /\ b <= Len(q)
        BY <1>6, <2>2, <4>1, <4>2
      <4>4. r = SubSeq(q, a, b)
        BY <3>1, <4>1, <4>2
      <4>5. /\ SubSeq(q, a, b) \in Seq(Ids) /\ Len(SubSeq(q, a, b)) = b - a + 1
            /\ \A i \in 1..(b - a + 1) : SubSeq(q, a, b)[i] = q[a + i - 1]
            /\ Range(SubSeq(q, a, b)) \subseteq Range(q)
            /\ Rising(q) => Rising(SubSeq(q, a, b))
        BY <1>6, <4>3, SubSeqIs, Zenon
      <4> QED BY <1>6, <4>1, <4>2, <4>4, <4>5
    <3>3. ASSUME NEW x \in Range(q), x \notin Range(r), NEW y \in Range(r)
          PROVE  x < y
      <4>1. PICK i \in 1..Len(q) : x = q[i]
        BY RangeIs
      <4>2. PICK j \in 1..Len(r) : y = r[j]
        BY <3>2, RangeIs
      <4>3. i = 1
        <5>1. i # 1 => i - 1 \in 1..(Len(q) - 2 + 1) /\ 2 + (i - 1) - 1 = i
          BY <1>6
        <5>2. i # 1 => r[i - 1] = q[i] /\ i - 1 \in 1..Len(r)
          BY <3>2, <5>1
        <5> QED BY <3>2, <3>3, <4>1, <5>2, RangeIs
      <4>4. 2 + j - 1 \in 1..Len(q) /\ 1 \in 1..Len(q) /\ 1 < 2 + j - 1 /\ y = q[2 + j - 1]
        BY <1>6, <3>2, <4>2
      <4>5. q[1] < q[2 + j - 1]
        BY <1>6, <4>4 DEF Rising
      <4> QED BY <4>1, <4>3, <4>4, <4>5
    <3> QED BY <1>6, <2>2, <3>2, <3>3
  <2> QED BY <2>1, <2>2
<1>8. /\ p \in Seq(Ids) /\ Len(p) = Len(r) + 1 /\ Range(p) = Range(r) \cup {n} /\ Rising(p)
  <2>1. \A y \in Range(r) : y < n
    BY <1>1, <1>7
  <2>2. /\ Append(r, n) \in Seq(Ids) /\ Len(Append(r, n)) = Len(r) + 1
        /\ Range(Append(r, n)) = Range(r) \cup {n}
        /\ Rising(r) /\ (\A y \in Range(r) : y < n) => Rising(Append(r, n))
    BY <1>6, <1>7, AppendIs, Zenon
  <2> QED BY <1>3, <1>7, <2>1, <2>2
<1>9. /\ full \in Screens /\ full.queue = p /\ full.popup = s.popup /\ full.showing = s.showing
  BY <1>4, <1>8 DEF Screens
<1>10. Len(p) <= QueueMax /\ (Len(q) = QueueMax => Len(p) = QueueMax)
  BY <1>6, <1>7, <1>8
<1>11. \A x \in Range(q) :
          x \in Range(p) \/ (Len(p) = QueueMax /\ \A y \in Range(p) : x < y)
  BY <1>1, <1>7, <1>8, <1>10
<1>12. CASE s.showing
  <2>1. Enqueue(s, n) = full /\ s.popup # NoPopup
    BY <1>5, <1>12 DEF Orderly
  <2>2. s.popup.alert < n => Orderly(full)
    <3> SUFFICES ASSUME s.popup.alert < n PROVE Orderly(full)
      OBVIOUS
    <3>1. s.showing <=> s.popup # NoPopup
      BY DEF Orderly
    <3>2. \A y \in Range(q) : s.popup.alert < y
      BY <1>1 DEF Orderly
    <3>3. \A y \in Range(p) : s.popup.alert < y
      BY <1>7, <1>8, <3>2
    <3> QED BY <1>8, <1>9, <1>10, <1>12, <3>1, <3>3 DEF Orderly
  <2> QED BY <1>1, <1>7, <1>8, <1>9, <1>10, <1>11, <2>1, <2>2
<1>13. CASE ~s.showing
  <2>1. Enqueue(s, n) = ShowNext(full) /\ s.popup = NoPopup /\ q = <<>>
    BY <1>1, <1>5, <1>13 DEF Orderly
  <2>2. /\ Len(q) = 0 /\ r = <<>> /\ p = <<n>>
    <3>1. Len(q) = 0 /\ ~(Len(q) >= QueueMax)
      BY <1>6, <2>1
    <3>2. r = <<>>
      BY <1>2, <2>1, <3>1
    <3> QED BY <1>3, <3>1, <3>2
  <2>3. p # <<>> /\ Head(p) = n /\ Tail(p) = <<>>
    BY <2>2
  <2>4. /\ ShowNext(full) \in Screens /\ Orderly(ShowNext(full))
        /\ ShowNext(full).popup = [alert |-> n, sticky |-> FALSE]
        /\ ShowNext(full).queue = <<>>
    BY <1>8, <1>9, <1>10, <2>3, ShowNextIs
  <2>5. Range(q) = {} /\ Range(ShowNext(full).queue) = {}
    BY <2>1, <2>4 DEF Range
  <2> QED BY <1>1, <1>6, <2>1, <2>2, <2>4, <2>5
<1> QED BY <1>12, <1>13

(* From the screen s to t with the alerts T: what waits and what pops up   *)
(* is of s or of T, and what is gone is older than QueueMax that wait.     *)
Keeps(s, t, T) ==
    /\ t \in Screens /\ Orderly(t)
    /\ Range(t.queue) \subseteq Range(s.queue) \cup T
    /\ \/ t.popup = s.popup \/ t.popup = NoPopup
       \/ /\ t.popup \in Popups /\ ~t.popup.sticky
          /\ t.popup.alert \in Range(s.queue) \cup T
    /\ \A x \in Range(s.queue) \cup T :
          \/ x \in Range(t.queue) \/ x = t.popup.alert
          \/ Len(t.queue) = QueueMax /\ \A y \in Range(t.queue) : x < y

LEMMA ShowNextKeeps ==
    ASSUME NEW s \in Screens, Orderly(s), NEW T, T = {}
    PROVE  Keeps(s, ShowNext(s), T)
<1>1. PICK t : t = ShowNext(s)
  OBVIOUS
<1>2. /\ t \in Screens /\ Orderly(t)
      /\ s.queue = <<>> => t.queue = <<>> /\ t.popup = NoPopup
      /\ s.queue # <<>> => /\ t.popup = [alert |-> Head(s.queue), sticky |-> FALSE]
                           /\ Head(s.queue) \in Ids
                           /\ t.queue = Tail(s.queue)
                           /\ Range(s.queue) = {Head(s.queue)} \cup Range(Tail(s.queue))
  BY <1>1, ShowNextIs DEF Orderly
<1>3. CASE s.queue = <<>>
  <2>1. Range(s.queue) = {} /\ Range(t.queue) = {}
    BY <1>2, <1>3 DEF Range
  <2> QED BY <1>1, <1>2, <1>3, <2>1 DEF Keeps
<1>4. CASE s.queue # <<>>
  <2>1. PICK h \in Ids : h = Head(s.queue)
    BY <1>2, <1>4
  <2>2. /\ t.popup = [alert |-> h, sticky |-> FALSE]
        /\ Range(s.queue) = {h} \cup Range(t.queue)
    BY <1>2, <1>4, <2>1
  <2>3. [alert |-> h, sticky |-> FALSE] \in Popups
    BY PopupIs
  <2>4. t.popup \in Popups /\ ~t.popup.sticky /\ t.popup.alert = h
    BY <2>2, <2>3
  <2> QED BY <1>1, <1>2, <2>2, <2>4 DEF Keeps
<1> QED BY <1>3, <1>4

LEMMA EnqueueKeeps ==
    ASSUME NEW s \in Screens, NEW t, NEW T \in SUBSET Ids, Keeps(s, t, T), NEW n \in Ids,
           \A x \in Range(s.queue) \cup T : x < n, s.popup.alert < n
    PROVE  Keeps(s, Enqueue(t, n), T \cup {n})
<1>1. PICK u : u = Enqueue(t, n)
  OBVIOUS
<1>2. /\ t \in Screens /\ Orderly(t) /\ Range(t.queue) \subseteq Range(s.queue) \cup T
      /\ \/ t.popup = s.popup \/ t.popup = NoPopup
         \/ /\ t.popup \in Popups /\ ~t.popup.sticky
            /\ t.popup.alert \in Range(s.queue) \cup T
      /\ \A x \in Range(s.queue) \cup T :
            \/ x \in Range(t.queue) \/ x = t.popup.alert
            \/ Len(t.queue) = QueueMax /\ \A y \in Range(t.queue) : x < y
  BY DEF Keeps
<1>3. \A x \in Range(t.queue) : x < n
  BY <1>2
<1>4. NoPopup.alert = 0 /\ 0 < n /\ n # 0
  BY IdsAre, PopupIs DEF NoPopup
<1>5. t.popup.alert < n
  BY <1>2, <1>4
<1>6. /\ u \in Screens /\ (t.popup.alert < n => Orderly(u))
      /\ Range(u.queue) \subseteq Range(t.queue) \cup {n}
      /\ t.popup # NoPopup => u.popup = t.popup /\ n \in Range(u.queue)
      /\ t.popup = NoPopup => u.popup = [alert |-> n, sticky |-> FALSE]
      /\ \A x \in Range(t.queue) :
            x \in Range(u.queue) \/ (Len(u.queue) = QueueMax /\ \A y \in Range(u.queue) : x < y)
      /\ Len(t.queue) = QueueMax => Len(u.queue) = QueueMax
  BY <1>1, <1>2, <1>3, EnqueueIs, Zenon
<1>7. t.popup = NoPopup => u.popup \in Popups /\ ~u.popup.sticky /\ u.popup.alert = n
  <2>1. [alert |-> n, sticky |-> FALSE] \in Popups
    BY PopupIs
  <2> QED BY <1>6, <2>1
<1>8. \/ u.popup = s.popup
      \/ u.popup \in Popups /\ ~u.popup.sticky /\ u.popup.alert \in Range(s.queue) \cup (T \cup {n})
  BY <1>2, <1>6, <1>7
<1>9. ASSUME NEW x \in Range(s.queue) \cup (T \cup {n})
      PROVE  \/ x \in Range(u.queue) \/ x = u.popup.alert
             \/ Len(u.queue) = QueueMax /\ \A y \in Range(u.queue) : x < y
  <2>1. CASE x = n
    BY <1>6, <1>7, <2>1
  <2>2. CASE x # n
    <3>1. x \in Range(s.queue) \cup T /\ x < n /\ x \in Ids /\ x # 0
      <4>1. s.queue \in Seq(Ids)
        BY DEF Screens
      <4>2. Range(s.queue) \subseteq Ids
        BY <4>1, RangeIs
      <4> QED BY <1>9, <2>2, <4>2, IdsAre
    <3>2. CASE x \in Range(t.queue)
      BY <1>6, <3>2
    <3>3. CASE x = t.popup.alert
      BY <1>4, <1>6, <3>1, <3>3
    <3>4. CASE Len(t.queue) = QueueMax /\ \A y \in Range(t.queue) : x < y
      BY <1>6, <3>1, <3>4
    <3> QED BY <1>2, <3>1, <3>2, <3>3, <3>4
  <2> QED BY <2>1, <2>2
<1> QED BY <1>1, <1>2, <1>5, <1>6, <1>8, <1>9 DEF Keeps

Burst(after, s, ns, k) ==
    after = [i \in 0..k |->
                IF i = 0 THEN s
                ELSE IF Interesting(ns[i]) THEN Enqueue(after[i - 1], ns[i]) ELSE after[i - 1]]

LEMMA BurstExists ==
    ASSUME NEW s, NEW ns, NEW k \in Nat
    PROVE  \E after : Burst(after, s, ns, k)
<1> DEFINE S == {i \in 0..k : \E after : Burst(after, s, ns, i)}
           Step(after, i) == IF i = 0 THEN s
                             ELSE IF Interesting(ns[i]) THEN Enqueue(after[i - 1], ns[i])
                             ELSE after[i - 1]
<1>1. 0 \in S
  <2> DEFINE w == [i \in 0..0 |-> s]
  <2>1. w = [i \in 0..0 |-> Step(w, i)]
    OBVIOUS
  <2> HIDE DEF w
  <2>2. Burst(w, s, ns, 0)
    BY <2>1 DEF Burst
  <2> QED BY <2>2
<1>2. ASSUME NEW i \in 0..k, i \in S, i < k
      PROVE  i + 1 \in S
  <2>1. PICK w : Burst(w, s, ns, i)
    BY <1>2
  <2>2. w = [j \in 0..i |-> Step(w, j)]
    BY <2>1 DEF Burst
  <2> HIDE DEF Step
  <2> DEFINE v == [j \in 0..(i + 1) |-> Step(w, j)]
  <2>3. \A j \in 0..i : v[j] = w[j]
    BY <2>2
  <2>4. \A j \in 0..(i + 1) : j # 0 => j - 1 \in 0..i
    OBVIOUS
  <2> HIDE DEF v
  <2>5. \A j \in 0..(i + 1) : Step(w, j) = Step(v, j)
    BY <2>3, <2>4 DEF Step
  <2>6. v = [j \in 0..(i + 1) |-> Step(v, j)]
    BY <2>5 DEF v
  <2>7. Burst(v, s, ns, i + 1)
    BY <2>6 DEF Burst, Step
  <2>8. i + 1 \in 0..k
    BY <1>2
  <2> QED BY <2>7, <2>8
<1> HIDE DEF S
<1>3. \A i \in 0..k : i \in S /\ i < k => i + 1 \in S
  BY <1>2
<1>4. 0..k \subseteq S
  BY <1>1, <1>3, Inductive, Zenon
<1> QED BY <1>4 DEF S

LEMMA EnqueueAllKeeps ==
    ASSUME NEW s \in Screens, Orderly(s), NEW ns \in Seq(Ids), Rising(ns),
           \A y \in Range(ns) : s.popup.alert < y /\ \A x \in Range(s.queue) : x < y,
           NEW T, T = {y \in Range(ns) : Interesting(y)}
    PROVE  Keeps(s, EnqueueAll(s, ns), T)
<1> DEFINE k == Len(ns)
           after == CHOOSE a : Burst(a, s, ns, k)
           Took(i) == {y \in Ids : Interesting(y) /\ \E j \in 1..i : y = ns[j]}
           S == {i \in 0..k : Keeps(s, after[i], Took(i))}
<1>1. k \in Nat /\ \A j \in 1..k : ns[j] \in Ids /\ ns[j] \in Range(ns)
  BY RangeIs
<1>2. EnqueueAll(s, ns) = after[k]
  BY DEF EnqueueAll, Burst
<1>3. Burst(after, s, ns, k)
  BY <1>1, BurstExists
<1> HIDE DEF after
<1>4. \A i \in 0..k : after[i] =
          IF i = 0 THEN s
          ELSE IF Interesting(ns[i]) THEN Enqueue(after[i - 1], ns[i]) ELSE after[i - 1]
  BY <1>3, Zenon DEF Burst
<1> HIDE DEF k
<1>5. 0 \in S
  <2>1. after[0] = s /\ Took(0) = {} /\ 0 \in 0..k
    BY <1>1, <1>4
  <2>2. \A x \in Range(s.queue) \cup {} : x \in Range(s.queue)
    OBVIOUS
  <2>3. Keeps(s, s, {})
    BY <2>2 DEF Keeps
  <2> QED BY <2>1, <2>3
<1>6. ASSUME NEW i \in 0..k, i \in S, i < k
      PROVE  i + 1 \in S
  <2>1. i + 1 \in 0..k /\ i + 1 \in 1..k /\ i + 1 # 0 /\ (i + 1) - 1 = i
    BY <1>1, <1>6
  <2>2. PICK n \in Ids : n = ns[i + 1] /\ n \in Range(ns)
    BY <1>1, <2>1
  <2>3. Keeps(s, after[i], Took(i))
    BY <1>6
  <2>4. after[i + 1] = IF Interesting(n) THEN Enqueue(after[i], n) ELSE after[i]
    BY <1>4, <2>1, <2>2
  <2>5. \A j \in 1..(i + 1) : j \in 1..i \/ j = i + 1
    BY <1>1, <1>6
  <2>6. \A j \in 1..i : j \in 1..(i + 1) /\ j \in 1..k /\ j < i + 1
    BY <1>1, <1>6
  <2>7. i + 1 \in 1..(i + 1)
    BY <1>1, <1>6
  <2>8. Took(i + 1) = IF Interesting(n) THEN Took(i) \cup {n} ELSE Took(i)
    BY <2>2, <2>5, <2>6, <2>7
  <2>9. \A x \in Took(i) : x < n
    <3> SUFFICES ASSUME NEW x \in Took(i) PROVE x < n
      OBVIOUS
    <3>1. PICK j \in 1..i : x = ns[j]
      OBVIOUS
    <3>2. ns[j] < ns[i + 1]
      BY <2>1, <2>6 DEF Rising, k
    <3> QED BY <2>2, <3>1, <3>2
  <2>10. Took(i) \in SUBSET Ids
    OBVIOUS
  <2> HIDE DEF Took
  <2>11. CASE Interesting(n)
    <3>1. PICK T1 \in SUBSET Ids : T1 = Took(i)
      BY <2>10
    <3>2. \A x \in Range(s.queue) \cup T1 : x < n
      BY <2>2, <2>9, <3>1
    <3>3. s.popup.alert < n
      BY <2>2
    <3>4. PICK t : t = after[i]
      OBVIOUS
    <3>5. Keeps(s, t, T1)
      BY <2>3, <3>1, <3>4
    <3>6. Keeps(s, Enqueue(t, n), T1 \cup {n})
      BY <3>2, <3>3, <3>5, EnqueueKeeps, Zenon
    <3>7. Keeps(s, after[i + 1], Took(i + 1))
      BY <2>4, <2>8, <2>11, <3>1, <3>4, <3>6
    <3> QED BY <2>1, <3>7
  <2>12. CASE ~Interesting(n)
    BY <2>1, <2>3, <2>4, <2>8, <2>12
  <2> QED BY <2>11, <2>12
<1>7. \A i \in 0..k : i \in S /\ i < k => i + 1 \in S
  BY <1>6
<1>8. Took(k) = T
  <2>1. ns \in Seq(Ids) /\ Range(ns) \subseteq Ids
    BY RangeIs
  <2>2. \A x \in Range(ns) : \E j \in 1..k : x = ns[j]
    BY RangeIs DEF k
  <2>3. \A x \in Took(k) : x \in T
    BY <1>1
  <2>4. \A x \in T : x \in Took(k)
    BY <2>1, <2>2
  <2> HIDE DEF Took
  <2> QED BY <2>3, <2>4
<1> HIDE DEF S
<1>9. k \in S
  <2>1. 0..k \subseteq S
    BY <1>1, <1>5, <1>7, Inductive, Zenon
  <2> QED BY <1>1, <2>1
<1>10. Keeps(s, after[k], Took(k))
  BY <1>9 DEF S
<1> QED BY <1>2, <1>8, <1>10

(***************************************************************************)
(* The inductive invariant.                                                *)
(***************************************************************************)

(* Nothing is in a socket that is closed, and only a live agent retries.   *)
LinkInv ==
    /\ link = "none" => inbox = <<>> /\ outbox = <<>>
    /\ link = "hup" => outbox = <<>>
    /\ retry \/ mode # "live" => link = "none"
    /\ mode # "live" => ~retry

(* What waits in the socket is in order, behind what was accepted.         *)
InboxInv ==
    /\ Rising(inbox)
    /\ \A n \in Range(inbox) : fate[n] = "sent"
    /\ \A n \in Ids : n > Len(raised) => fate[n] = "none"
    /\ \A n \in Accepted, m \in Range(inbox) : n < m

(* The screen shows what the fates say.                                    *)
ScreenInv ==
    /\ Orderly(screen)
    /\ \A n \in Ids : fate[n] = "queued" <=> n \in Range(screen.queue)
    /\ mode = "live" /\ OnScreen => fate[screen.popup.alert] = "shown"
    /\ mode # "live" => screen.queue = <<>> /\ Accepted = {}
    /\ mode = "idle" => ~OnScreen

(* Every request is at one place, and no popup that may still ask is older *)
(* than one that was asked from.                                           *)
AskInv ==
    /\ Rising(handled \o outbox)
    /\ \A n \in Ids : /\ asks[n] = "sent" <=> n \in Range(outbox)
                      /\ asks[n] = "handled" <=> n \in Range(handled)
                      /\ asks[n] # "no" /\ mode = "live" => fate[n] = "shown"
                      /\ asks[n] # "no" /\ OnScreen =>
                            \/ n < screen.popup.alert
                            \/ n = screen.popup.alert /\ screen.popup.sticky
    /\ mode = "idle" => \A n \in Ids : asks[n] = "no"

AgentInv == TypeOK /\ LinkInv /\ InboxInv /\ ScreenInv /\ AskInv /\ BurstKeepsNewest

(***************************************************************************)
(* The fates that a step tells.                                            *)
(***************************************************************************)

Taken(g) == {n \in Ids : g[n] \in {"queued", "shown", "pushed out"}}

(* What becomes of the alerts when the screen becomes t, read is read and  *)
(* D is thrown away.                                                       *)
Told(t, read, D) ==
    [n \in Ids |-> IF n \in D THEN "discarded" ELSE FateIn(t, read, n)]

Telling(t, read, D, g) ==
    /\ read \in Seq(Ids) /\ Range(read) \subseteq Range(inbox)
    /\ D \subseteq Range(inbox) \ Range(read)
    /\ Keeps(screen, t, {n \in Range(read) : Interesting(n)})
    /\ g = Told(t, read, D)

Fated(t, read, D, g, n) ==
    /\ g[n] \in Fates
    /\ g[n] = "queued" <=> n \in Range(t.queue)
    /\ fate[n] = "shown" \/ n = t.popup.alert <=> g[n] = "shown"
    /\ n \in Accepted => n \in Taken(g)
    /\ n \in Taken(g) => n \in Accepted \/ n \in Range(read)
    /\ g[n] = "pushed out" =>
          \/ fate[n] = "pushed out"
          \/ Len(t.queue) = QueueMax /\ \A y \in Range(t.queue) : n < y
    /\ fate[n] = "none" => g[n] = "none"
    /\ n \in Range(inbox) /\ n \notin Range(read) /\ n \notin D => g[n] = "sent"

LEMMA FatesTold ==
    ASSUME TypeOK, InboxInv, ScreenInv, mode = "live",
           NEW t, NEW read, NEW D, NEW g, Telling(t, read, D, g), NEW n \in Ids
    PROVE  Fated(t, read, D, g, n)
<1> DEFINE T == {x \in Range(read) : Interesting(x)}
           Pushed == Len(t.queue) = QueueMax /\ \A y \in Range(t.queue) : n < y
<1> SUFFICES
      /\ g[n] \in Fates
      /\ g[n] = "queued" <=> n \in Range(t.queue)
      /\ fate[n] = "shown" \/ n = t.popup.alert <=> g[n] = "shown"
      /\ n \in Accepted => n \in Taken(g)
      /\ n \in Taken(g) => n \in Accepted \/ n \in Range(read)
      /\ g[n] = "pushed out" =>
            \/ fate[n] = "pushed out"
            \/ Len(t.queue) = QueueMax /\ \A y \in Range(t.queue) : n < y
      /\ fate[n] = "none" => g[n] = "none"
      /\ n \in Range(inbox) /\ n \notin Range(read) /\ n \notin D => g[n] = "sent"
  BY DEF Fated
<1>0. fate \in [Ids -> Fates] /\ inbox \in Seq(Ids) /\ fate[n] \in Fates /\ n # 0
  BY IdsAre DEF TypeOK
<1>. /\ read \in Seq(Ids) /\ Range(read) \subseteq Range(inbox)
     /\ D \subseteq Range(inbox) \ Range(read)
     /\ Keeps(screen, t, T) /\ g = Told(t, read, D)
  BY DEF Telling
<1>1. n \in T <=> n \in Range(read) /\ raised[n] # "quiet"
  BY DEF Interesting
<1>2. /\ t \in Screens /\ Orderly(t) /\ Range(t.queue) \subseteq Range(screen.queue) \cup T
      /\ \/ t.popup = screen.popup \/ t.popup = NoPopup
         \/ t.popup.alert \in Range(screen.queue) \cup T
      /\ \A x \in Range(screen.queue) \cup T :
            \/ x \in Range(t.queue) \/ x = t.popup.alert
            \/ Len(t.queue) = QueueMax /\ \A y \in Range(t.queue) : x < y
  BY DEF Keeps
<1> HIDE DEF T
<1>3. n \in Range(inbox) => fate[n] = "sent"
  BY DEF InboxInv
<1>4. n \in Range(read) => fate[n] = "sent"
  BY <1>3
<1>5. n \in D => fate[n] = "sent" /\ n \notin Range(read)
  BY <1>3
<1>6. fate[n] = "queued" <=> n \in Range(screen.queue)
  BY DEF ScreenInv
<1>7. n \in Range(t.queue) => n \in T \/ fate[n] = "queued"
  BY <1>2, <1>6
<1>8. n = t.popup.alert => n \in T \/ fate[n] = "queued" \/ fate[n] = "shown"
  <2> SUFFICES ASSUME n = t.popup.alert
               PROVE  n \in T \/ fate[n] = "queued" \/ fate[n] = "shown"
    OBVIOUS
  <2>1. t.popup # NoPopup
    BY <1>0 DEF NoPopup
  <2>2. t.popup = screen.popup => fate[n] = "shown"
    BY <2>1 DEF ScreenInv, OnScreen
  <2> QED BY <1>2, <1>6, <2>1, <2>2
<1>9. n \in T \/ fate[n] = "queued" => n \in Range(t.queue) \/ n = t.popup.alert \/ Pushed
  BY <1>2, <1>6
<1>10. n \in Range(t.queue) => n # t.popup.alert
  <2>1. n \in Range(t.queue) => t.popup.alert < n
    BY <1>2 DEF Orderly
  <2>2. ~(n < n)
    BY IdsAre
  <2> QED BY <2>1, <2>2
<1>11. n \in T => n \in Range(read) /\ fate[n] = "sent" /\ n \notin D
  BY <1>1, <1>4, <1>5
<1>12. g[n] = IF n \in D THEN "discarded" ELSE FateIn(t, read, n)
  BY DEF Told
<1>13. n \in Accepted <=> fate[n] \in {"queued", "shown", "pushed out"}
  BY DEF Accepted
<1>14. n \in Taken(g) <=> g[n] \in {"queued", "shown", "pushed out"}
  BY DEF Taken
<1> HIDE DEF Pushed
<1>15. CASE n \in D
  <2>1. g[n] = "discarded" /\ n \notin Range(t.queue) /\ n # t.popup.alert
    BY <1>5, <1>7, <1>8, <1>11, <1>12, <1>15
  <2> QED BY <1>5, <1>13, <1>14, <1>15, <2>1 DEF Fates
<1>16. CASE n \notin D
  <2>1. g[n] = FateIn(t, read, n)
    BY <1>12, <1>16
  <2>2. CASE n = t.popup.alert
    <3>1. g[n] = "shown" /\ n \notin Range(t.queue)
      BY <1>10, <2>1, <2>2 DEF FateIn
    <3>2. n \in Range(read) \/ fate[n] \in {"queued", "shown"}
      BY <1>8, <1>11, <2>2
    <3>3. n \in Range(inbox) => n \in Range(read)
      BY <1>3, <3>2
    <3> QED BY <1>4, <1>13, <1>14, <2>2, <3>1, <3>2, <3>3 DEF Fates
  <2>3. CASE n # t.popup.alert /\ n \in Range(t.queue)
    <3>1. g[n] = "queued"
      BY <2>1, <2>3 DEF FateIn
    <3>2. n \in Range(read) \/ fate[n] = "queued"
      BY <1>7, <1>11, <2>3
    <3>3. n \in Range(inbox) => n \in Range(read)
      BY <1>3, <3>2
    <3> QED BY <1>4, <1>13, <1>14, <2>3, <3>1, <3>2, <3>3 DEF Fates
  <2>4. CASE n # t.popup.alert /\ n \notin Range(t.queue) /\ n \in Range(read)
    <3>1. CASE raised[n] = "quiet"
      <4>1. g[n] = "quiet"
        BY <2>1, <2>4, <3>1 DEF FateIn
      <4> QED BY <1>4, <1>13, <1>14, <2>4, <4>1 DEF Fates
    <3>2. CASE raised[n] # "quiet"
      <4>1. g[n] = "pushed out" /\ Pushed
        BY <1>1, <1>9, <2>1, <2>4, <3>2 DEF FateIn
      <4> QED BY <1>4, <1>13, <1>14, <2>4, <4>1 DEF Fates, Pushed
    <3> QED BY <3>1, <3>2
  <2>5. CASE n # t.popup.alert /\ n \notin Range(t.queue) /\ n \notin Range(read)
    <3>1. CASE fate[n] = "queued"
      <4>1. g[n] = "pushed out" /\ Pushed /\ n \notin Range(inbox)
        BY <1>3, <1>9, <2>1, <2>5, <3>1 DEF FateIn
      <4> QED BY <1>13, <1>14, <2>5, <3>1, <4>1 DEF Fates, Pushed
    <3>2. CASE fate[n] # "queued"
      <4>1. g[n] = fate[n]
        BY <2>1, <2>5, <3>2 DEF FateIn
      <4> QED BY <1>0, <1>3, <1>13, <1>14, <2>5, <3>2, <4>1 DEF Fates
    <3> QED BY <3>1, <3>2
  <2> QED BY <2>2, <2>3, <2>4, <2>5
<1> QED BY <1>15, <1>16

LEMMA IdsFinite ==
    ASSUME NEW S, S \subseteq Ids
    PROVE  IsFiniteSet(S) /\ Cardinality(S) \in Nat
<1>1. IsFiniteSet(Ids)
  BY AgentAssumption, FS_Interval DEF Ids
<1>2. IsFiniteSet(S)
  BY <1>1, FS_Subset
<1> QED BY <1>2, FS_CardinalityType

LEMMA MoreCount ==
    ASSUME NEW S, NEW R, R \subseteq Ids, S \subseteq R, Cardinality(S) >= QueueMax
    PROVE  Cardinality(R) >= QueueMax
<1>1. IsFiniteSet(R) /\ Cardinality(R) \in Nat
  BY IdsFinite
<1>2. Cardinality(S) \in Nat /\ Cardinality(S) <= Cardinality(R)
  BY <1>1, FS_Subset, FS_CardinalityType, IdsFinite
<1> QED BY <1>1, <1>2, AgentAssumption

LEMMA BurstTold ==
    ASSUME TypeOK, InboxInv, ScreenInv, BurstKeepsNewest, mode = "live",
           NEW t, NEW read, NEW D, NEW g, Telling(t, read, D, g)
    PROVE  /\ \A n \in Taken(g) : g[n] = "pushed out" =>
                 Cardinality({m \in Taken(g) : m > n}) >= QueueMax
           /\ \A n, m \in Ids : g[n] = "queued" /\ g[m] = "shown" => m < n
<1>1. /\ t \in Screens /\ Orderly(t) /\ Range(read) \subseteq Range(inbox)
      /\ Range(t.queue) \subseteq Range(screen.queue) \cup Range(read)
  BY DEF Keeps, Telling
<1>2. Range(t.queue) \subseteq Ids /\ t.queue \in Seq(Ids) /\ Ids \subseteq Int
  <2>1. t.queue \in Seq(Ids)
    BY <1>1 DEF Screens
  <2> QED BY <2>1, RangeIs, IdsAre
<1>3. ASSUME NEW n \in Ids
      PROVE  /\ g[n] = "queued" <=> n \in Range(t.queue)
             /\ fate[n] = "shown" \/ n = t.popup.alert <=> g[n] = "shown"
             /\ n \in Accepted => n \in Taken(g)
             /\ g[n] = "pushed out" =>
                   \/ fate[n] = "pushed out"
                   \/ Len(t.queue) = QueueMax /\ \A y \in Range(t.queue) : n < y
  <2>1. Fated(t, read, D, g, n)
    BY FatesTold, Zenon
  <2> QED BY <2>1 DEF Fated
<1>4. ASSUME NEW n \in Taken(g), g[n] = "pushed out"
      PROVE  Cardinality({m \in Taken(g) : m > n}) >= QueueMax
  <2>0. n \in Ids /\ {m \in Taken(g) : m > n} \subseteq Ids
    BY DEF Taken
  <2>1. CASE fate[n] = "pushed out"
    <3>1. n \in Accepted
      BY <2>0, <2>1 DEF Accepted
    <3>2. Cardinality({m \in Accepted : m > n}) >= QueueMax
      BY <2>1, <3>1 DEF BurstKeepsNewest
    <3>3. {m \in Accepted : m > n} \subseteq {m \in Taken(g) : m > n}
      <4>1. \A m \in Accepted : m \in Ids
        BY DEF Accepted
      <4> QED BY <1>3, <4>1
    <3> QED BY <2>0, <3>2, <3>3, MoreCount
  <2>2. CASE Len(t.queue) = QueueMax /\ \A y \in Range(t.queue) : n < y
    <3>1. Cardinality(Range(t.queue)) = QueueMax
      BY <1>1, <1>2, <2>2, RisingCounts DEF Orderly
    <3>2. Range(t.queue) \subseteq {m \in Taken(g) : m > n}
      <4>1. \A m \in Range(t.queue) : m \in Ids /\ g[m] = "queued"
        BY <1>2, <1>3
      <4>2. \A m \in Range(t.queue) : m > n
        BY <1>2, <2>0, <2>2
      <4> QED BY <4>1, <4>2 DEF Taken
    <3>3. Cardinality(Range(t.queue)) >= QueueMax
      BY <3>1, AgentAssumption
    <3> QED BY <2>0, <3>2, <3>3, MoreCount
  <2> QED BY <1>3, <1>4, <2>0, <2>1, <2>2
<1>5. ASSUME NEW n \in Ids, NEW m \in Ids, g[n] = "queued", g[m] = "shown"
      PROVE  m < n
  <2>1. n \in Range(t.queue) /\ (fate[m] = "shown" \/ m = t.popup.alert)
    BY <1>3, <1>5
  <2>2. CASE m = t.popup.alert
    BY <1>1, <2>1, <2>2 DEF Orderly
  <2>3. CASE fate[m] = "shown" /\ n \in Range(screen.queue)
    <3>1. fate[n] = "queued"
      BY <2>3 DEF ScreenInv
    <3> QED BY <2>3, <3>1 DEF BurstKeepsNewest
  <2>4. CASE fate[m] = "shown" /\ n \in Range(read)
    <3>1. m \in Accepted
      BY <2>4 DEF Accepted
    <3> QED BY <1>1, <2>4, <3>1 DEF InboxInv
  <2> QED BY <1>1, <2>1, <2>2, <2>3, <2>4
<1> QED BY <1>4, <1>5

(* A step that shows t is one for the invariant.                           *)
LEMMA ShowsIs ==
    ASSUME TypeOK, InboxInv, ScreenInv, BurstKeepsNewest, mode = "live", mode' = mode,
           raised' = raised, NEW read, NEW D, Telling(screen', read, D, fate'),
           inbox' \in Seq(Ids), Rising(inbox'), read = <<>> \/ inbox' = <<>>,
           Range(inbox') \subseteq Range(inbox) \ (Range(read) \cup D)
    PROVE  /\ screen' \in Screens /\ fate' \in [Ids -> Fates]
           /\ InboxInv' /\ ScreenInv' /\ BurstKeepsNewest'
           /\ \A n \in Ids : fate[n] = "shown" =>
                 /\ fate'[n] = "shown"
                 /\ OnScreen' => screen'.popup = screen.popup \/ n < screen'.popup.alert
<1>1. PICK t : t = screen'
  OBVIOUS
<1>2. PICK g : g = fate'
  OBVIOUS
<1>3. Telling(t, read, D, g)
  BY <1>1, <1>2
<1>4. ASSUME NEW n \in Ids
      PROVE  /\ g[n] \in Fates
             /\ g[n] = "queued" <=> n \in Range(t.queue)
             /\ fate[n] = "shown" \/ n = t.popup.alert <=> g[n] = "shown"
             /\ n \in Accepted => n \in Taken(g)
             /\ n \in Taken(g) => n \in Accepted \/ n \in Range(read)
             /\ fate[n] = "none" => g[n] = "none"
             /\ n \in Range(inbox) /\ n \notin Range(read) /\ n \notin D => g[n] = "sent"
  <2>1. Fated(t, read, D, g, n)
    BY <1>3, FatesTold, Zenon
  <2> QED BY <2>1 DEF Fated
<1>5. t \in Screens /\ Orderly(t)
  BY <1>3 DEF Keeps, Telling
<1>6. g \in [Ids -> Fates]
  <2>1. g = [n \in Ids |-> g[n]]
    BY <1>3 DEF Told, Telling
  <2> QED BY <1>4, <2>1
<1>7. Accepted' = Taken(g)
  BY <1>2 DEF Accepted, Taken
<1>8. inbox \in Seq(Ids) /\ Range(inbox) \subseteq Ids /\ Range(inbox') \subseteq Ids
      /\ Ids \subseteq Int /\ fate \in [Ids -> Fates]
  BY RangeIs, IdsAre DEF TypeOK
<1>9. InboxInv'
  <2>1. \A n \in Range(inbox') : fate'[n] = "sent"
    BY <1>2, <1>4, <1>8
  <2>2. \A n \in Ids : n > Len(raised') => fate'[n] = "none"
    BY <1>2, <1>4 DEF InboxInv
  <2>3. \A n \in Accepted', m \in Range(inbox') : n < m
    <3> SUFFICES ASSUME NEW n \in Taken(g), NEW m \in Range(inbox') PROVE n < m
      BY <1>7
    <3>1. n \in Ids /\ m \in Range(inbox) /\ m \notin Range(read)
      BY DEF Taken
    <3>2. CASE n \in Accepted
      BY <3>1, <3>2 DEF InboxInv
    <3>3. CASE n \in Range(read)
      <4>1. inbox' # <<>> /\ read # <<>>
        BY <3>3 DEF Range
      <4> QED BY <4>1
    <3> QED BY <1>4, <3>1, <3>2, <3>3
  <2> QED BY <2>1, <2>2, <2>3 DEF InboxInv
<1>10. ScreenInv'
  <2>1. OnScreen' => t.popup.alert \in Ids
    BY <1>1, <1>5, PopupIs DEF OnScreen, Screens, Popups
  <2> QED BY <1>1, <1>2, <1>4, <1>5, <2>1 DEF ScreenInv, OnScreen, Orderly
<1>11. BurstKeepsNewest'
  <2>1. /\ \A n \in Taken(g) : g[n] = "pushed out" =>
                 Cardinality({m \in Taken(g) : m > n}) >= QueueMax
        /\ \A n, m \in Ids : g[n] = "queued" /\ g[m] = "shown" => m < n
    BY <1>3, BurstTold, Zenon
  <2> QED BY <1>2, <1>7, <2>1 DEF BurstKeepsNewest
<1>12. ASSUME NEW n \in Ids, fate[n] = "shown"
       PROVE  /\ fate'[n] = "shown"
              /\ OnScreen' => t.popup = screen.popup \/ n < t.popup.alert
  <2>1. fate'[n] = "shown"
    BY <1>2, <1>4, <1>12
  <2>2. CASE t.popup.alert \in Range(screen.queue)
    <3>1. t.popup.alert \in Ids
      BY <2>2, RangeIs DEF TypeOK
    <3>2. fate[t.popup.alert] = "queued"
      BY <2>2, <3>1 DEF ScreenInv
    <3> QED BY <1>12, <2>1, <3>1, <3>2 DEF BurstKeepsNewest
  <2>3. CASE t.popup.alert \in Range(read)
    <3>1. n \in Accepted
      BY <1>12 DEF Accepted
    <3> QED BY <1>3, <2>1, <2>3, <3>1 DEF InboxInv, Telling
  <2> QED BY <1>1, <1>3, <2>1, <2>2, <2>3 DEF Keeps, OnScreen, Telling
<1> QED BY <1>1, <1>2, <1>5, <1>6, <1>9, <1>10, <1>11, <1>12

(***************************************************************************)
(* The connection.                                                         *)
(***************************************************************************)

LEMMA InitHolds == Init => AgentInv
<1> SUFFICES ASSUME Init PROVE AgentInv
  OBVIOUS
<1>1. TypeOK
  <2>1. fate \in [Ids -> Fates] /\ asks \in [Ids -> Asks]
    BY DEF Init, Fates, Asks
  <2>2. screen \in Screens
    BY DEF Init, Screens
  <2>3. stops \in 0..MaxStops
    BY AgentAssumption DEF Init
  <2>4. raised \in Seq(Kinds) /\ inbox \in Seq(Ids) /\ outbox \in Seq(Ids) /\ handled \in Seq(Ids)
    BY DEF Init
  <2>5. /\ mode \in {"idle", "live", "demo", "quit"} /\ link \in {"none", "open", "hup"}
        /\ daemon \in BOOLEAN /\ source \in BOOLEAN /\ retry \in BOOLEAN
    BY DEF Init
  <2> QED BY <2>1, <2>2, <2>3, <2>4, <2>5, Zenon DEF TypeOK, Screens
<1>2. Range(inbox) = {} /\ Range(outbox) = {} /\ Range(handled) = {} /\ Range(screen.queue) = {}
  BY DEF Init, Range
<1>3. Rising(inbox) /\ Rising(handled \o outbox) /\ Rising(screen.queue)
  BY DEF Init, Rising
<1>4. Accepted = {}
  BY DEF Init, Accepted
<1>5. Len(screen.queue) <= QueueMax
  BY AgentAssumption DEF Init
<1>6. BurstKeepsNewest
  BY <1>4 DEF Init, BurstKeepsNewest
<1> QED BY <1>1, <1>2, <1>3, <1>4, <1>5, <1>6
        DEF AgentInv, Init, LinkInv, InboxInv, ScreenInv, AskInv, Orderly, OnScreen

LEMMA BurstSame ==
    ASSUME BurstKeepsNewest, fate' = fate
    PROVE  BurstKeepsNewest' /\ Accepted' = Accepted
BY DEF BurstKeepsNewest, Accepted

LEMMA ConnectNowIs ==
    ASSUME TypeOK, ConnectNow
    PROVE  /\ daemon' \in BOOLEAN /\ stops' \in 0..MaxStops /\ link' \in {"none", "open"}
           /\ inbox' = <<>> /\ outbox' = <<>> /\ source' \in BOOLEAN /\ retry' \in BOOLEAN
           /\ retry' => link' = "none"
<1>1. daemon \in BOOLEAN /\ stops \in 0..MaxStops /\ MaxStops \in Nat
  BY AgentAssumption DEF TypeOK
<1>2. stops' \in 0..MaxStops /\ daemon' \in BOOLEAN
  <2>1. CASE stops' = stops /\ daemon' = daemon
    BY <1>1, <2>1
  <2>2. CASE /\ daemon => stops < MaxStops
             /\ stops' = IF daemon THEN stops + 1 ELSE stops
             /\ daemon' = FALSE
    <3>1. CASE daemon
      <4>1. stops < MaxStops
        BY <2>2, <3>1, Zenon
      <4>2. stops' = stops + 1
        BY <2>2, <3>1, Zenon
      <4>3. stops' \in 0..MaxStops
        BY <1>1, <4>1, <4>2
      <4> QED BY <2>2, <4>3
    <3>2. CASE ~daemon
      BY <1>1, <2>2, <3>2
    <3> QED BY <3>1, <3>2
  <2> QED BY <2>1, <2>2 DEF ConnectNow
<1> QED BY <1>2 DEF ConnectNow, Disconnected

(* Nothing is on the way when it connects.                                 *)
LEMMA Connects ==
    ASSUME AgentInv, link = "none", ConnectNow, mode' = "live", mode = "live" \/ mode = "idle",
           UNCHANGED <<raised, screen, fate, askVars>>
    PROVE  AgentInv'
<1>1. /\ TypeOK /\ LinkInv /\ InboxInv /\ ScreenInv /\ AskInv /\ BurstKeepsNewest
      /\ UNCHANGED <<raised, screen, fate, asks, handled>>
      /\ inbox = <<>> /\ outbox = <<>>
  BY DEF AgentInv, LinkInv, askVars
<1>2. /\ daemon' \in BOOLEAN /\ stops' \in 0..MaxStops /\ link' \in {"none", "open"}
      /\ inbox' = <<>> /\ outbox' = <<>> /\ source' \in BOOLEAN /\ retry' \in BOOLEAN
      /\ retry' => link' = "none"
  BY <1>1, ConnectNowIs
<1>3. TypeOK'
  BY <1>1, <1>2 DEF TypeOK
<1>4. LinkInv'
  BY <1>2 DEF LinkInv
<1>5. BurstKeepsNewest' /\ Accepted' = Accepted
  BY <1>1, BurstSame
<1>6. InboxInv'
  BY <1>1, <1>2, <1>5 DEF InboxInv
<1>7. ScreenInv'
  BY <1>1 DEF ScreenInv, OnScreen, Orderly
<1>8. AskInv'
  BY <1>1, <1>2 DEF AskInv, OnScreen
<1> QED BY <1>3, <1>4, <1>5, <1>6, <1>7, <1>8 DEF AgentInv

LEMMA ActivateKeeps == AgentInv /\ Activate => AgentInv'
<1> SUFFICES ASSUME AgentInv, Activate PROVE AgentInv'
  OBVIOUS
<1>1. link = "none" /\ mode = "idle"
  BY DEF AgentInv, LinkInv, Activate
<1> QED BY <1>1, Connects DEF Activate

LEMMA OnRetryKeeps == AgentInv /\ OnRetry => AgentInv'
<1> SUFFICES ASSUME AgentInv, OnRetry PROVE AgentInv'
  OBVIOUS
<1>1. link = "none" /\ mode = "live" /\ mode' = "live"
  BY DEF AgentInv, LinkInv, OnRetry
<1> QED BY <1>1, Connects DEF OnRetry

LEMMA ActivateDemoKeeps == AgentInv /\ ActivateDemo => AgentInv'
<1> SUFFICES ASSUME AgentInv, ActivateDemo PROVE AgentInv'
  OBVIOUS
<1>1. /\ TypeOK /\ LinkInv /\ InboxInv /\ ScreenInv /\ AskInv /\ BurstKeepsNewest
      /\ UNCHANGED <<daemon, stops, raised, link, inbox, outbox, source, retry, fate, asks, handled>>
      /\ mode = "idle" /\ mode' = "demo" /\ ~retry /\ link = "none"
      /\ screen' = ShowNext([screen EXCEPT !.queue = <<1>>])
  BY DEF AgentInv, LinkInv, ActivateDemo, askVars, worldVars, linkVars
<1>2. 1 \in Ids
  BY AgentAssumption DEF Ids
<1>3. PICK one \in Seq(Ids) : one = <<1>>
  <2>1. \A n \in Ids : <<n>> \in Seq(Ids)
    OBVIOUS
  <2> QED BY <1>2, <2>1
<1>4. Len(one) = 1 /\ Rising(one) /\ Len(one) <= QueueMax /\ one # <<>> /\ Tail(one) = <<>>
  BY <1>3, AgentAssumption DEF Rising
<1>5. PICK s : s = [screen EXCEPT !.queue = one]
  OBVIOUS
<1>6. s \in Screens /\ s.queue = one
  BY <1>1, <1>5 DEF TypeOK, Screens
<1>7. screen' = ShowNext(s)
  BY <1>1, <1>3, <1>5
<1>8. screen' \in Screens /\ Orderly(screen') /\ screen'.queue = <<>>
  BY <1>4, <1>6, <1>7, ShowNextIs
<1>9. TypeOK'
  BY <1>1, <1>8 DEF TypeOK, Screens
<1>10. LinkInv'
  BY <1>1 DEF LinkInv
<1>11. BurstKeepsNewest' /\ Accepted' = Accepted
  BY <1>1, BurstSame
<1>12. InboxInv'
  BY <1>1, <1>11 DEF InboxInv
<1>13. ScreenInv'
  <2>1. Accepted = {} /\ \A n \in Ids : fate[n] # "queued"
    BY <1>1 DEF ScreenInv, Accepted
  <2>2. Range(screen'.queue) = {}
    BY <1>8 DEF Range
  <2> QED BY <1>1, <1>8, <1>11, <2>1, <2>2 DEF ScreenInv, Orderly
<1>14. AskInv'
  BY <1>1 DEF AskInv
<1> QED BY <1>9, <1>10, <1>11, <1>12, <1>13, <1>14 DEF AgentInv

(* The requests that a connection takes with it.                           *)
LEMMA LostIs ==
    ASSUME AgentInv, outbox' = <<>>, asks' = Lost, UNCHANGED <<handled, mode>>
    PROVE  /\ asks' \in [Ids -> Asks]
           /\ Rising(handled' \o outbox')
           /\ \A n \in Ids : /\ asks'[n] = "sent" <=> n \in Range(outbox')
                             /\ asks'[n] = "handled" <=> n \in Range(handled')
                             /\ asks'[n] # "no" => asks[n] # "no"
                             /\ mode' = "idle" => asks'[n] = "no"
<1>1. /\ asks \in [Ids -> Asks] /\ handled \in Seq(Ids) /\ outbox \in Seq(Ids)
      /\ Rising(handled \o outbox) /\ Ids \subseteq Int
      /\ \A n \in Ids : /\ asks[n] = "sent" <=> n \in Range(outbox)
                        /\ asks[n] = "handled" <=> n \in Range(handled)
      /\ mode = "idle" => \A n \in Ids : asks[n] = "no"
  BY IdsAre DEF AgentInv, TypeOK, AskInv
<1>2. asks' = [n \in Ids |-> IF n \in Range(outbox) THEN "lost" ELSE asks[n]]
  BY DEF Lost
<1>3. asks' \in [Ids -> Asks]
  BY <1>1, <1>2 DEF Asks
<1>4. Range(outbox') = {}
  BY DEF Range
<1>5. Rising(handled' \o outbox')
  <2>1. Rising(handled)
    BY <1>1, ConcatIs
  <2>2. handled' \o outbox' = handled
    BY <1>1
  <2> QED BY <2>1, <2>2
<1> QED BY <1>1, <1>2, <1>3, <1>4, <1>5

(* What was asked from a popup that was shown, when the next one is.       *)
LEMMA AskShown ==
    ASSUME AgentInv, mode = "live", NEW n \in Ids, asks[n] # "no",
           fate[n] = "shown" =>
                 /\ fate'[n] = "shown"
                 /\ OnScreen' => screen'.popup = screen.popup \/ n < screen'.popup.alert
    PROVE  /\ fate'[n] = "shown"
           /\ OnScreen' => \/ n < screen'.popup.alert
                           \/ n = screen'.popup.alert /\ screen'.popup.sticky
<1>1. fate[n] = "shown"
  BY DEF AgentInv, AskInv
<1>2. OnScreen => \/ n < screen.popup.alert
                  \/ n = screen.popup.alert /\ screen.popup.sticky
  BY DEF AgentInv, AskInv
<1> QED BY <1>1, <1>2 DEF OnScreen

LEMMA OnHangupKeeps == AgentInv /\ OnHangup => AgentInv'
<1> SUFFICES ASSUME AgentInv, OnHangup PROVE AgentInv'
  OBVIOUS
<1>1. /\ TypeOK /\ LinkInv /\ InboxInv /\ ScreenInv /\ AskInv /\ BurstKeepsNewest
      /\ UNCHANGED <<daemon, stops, raised, mode, screen, asks, handled>>
      /\ link' = "none" /\ source' = FALSE /\ inbox' = <<>> /\ outbox' = <<>> /\ retry' = TRUE
      /\ link = "hup" /\ mode = "live" /\ outbox = <<>>
      /\ fate' = [n \in Ids |-> IF n \in Range(inbox) THEN "discarded" ELSE fate[n]]
  BY DEF AgentInv, LinkInv, OnHangup, Disconnected, askVars, worldVars
<1>2. PICK read : read = <<>>
  OBVIOUS
<1>3. PICK D : D = Range(inbox)
  OBVIOUS
<1>4. Range(read) = {} /\ Range(inbox') = {} /\ Rising(inbox') /\ inbox' \in Seq(Ids)
      /\ read \in Seq(Ids)
  BY <1>1, <1>2 DEF Range, Rising
<1>5. Keeps(screen, screen', {n \in Range(read) : Interesting(n)})
  <2>1. {n \in Range(read) : Interesting(n)} = {}
    BY <1>4
  <2>2. Keeps(screen, screen, {})
    BY <1>1 DEF Keeps, ScreenInv, TypeOK, Screens
  <2> QED BY <1>1, <2>1, <2>2
<1>6. fate' = Told(screen', read, D)
  <2> SUFFICES ASSUME NEW n \in Ids, n \notin D PROVE FateIn(screen, read, n) = fate[n]
    BY <1>1, <1>3 DEF Told, FateIn
  <2>1. fate[n] = "queued" <=> n \in Range(screen.queue)
    BY <1>1 DEF ScreenInv
  <2>2. n = screen.popup.alert => fate[n] = "shown"
    <3>1. n = screen.popup.alert => OnScreen
      BY IdsAre DEF OnScreen, NoPopup
    <3> QED BY <1>1, <3>1 DEF ScreenInv
  <2> QED BY <1>4, <2>1, <2>2 DEF FateIn
<1>7. Telling(screen', read, D, fate')
  BY <1>3, <1>4, <1>5, <1>6 DEF Telling
<1>8. /\ fate' \in [Ids -> Fates] /\ InboxInv' /\ ScreenInv' /\ BurstKeepsNewest'
      /\ \A n \in Ids : fate[n] = "shown" =>
            /\ fate'[n] = "shown"
            /\ OnScreen' => screen'.popup = screen.popup \/ n < screen'.popup.alert
  BY <1>1, <1>2, <1>4, <1>7, ShowsIs
<1>9. TypeOK'
  BY <1>1, <1>4, <1>8 DEF TypeOK
<1>10. LinkInv'
  BY <1>1 DEF LinkInv
<1>11. AskInv'
  BY <1>1, <1>8, AskShown DEF AskInv
<1> QED BY <1>8, <1>9, <1>10, <1>11 DEF AgentInv

(* Everything that is read is behind what is on the screen.                *)
LEMMA ReadBehind ==
    ASSUME AgentInv, mode = "live", NEW y \in Range(inbox)
    PROVE  screen.popup.alert < y /\ \A x \in Range(screen.queue) : x < y
<1>1. /\ TypeOK /\ InboxInv /\ ScreenInv
  BY DEF AgentInv
<1>2. y \in Ids /\ Range(screen.queue) \subseteq Ids
  BY <1>1, RangeIs DEF TypeOK
<1>3. ASSUME NEW x \in Range(screen.queue) PROVE x < y
  <2>1. x \in Accepted
    BY <1>1, <1>2 DEF ScreenInv, Accepted
  <2> QED BY <1>1, <2>1 DEF InboxInv
<1>4. screen.popup.alert < y
  <2>1. CASE OnScreen
    <3>1. screen.popup.alert \in Ids
      BY <1>1, <2>1, PopupIs DEF TypeOK, OnScreen, Popups
    <3>2. screen.popup.alert \in Accepted
      BY <1>1, <2>1, <3>1 DEF ScreenInv, Accepted
    <3> QED BY <1>1, <3>2 DEF InboxInv
  <2>2. CASE ~OnScreen
    BY <1>2, <2>2, IdsAre DEF OnScreen, NoPopup
  <2> QED BY <2>1, <2>2
<1> QED BY <1>3, <1>4

LEMMA OnReadableKeeps == AgentInv /\ OnReadable => AgentInv'
<1> SUFFICES ASSUME AgentInv, OnReadable PROVE AgentInv'
  OBVIOUS
<1>1. /\ TypeOK /\ LinkInv /\ InboxInv /\ ScreenInv /\ AskInv /\ BurstKeepsNewest
      /\ UNCHANGED <<daemon, stops, raised, mode, link, outbox, source, retry, asks, handled>>
      /\ inbox' = <<>> /\ mode = "live" /\ mode' = mode /\ link = "open"
      /\ screen' = EnqueueAll(screen, inbox)
      /\ fate' = [n \in Ids |-> FateIn(screen', inbox, n)]
  BY DEF AgentInv, LinkInv, OnReadable, Display, askVars, worldVars
<1>2. PICK read : read = inbox
  OBVIOUS
<1>3. PICK D : D = {}
  OBVIOUS
<1>4. /\ Range(inbox') = {} /\ Rising(inbox') /\ inbox' \in Seq(Ids) /\ read \in Seq(Ids)
      /\ Rising(read) /\ screen \in Screens /\ Orderly(screen)
  BY <1>1, <1>2 DEF Range, Rising, TypeOK, Screens, InboxInv, ScreenInv
<1>5. Keeps(screen, screen', {n \in Range(read) : Interesting(n)})
  <2>1. \A y \in Range(read) : screen.popup.alert < y /\ \A x \in Range(screen.queue) : x < y
    BY <1>1, <1>2, ReadBehind
  <2>2. PICK T : T = {n \in Range(read) : Interesting(n)}
    OBVIOUS
  <2>3. PICK s \in Screens : s = screen
    BY <1>4
  <2>4. Keeps(s, EnqueueAll(s, read), T)
    BY <1>4, <2>1, <2>2, <2>3, EnqueueAllKeeps
  <2> QED BY <1>1, <1>2, <2>2, <2>3, <2>4
<1>6. fate' = Told(screen', read, D)
  BY <1>1, <1>2, <1>3 DEF Told
<1>7. Telling(screen', read, D, fate')
  BY <1>2, <1>3, <1>4, <1>5, <1>6 DEF Telling
<1>8. /\ screen' \in Screens /\ fate' \in [Ids -> Fates]
      /\ InboxInv' /\ ScreenInv' /\ BurstKeepsNewest'
      /\ \A n \in Ids : fate[n] = "shown" =>
            /\ fate'[n] = "shown"
            /\ OnScreen' => screen'.popup = screen.popup \/ n < screen'.popup.alert
  BY <1>1, <1>4, <1>7, ShowsIs
<1>9. TypeOK'
  BY <1>1, <1>4, <1>8 DEF TypeOK, Screens
<1>10. LinkInv'
  BY <1>1 DEF LinkInv
<1>11. AskInv'
  BY <1>1, <1>8, AskShown DEF AskInv
<1> QED BY <1>8, <1>9, <1>10, <1>11 DEF AgentInv

LEMMA OnFloodedKeeps == AgentInv /\ OnFlooded => AgentInv'
<1> SUFFICES ASSUME AgentInv, OnFlooded PROVE AgentInv'
  OBVIOUS
<1>1. PICK read : read = SubSeq(inbox, 1, FillMax + 1)
  OBVIOUS
<1>2. PICK D : D = Range(inbox) \ Range(read)
  OBVIOUS
<1>3. /\ TypeOK /\ LinkInv /\ InboxInv /\ ScreenInv /\ AskInv /\ BurstKeepsNewest
      /\ UNCHANGED <<daemon, stops, raised, mode, handled>>
      /\ link' = "none" /\ source' = FALSE /\ inbox' = <<>> /\ outbox' = <<>> /\ retry' = TRUE
      /\ mode = "live" /\ asks' = Lost /\ Len(inbox) > FillMax + 1
      /\ screen' = EnqueueAll(screen, read)
      /\ fate' = [n \in Ids |-> IF n \in D THEN "discarded" ELSE FateIn(screen', read, n)]
  BY <1>1, <1>2 DEF AgentInv, LinkInv, OnFlooded, Disconnected, worldVars
<1>4. read \in Seq(Ids) /\ Rising(read) /\ Range(read) \subseteq Range(inbox)
  <2>1. PICK a \in Nat \ {0} : a = 1
    OBVIOUS
  <2>2. PICK b \in Nat : b = FillMax + 1
    BY AgentAssumption
  <2>3. inbox \in Seq(Ids) /\ Rising(inbox) /\ Ids \subseteq Int
    BY <1>3, IdsAre DEF TypeOK, InboxInv
  <2>4. b <= Len(inbox) /\ a <= b + 1
    BY <1>3, <2>1, <2>2, <2>3
  <2>5. /\ SubSeq(inbox, a, b) \in Seq(Ids)
        /\ Range(SubSeq(inbox, a, b)) \subseteq Range(inbox)
        /\ Rising(inbox) => Rising(SubSeq(inbox, a, b))
    BY <2>3, <2>4, SubSeqIs
  <2> QED BY <1>1, <2>1, <2>2, <2>3, <2>5
<1>5. /\ Range(inbox') = {} /\ Rising(inbox') /\ inbox' \in Seq(Ids)
      /\ screen \in Screens /\ Orderly(screen)
  BY <1>3 DEF Range, Rising, TypeOK, Screens, ScreenInv
<1>6. Keeps(screen, screen', {n \in Range(read) : Interesting(n)})
  <2>1. \A y \in Range(read) : screen.popup.alert < y /\ \A x \in Range(screen.queue) : x < y
    BY <1>3, <1>4, ReadBehind
  <2>2. PICK T : T = {n \in Range(read) : Interesting(n)}
    OBVIOUS
  <2>3. PICK s \in Screens : s = screen
    BY <1>5
  <2>4. Keeps(s, EnqueueAll(s, read), T)
    BY <1>4, <1>5, <2>1, <2>2, <2>3, EnqueueAllKeeps
  <2> QED BY <1>3, <2>2, <2>3, <2>4
<1>7. Telling(screen', read, D, fate')
  BY <1>2, <1>3, <1>4, <1>6 DEF Telling, Told
<1>8. /\ screen' \in Screens /\ fate' \in [Ids -> Fates]
      /\ InboxInv' /\ ScreenInv' /\ BurstKeepsNewest'
      /\ \A n \in Ids : fate[n] = "shown" =>
            /\ fate'[n] = "shown"
            /\ OnScreen' => screen'.popup = screen.popup \/ n < screen'.popup.alert
  BY <1>3, <1>5, <1>7, ShowsIs
<1>9. /\ asks' \in [Ids -> Asks] /\ Rising(handled' \o outbox')
      /\ \A n \in Ids : /\ asks'[n] = "sent" <=> n \in Range(outbox')
                        /\ asks'[n] = "handled" <=> n \in Range(handled')
                        /\ asks'[n] # "no" => asks[n] # "no"
  BY <1>3, LostIs
<1>10. TypeOK'
  BY <1>3, <1>5, <1>8, <1>9 DEF TypeOK, Screens
<1>11. LinkInv'
  BY <1>3 DEF LinkInv
<1>12. AskInv'
  BY <1>3, <1>8, <1>9, AskShown DEF AskInv
<1> QED BY <1>8, <1>10, <1>11, <1>12 DEF AgentInv

(***************************************************************************)
(* The popup.                                                              *)
(***************************************************************************)

LEMMA DestroyedKeeps == AgentInv /\ OnScreen /\ Destroyed => AgentInv'
<1> SUFFICES ASSUME AgentInv, OnScreen, Destroyed PROVE AgentInv'
  OBVIOUS
<1>1. /\ TypeOK /\ LinkInv /\ InboxInv /\ ScreenInv /\ AskInv /\ BurstKeepsNewest
      /\ UNCHANGED <<daemon, stops, raised, link, inbox, outbox, source, retry, asks, handled>>
      /\ screen' = ShowNext(screen) /\ mode # "idle"
      /\ mode = "live" => fate' = [n \in Ids |-> FateIn(screen', <<>>, n)]
      /\ mode # "live" => fate' = fate
      /\ mode' = IF mode = "demo" /\ screen.queue = <<>> THEN "quit" ELSE mode
  BY DEF AgentInv, ScreenInv, Destroyed, Display, askVars, worldVars, linkVars
<1>2. screen \in Screens /\ Orderly(screen) /\ Rising(screen.queue) /\ Len(screen.queue) <= QueueMax
  BY <1>1 DEF TypeOK, Screens, ScreenInv, Orderly
<1>3. CASE mode = "live"
  <2>1. PICK read : read = <<>>
    OBVIOUS
  <2>2. PICK D : D = {}
    OBVIOUS
  <2>3. /\ Range(read) = {} /\ read \in Seq(Ids) /\ inbox' \in Seq(Ids) /\ Rising(inbox')
        /\ Range(inbox') \subseteq Range(inbox) \ (Range(read) \cup D) /\ mode' = mode
    BY <1>1, <1>3, <2>1, <2>2 DEF Range, TypeOK, InboxInv
  <2>4. Keeps(screen, screen', {n \in Range(read) : Interesting(n)})
    <3>1. PICK T : T = {n \in Range(read) : Interesting(n)}
      OBVIOUS
    <3>2. T = {}
      BY <2>3, <3>1
    <3>3. PICK s \in Screens : s = screen
      BY <1>2
    <3>4. Keeps(s, ShowNext(s), T)
      BY <1>2, <3>2, <3>3, ShowNextKeeps
    <3> QED BY <1>1, <3>1, <3>3, <3>4
  <2>5. fate' = Told(screen', read, D)
    BY <1>1, <1>3, <2>1, <2>2 DEF Told
  <2>6. Telling(screen', read, D, fate')
    BY <2>2, <2>3, <2>4, <2>5 DEF Telling
  <2>7. /\ screen' \in Screens /\ fate' \in [Ids -> Fates]
        /\ InboxInv' /\ ScreenInv' /\ BurstKeepsNewest'
        /\ \A n \in Ids : fate[n] = "shown" =>
              /\ fate'[n] = "shown"
              /\ OnScreen' => screen'.popup = screen.popup \/ n < screen'.popup.alert
    BY <1>1, <1>3, <2>1, <2>3, <2>6, ShowsIs
  <2>8. TypeOK'
    BY <1>1, <1>3, <2>3, <2>7 DEF TypeOK, Screens
  <2>9. LinkInv'
    BY <1>1, <2>3 DEF LinkInv
  <2>10. AskInv'
    BY <1>1, <1>3, <2>3, <2>7, AskShown DEF AskInv
  <2> QED BY <2>7, <2>8, <2>9, <2>10 DEF AgentInv
<1>4. CASE mode # "live"
  <2>1. /\ screen.queue = <<>> /\ fate' = fate /\ Accepted = {} /\ mode \in {"demo", "quit"}
        /\ mode' \in {"demo", "quit"}
    BY <1>1, <1>4 DEF ScreenInv, TypeOK
  <2>2. /\ screen' \in Screens /\ Orderly(screen') /\ screen'.queue = <<>>
        /\ screen'.popup = NoPopup
    BY <1>1, <1>2, <2>1, ShowNextIs
  <2>3. TypeOK'
    BY <1>1, <2>1, <2>2 DEF TypeOK, Screens
  <2>4. LinkInv'
    BY <1>1, <1>4, <2>1 DEF LinkInv
  <2>5. BurstKeepsNewest' /\ Accepted' = Accepted
    BY <1>1, <2>1, BurstSame
  <2>6. InboxInv'
    BY <1>1, <2>1, <2>5 DEF InboxInv
  <2>7. ScreenInv'
    BY <1>1, <2>1, <2>2, <2>5 DEF ScreenInv, OnScreen, Orderly
  <2>8. AskInv'
    BY <1>1, <2>1, <2>2 DEF AskInv, OnScreen
  <2> QED BY <2>3, <2>4, <2>5, <2>6, <2>7, <2>8 DEF AgentInv
<1> QED BY <1>3, <1>4

LEMMA StickyIs ==
    ASSUME NEW n, NEW b, NEW v
    PROVE  [[alert |-> n, sticky |-> b] EXCEPT !.sticky = v] = [alert |-> n, sticky |-> v]
OBVIOUS

LEMMA ExcludeClickedKeeps == AgentInv /\ ExcludeClicked => AgentInv'
<1> SUFFICES ASSUME AgentInv, ExcludeClicked PROVE AgentInv'
  OBVIOUS
<1>1. PICK n : n = screen.popup.alert
  OBVIOUS
<1>2. /\ TypeOK /\ LinkInv /\ InboxInv /\ ScreenInv /\ AskInv /\ BurstKeepsNewest
      /\ UNCHANGED <<daemon, stops, raised, mode, link, inbox, source, retry, fate, handled>>
      /\ OnScreen /\ ~screen.popup.sticky /\ SendExclude(n)
      /\ screen' = [screen EXCEPT !.popup.sticky = TRUE]
  BY <1>1 DEF AgentInv, ExcludeClicked, worldVars
<1>3. PICK p \in Popups : p = screen.popup
  BY <1>2 DEF OnScreen, TypeOK
<1>4. n \in Ids /\ p = [alert |-> n, sticky |-> p.sticky] /\ p # NoPopup
  BY <1>1, <1>3, PopupIs DEF Popups
<1>5. /\ screen' \in Screens /\ screen'.queue = screen.queue /\ screen'.showing = screen.showing
      /\ screen'.popup = [alert |-> n, sticky |-> TRUE]
  <2>1. screen' = [screen EXCEPT !.popup = [alert |-> n, sticky |-> TRUE]]
    <3>1. [p EXCEPT !.sticky = TRUE] = [alert |-> n, sticky |-> TRUE]
      <4>1. PICK b : b = p.sticky
        OBVIOUS
      <4>2. p = [alert |-> n, sticky |-> b]
        BY <1>4, <4>1, Zenon
      <4>3. [[alert |-> n, sticky |-> b] EXCEPT !.sticky = TRUE]
              = [alert |-> n, sticky |-> TRUE]
        BY StickyIs, Zenon
      <4> QED BY <4>2, <4>3, Zenon
    <3>2. screen' = [screen EXCEPT !.popup = [p EXCEPT !.sticky = TRUE]]
      BY <1>2, <1>3
    <3> QED BY <3>1, <3>2
  <2>2. [alert |-> n, sticky |-> TRUE] \in Popups
    BY <1>4, PopupIs
  <2> QED BY <1>2, <2>1, <2>2 DEF TypeOK, Screens
<1>6. /\ screen'.popup # NoPopup /\ screen'.popup.alert = n /\ screen'.popup.sticky
      /\ OnScreen' /\ mode # "idle"
  <2>1. [alert |-> n, sticky |-> TRUE] # NoPopup
    BY <1>4, PopupIs
  <2>2. screen'.popup # NoPopup /\ screen'.popup.alert = n /\ screen'.popup.sticky
    BY <1>5, <2>1
  <2>3. mode # "idle"
    BY <1>2 DEF ScreenInv
  <2> QED BY <2>2, <2>3 DEF OnScreen
<1>7. BurstKeepsNewest' /\ Accepted' = Accepted
  BY <1>2, BurstSame
<1>8. InboxInv'
  BY <1>2, <1>7 DEF InboxInv
<1>9. ScreenInv'
  BY <1>1, <1>2, <1>5, <1>6, <1>7 DEF ScreenInv, Orderly, OnScreen
<1>10. /\ handled \in Seq(Ids) /\ outbox \in Seq(Ids) /\ Ids \subseteq Int
       /\ asks \in [Ids -> Asks]
  BY <1>2, IdsAre DEF TypeOK
<1>11. \A m \in Ids : asks[m] # "no" => m < n
  BY <1>1, <1>2 DEF AskInv
<1>12. asks[n] = "no"
  <2>1. ~(n < n)
    BY <1>4, <1>10
  <2> QED BY <1>4, <1>11, <2>1
<1>13. mode = "live" => fate[n] = "shown"
  BY <1>1, <1>2 DEF ScreenInv
<1>14. CASE link = "open"
  <2>1. /\ outbox' = Append(outbox, n) /\ asks' = [asks EXCEPT ![n] = "sent"]
    BY <1>2, <1>14 DEF SendExclude
  <2>2. /\ outbox' \in Seq(Ids) /\ Range(outbox') = Range(outbox) \cup {n}
        /\ Rising(outbox) /\ (\A y \in Range(outbox) : y < n) => Rising(outbox')
    BY <1>4, <1>10, <2>1, AppendIs
  <2>3. \A m \in Ids : asks'[m] = IF m = n THEN "sent" ELSE asks[m]
    BY <1>10, <2>1
  <2>4. asks' \in [Ids -> Asks]
    BY <1>4, <1>10, <2>1 DEF Asks
  <2>5. /\ Rising(handled) /\ Rising(outbox)
        /\ \A x \in Range(handled), y \in Range(outbox) : x < y
    BY <1>2, <1>10, ConcatIs DEF AskInv
  <2>6. \A m \in Range(handled) \cup Range(outbox) : m \in Ids /\ m < n /\ m # n
    <3>1. Range(handled) \subseteq Ids /\ Range(outbox) \subseteq Ids
      BY <1>10, RangeIs
    <3>2. \A m \in Range(handled) \cup Range(outbox) : asks[m] # "no"
      BY <1>2, <3>1 DEF AskInv
    <3> QED BY <1>11, <1>12, <3>1, <3>2
  <2>7. Rising(handled' \o outbox')
    <3>1. Rising(outbox')
      BY <2>2, <2>5, <2>6
    <3>2. \A x \in Range(handled), y \in Range(outbox') : x < y
      BY <2>2, <2>5, <2>6
    <3> QED BY <1>2, <1>10, <2>2, <2>5, <3>1, <3>2, ConcatIs
  <2>8. TypeOK'
    BY <1>2, <1>5, <2>2, <2>4 DEF TypeOK, Screens
  <2>9. LinkInv'
    BY <1>2, <1>14 DEF LinkInv
  <2>10. AskInv'
    <3> SUFFICES ASSUME NEW m \in Ids
                 PROVE  /\ asks'[m] = "sent" <=> m \in Range(outbox')
                        /\ asks'[m] = "handled" <=> m \in Range(handled)
                        /\ asks'[m] # "no" /\ mode = "live" => fate[m] = "shown"
                        /\ asks'[m] # "no" => m < n \/ m = n
      BY <1>2, <1>6, <2>7 DEF AskInv
    <3>1. CASE m = n
      BY <1>13, <2>2, <2>3, <2>6, <3>1
    <3>2. CASE m # n
      BY <1>2, <1>11, <2>2, <2>3, <3>2 DEF AskInv
    <3> QED BY <3>1, <3>2
  <2> QED BY <1>7, <1>8, <1>9, <2>8, <2>9, <2>10 DEF AgentInv
<1>15. CASE link # "open"
  <2>1. /\ outbox' = outbox /\ asks' = [asks EXCEPT ![n] = "nowhere"]
    BY <1>2, <1>15 DEF SendExclude
  <2>2. \A m \in Ids : asks'[m] = IF m = n THEN "nowhere" ELSE asks[m]
    BY <1>10, <2>1
  <2>3. asks' \in [Ids -> Asks]
    BY <1>4, <1>10, <2>1 DEF Asks
  <2>4. TypeOK'
    BY <1>2, <1>5, <2>1, <2>3 DEF TypeOK, Screens
  <2>5. LinkInv'
    BY <1>2, <2>1 DEF LinkInv
  <2>6. n \notin Range(outbox) /\ n \notin Range(handled)
    BY <1>2, <1>4, <1>12 DEF AskInv
  <2>7. AskInv'
    <3> SUFFICES ASSUME NEW m \in Ids
                 PROVE  /\ asks'[m] = "sent" <=> m \in Range(outbox)
                        /\ asks'[m] = "handled" <=> m \in Range(handled)
                        /\ asks'[m] # "no" /\ mode = "live" => fate[m] = "shown"
                        /\ asks'[m] # "no" => m < n \/ m = n
      BY <1>2, <1>6, <2>1 DEF AskInv
    <3>1. CASE m = n
      BY <1>13, <2>2, <2>6, <3>1
    <3>2. CASE m # n
      BY <1>2, <1>11, <2>2, <3>2 DEF AskInv
    <3> QED BY <3>1, <3>2
  <2> QED BY <1>7, <1>8, <1>9, <2>4, <2>5, <2>7 DEF AgentInv
<1> QED BY <1>14, <1>15

(***************************************************************************)
(* The daemon.                                                             *)
(***************************************************************************)

LEMMA DaemonStartsKeeps == AgentInv /\ DaemonStarts => AgentInv'
<1> SUFFICES ASSUME AgentInv, DaemonStarts PROVE AgentInv'
  OBVIOUS
<1>1. /\ TypeOK /\ LinkInv /\ InboxInv /\ ScreenInv /\ AskInv /\ BurstKeepsNewest
      /\ UNCHANGED <<mode, stops, link, inbox, outbox, source, retry, screen, raised, fate,
                     asks, handled>>
      /\ daemon' = TRUE
  BY DEF AgentInv, DaemonStarts, askVars, linkVars
<1>2. BurstKeepsNewest' /\ Accepted' = Accepted
  BY <1>1, BurstSame
<1>3. TypeOK' /\ LinkInv'
  BY <1>1 DEF TypeOK, LinkInv
<1>4. InboxInv'
  BY <1>1, <1>2 DEF InboxInv
<1>5. ScreenInv'
  BY <1>1, <1>2 DEF ScreenInv, Orderly, OnScreen
<1>6. AskInv'
  BY <1>1 DEF AskInv, OnScreen
<1> QED BY <1>2, <1>3, <1>4, <1>5, <1>6 DEF AgentInv

LEMMA HandleRequestKeeps == AgentInv /\ HandleRequest => AgentInv'
<1> SUFFICES ASSUME AgentInv, HandleRequest PROVE AgentInv'
  OBVIOUS
<1>1. PICK h : h = Head(outbox)
  OBVIOUS
<1>2. /\ TypeOK /\ LinkInv /\ InboxInv /\ ScreenInv /\ AskInv /\ BurstKeepsNewest
      /\ UNCHANGED <<mode, daemon, stops, raised, link, inbox, source, retry, screen, fate>>
      /\ link = "open" /\ outbox # <<>> /\ asks' = [asks EXCEPT ![h] = "handled"]
      /\ handled' = Append(handled, h) /\ outbox' = Tail(outbox)
  BY <1>1 DEF AgentInv, HandleRequest, worldVars
<1>3. /\ handled \in Seq(Ids) /\ outbox \in Seq(Ids) /\ Ids \subseteq Int
      /\ asks \in [Ids -> Asks]
  BY <1>2, IdsAre DEF TypeOK
<1>4. /\ h \in Ids /\ outbox' \in Seq(Ids) /\ Range(outbox) = {h} \cup Range(outbox')
      /\ Rising(outbox) => Rising(outbox') /\ \A x \in Range(outbox') : h < x
  BY <1>1, <1>2, <1>3, TailIs
<1>5. /\ handled' \in Seq(Ids) /\ Range(handled') = Range(handled) \cup {h}
      /\ Rising(handled) /\ (\A y \in Range(handled) : y < h) => Rising(handled')
  <2>1. /\ Append(handled, h) \in Seq(Ids) /\ Len(Append(handled, h)) = Len(handled) + 1
        /\ Range(Append(handled, h)) = Range(handled) \cup {h}
        /\ Rising(handled) /\ (\A y \in Range(handled) : y < h) => Rising(Append(handled, h))
    <3>1. Ids \subseteq Int /\ handled \in Seq(Ids) /\ h \in Ids
      BY <1>3, <1>4
    <3> QED BY <3>1, AppendIs, Zenon
  <2> QED BY <1>2, <2>1, Zenon
<1>6. /\ Rising(handled) /\ Rising(outbox)
      /\ \A x \in Range(handled), y \in Range(outbox) : x < y
  BY <1>2, <1>3, ConcatIs DEF AskInv
<1>7. Rising(handled' \o outbox')
  <2>1. Rising(handled') /\ Rising(outbox')
    BY <1>4, <1>5, <1>6
  <2>2. \A x \in Range(handled'), y \in Range(outbox') : x < y
    BY <1>4, <1>5, <1>6
  <2> QED BY <1>3, <1>4, <1>5, <2>1, <2>2, ConcatIs
<1>8. \A m \in Ids : asks'[m] = IF m = h THEN "handled" ELSE asks[m]
  BY <1>2, <1>3
<1>9. asks' \in [Ids -> Asks]
  BY <1>2, <1>3, <1>4 DEF Asks
<1>10. h \notin Range(outbox') /\ asks[h] = "sent"
  <2>1. \A x \in Range(outbox') : h < x
    BY <1>4, <1>6
  <2>2. ~(h < h)
    BY <1>3, <1>4
  <2> QED BY <1>2, <1>4, <2>1, <2>2 DEF AskInv
<1>11. BurstKeepsNewest' /\ Accepted' = Accepted
  BY <1>2, BurstSame
<1>12. TypeOK'
  BY <1>2, <1>4, <1>5, <1>9 DEF TypeOK
<1>13. LinkInv'
  BY <1>2 DEF LinkInv
<1>14. InboxInv'
  BY <1>2, <1>11 DEF InboxInv
<1>15. ScreenInv'
  BY <1>2, <1>11 DEF ScreenInv, Orderly, OnScreen
<1>16. AskInv'
  <2>1. ASSUME NEW m \in Ids
        PROVE  /\ asks'[m] = "sent" <=> m \in Range(outbox')
               /\ asks'[m] = "handled" <=> m \in Range(handled')
               /\ asks'[m] # "no" <=> asks[m] # "no"
    <3>1. CASE m = h
      BY <1>5, <1>8, <1>10, <3>1
    <3>2. CASE m # h
      BY <1>2, <1>4, <1>5, <1>8, <3>2 DEF AskInv
    <3> QED BY <3>1, <3>2
  <2> QED BY <1>2, <1>7, <2>1 DEF AskInv, OnScreen
<1> QED BY <1>11, <1>12, <1>13, <1>14, <1>15, <1>16 DEF AgentInv

LEMMA DaemonStopsKeeps == AgentInv /\ DaemonStops => AgentInv'
<1> SUFFICES ASSUME AgentInv, DaemonStops PROVE AgentInv'
  OBVIOUS
<1>1. /\ TypeOK /\ LinkInv /\ InboxInv /\ ScreenInv /\ AskInv /\ BurstKeepsNewest
      /\ UNCHANGED <<mode, inbox, source, retry, screen, raised, fate, handled>>
      /\ daemon' \in BOOLEAN /\ stops < MaxStops /\ stops' = stops + 1
      /\ link' = IF link = "open" THEN "hup" ELSE link
      /\ outbox' = <<>> /\ asks' = Lost
  BY DEF AgentInv, DaemonStops
<1>2. /\ asks' \in [Ids -> Asks] /\ Rising(handled' \o outbox')
      /\ \A n \in Ids : /\ asks'[n] = "sent" <=> n \in Range(outbox')
                        /\ asks'[n] = "handled" <=> n \in Range(handled')
                        /\ asks'[n] # "no" => asks[n] # "no"
                        /\ mode' = "idle" => asks'[n] = "no"
  BY <1>1, LostIs
<1>3. stops' \in 0..MaxStops
  BY <1>1, AgentAssumption DEF TypeOK
<1>4. TypeOK'
  BY <1>1, <1>2, <1>3 DEF TypeOK
<1>5. LinkInv'
  BY <1>1 DEF LinkInv
<1>6. BurstKeepsNewest' /\ Accepted' = Accepted
  BY <1>1, BurstSame
<1>7. InboxInv'
  BY <1>1, <1>6 DEF InboxInv
<1>8. ScreenInv'
  BY <1>1, <1>6 DEF ScreenInv, Orderly, OnScreen
<1>9. AskInv'
  BY <1>1, <1>2 DEF AskInv, OnScreen
<1> QED BY <1>4, <1>5, <1>6, <1>7, <1>8, <1>9 DEF AgentInv

LEMMA RaiseKeeps ==
    ASSUME AgentInv, NEW kind \in Kinds, Raise(kind)
    PROVE  AgentInv'
<1>1. PICK n : n = Len(raised) + 1
  OBVIOUS
<1>2. /\ TypeOK /\ LinkInv /\ InboxInv /\ ScreenInv /\ AskInv /\ BurstKeepsNewest
      /\ UNCHANGED <<mode, daemon, stops, link, outbox, source, retry, screen, asks, handled>>
      /\ n <= MaxAlerts /\ raised' = Append(raised, kind)
      /\ inbox' = IF link = "open" THEN Append(inbox, n) ELSE inbox
      /\ fate' = [fate EXCEPT ![n] = IF link = "open" THEN "sent" ELSE "missed"]
  BY <1>1 DEF AgentInv, Raise, askVars
<1>3. /\ raised \in Seq(Kinds) /\ inbox \in Seq(Ids) /\ fate \in [Ids -> Fates]
      /\ Ids \subseteq Int /\ Range(inbox) \subseteq Ids
  BY <1>2, IdsAre, RangeIs DEF TypeOK
<1>4. n \in Ids /\ n > Len(raised) /\ Len(raised) \in Nat
  BY <1>1, <1>2, <1>3, AgentAssumption DEF Ids
<1>5. raised' \in Seq(Kinds) /\ Len(raised') = n
  BY <1>1, <1>2, <1>3, AppendProperties
<1>6. fate[n] = "none"
  BY <1>2, <1>4 DEF InboxInv
<1>7. \A m \in Ids : fate'[m] = IF m = n THEN IF link = "open" THEN "sent" ELSE "missed" ELSE fate[m]
  BY <1>2, <1>3
<1>8. fate' \in [Ids -> Fates]
  BY <1>2, <1>3, <1>4 DEF Fates
<1>9. Accepted' = Accepted
  <2>1. \A m \in Ids : fate'[m] \in {"queued", "shown", "pushed out"}
                           <=> fate[m] \in {"queued", "shown", "pushed out"}
    BY <1>6, <1>7
  <2> QED BY <2>1 DEF Accepted
<1>10. \A m \in Ids : fate[m] # "none" => m < n
  <2> SUFFICES ASSUME NEW m \in Ids, fate[m] # "none" PROVE m < n
    OBVIOUS
  <2>1. ~(m > Len(raised))
    BY <1>2 DEF InboxInv
  <2> QED BY <1>1, <1>3, <1>4, <2>1
<1>11. \A m \in Range(inbox) \cup Accepted : m \in Ids /\ m < n
  <2>1. \A m \in Range(inbox) \cup Accepted : m \in Ids /\ fate[m] # "none"
    BY <1>2, <1>3 DEF InboxInv, Accepted
  <2> QED BY <1>10, <2>1
<1>12. /\ inbox' \in Seq(Ids) /\ Rising(inbox')
       /\ Range(inbox') = Range(inbox) \cup (IF link = "open" THEN {n} ELSE {})
  <2>1. Rising(inbox)
    BY <1>2 DEF InboxInv
  <2>2. CASE link = "open"
    <3>1. /\ Append(inbox, n) \in Seq(Ids) /\ Range(Append(inbox, n)) = Range(inbox) \cup {n}
          /\ Rising(inbox) /\ (\A y \in Range(inbox) : y < n) => Rising(Append(inbox, n))
      BY <1>3, <1>4, AppendIs
    <3> QED BY <1>2, <1>11, <2>1, <2>2, <3>1
  <2>3. CASE link # "open"
    BY <1>2, <1>3, <2>1, <2>3
  <2> QED BY <2>2, <2>3
<1>13. TypeOK'
  BY <1>2, <1>5, <1>8, <1>12 DEF TypeOK
<1>14. LinkInv'
  BY <1>2 DEF LinkInv
<1>15. InboxInv'
  <2>1. \A m \in Range(inbox') : fate'[m] = "sent"
    BY <1>2, <1>3, <1>4, <1>7, <1>11, <1>12 DEF InboxInv
  <2>2. \A m \in Ids : m > Len(raised') => fate'[m] = "none"
    <3> SUFFICES ASSUME NEW m \in Ids, m > n PROVE fate'[m] = "none"
      BY <1>5
    <3>1. m # n /\ m > Len(raised)
      BY <1>1, <1>3, <1>4
    <3> QED BY <1>2, <1>7, <3>1 DEF InboxInv
  <2>3. \A k \in Accepted', m \in Range(inbox') : k < m
    BY <1>2, <1>9, <1>11, <1>12 DEF InboxInv
  <2> QED BY <1>12, <2>1, <2>2, <2>3 DEF InboxInv
<1>16. \A m \in Ids : /\ fate'[m] = "queued" <=> fate[m] = "queued"
                      /\ fate'[m] = "shown" <=> fate[m] = "shown"
                      /\ fate'[m] = "pushed out" <=> fate[m] = "pushed out"
  BY <1>6, <1>7
<1>17. ScreenInv'
  <2>1. OnScreen => screen.popup.alert \in Ids
    BY <1>2, PopupIs DEF TypeOK, OnScreen, Popups
  <2> QED BY <1>2, <1>9, <1>16, <2>1 DEF ScreenInv, Orderly, OnScreen
<1>18. AskInv'
  BY <1>2, <1>16 DEF AskInv, OnScreen
<1>19. BurstKeepsNewest'
  <2>1. \A m \in Accepted : m \in Ids
    BY DEF Accepted
  <2> QED BY <1>2, <1>9, <1>16, <2>1 DEF BurstKeepsNewest
<1> QED BY <1>13, <1>14, <1>15, <1>17, <1>18, <1>19 DEF AgentInv

(***************************************************************************)
(* The theorems.                                                           *)
(***************************************************************************)

LEMMA StutterKeeps == AgentInv /\ UNCHANGED vars => AgentInv'
<1> SUFFICES ASSUME AgentInv, UNCHANGED vars PROVE AgentInv'
  OBVIOUS
<1>1. UNCHANGED <<mode, daemon, stops, link, inbox, outbox, source, retry, screen, raised, fate,
                  asks, handled>>
  BY DEF vars
<1>2. TypeOK' /\ LinkInv'
  BY <1>1 DEF AgentInv, TypeOK, LinkInv
<1>3. BurstKeepsNewest' /\ Accepted' = Accepted
  BY <1>1, BurstSame DEF AgentInv
<1>4. InboxInv'
  BY <1>1, <1>3 DEF AgentInv, InboxInv
<1>5. ScreenInv'
  BY <1>1, <1>3 DEF AgentInv, ScreenInv, Orderly, OnScreen
<1>6. AskInv'
  BY <1>1 DEF AgentInv, AskInv, OnScreen
<1> QED BY <1>2, <1>3, <1>4, <1>5, <1>6 DEF AgentInv

LEMMA NextKeeps == AgentInv /\ [Next]_vars => AgentInv'
<1> SUFFICES ASSUME AgentInv, [Next]_vars PROVE AgentInv'
  OBVIOUS
<1>1. CASE Activate
  BY <1>1, ActivateKeeps
<1>2. CASE ActivateDemo
  BY <1>2, ActivateDemoKeeps
<1>3. CASE OnRetry
  BY <1>3, OnRetryKeeps
<1>4. CASE OnSocketReady
  BY <1>4, OnHangupKeeps, OnReadableKeeps, OnFloodedKeeps DEF OnSocketReady
<1>5. CASE AutoDismiss
  BY <1>5, DestroyedKeeps DEF AutoDismiss
<1>6. CASE User
  BY <1>6, DestroyedKeeps, ExcludeClickedKeeps DEF User, Dismiss
<1>7. CASE Daemon
  BY <1>7, DaemonStartsKeeps, DaemonStopsKeeps, HandleRequestKeeps, RaiseKeeps DEF Daemon
<1>8. CASE UNCHANGED vars
  BY <1>8, StutterKeeps
<1> QED BY <1>1, <1>2, <1>3, <1>4, <1>5, <1>6, <1>7, <1>8 DEF Next

LEMMA AgentInvariant == Spec => []AgentInv
<1>1. Init => AgentInv
  BY InitHolds
<1>2. AgentInv /\ [Next]_vars => AgentInv'
  BY NextKeeps
<1> QED BY <1>1, <1>2, PTL DEF Spec

(* The state of the agent, of its connection and of its queue stays in its *)
(* domains.                                                                *)
THEOREM TypeCorrect == Spec => []TypeOK
<1>1. AgentInv => TypeOK
  BY DEF AgentInv
<1> QED BY <1>1, AgentInvariant, PTL

(* However many alerts come, of whatever kinds, and however often the      *)
(* connection is lost, on_line's bounded queue gives up an alert only for  *)
(* QueueMax newer ones worth showing, and the popups come in the order of  *)
(* the alerts.                                                             *)
THEOREM QueueKeepsNewest == Spec => []BurstKeepsNewest
<1>1. AgentInv => BurstKeepsNewest
  BY DEF AgentInv
<1> QED BY <1>1, AgentInvariant, PTL

(* The daemon handles a request to exclude at most once and in the order   *)
(* of the popups, over any number of reconnections: send_exclude never     *)
(* repeats one, and the button works once per popup.                       *)
THEOREM ExcludedOnceInOrder == Spec => []ExclusionsInOrder
<1>1. AgentInv => ExclusionsInOrder
  <2> SUFFICES ASSUME AgentInv PROVE ExclusionsInOrder
    OBVIOUS
  <2>1. AskInv /\ handled \in Seq(Ids) /\ outbox \in Seq(Ids)
    BY DEF AgentInv, TypeOK
  <2>2. PICK all : all = handled \o outbox
    OBVIOUS
  <2>3. DOMAIN all = 1..Len(all)
    BY <2>1, <2>2
  <2>4. \A i, j \in DOMAIN all : i < j => all[i] < all[j]
    BY <2>1, <2>2, <2>3 DEF AskInv, Rising
  <2> QED BY <2>1, <2>2, <2>4 DEF AskInv, ExclusionsInOrder
<1> QED BY <1>1, AgentInvariant, PTL

=============================================================================
