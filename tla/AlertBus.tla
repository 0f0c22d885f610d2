------------------------------ MODULE AlertBus ------------------------------
(***************************************************************************)
(* AlertBus::emit, called by every detector thread and by the IPC thread.  *)
(* A call stamps the alert with the wall clock, then decides under the     *)
(* mutex whether it is recorded, then hands it to the sink without the     *)
(* mutex.  Other threads run, and time passes, between the three.          *)
(***************************************************************************)
EXTENDS Integers, Sequences, SequencesExt, FiniteSets

CONSTANTS
    Emitters,       \* the threads that emit
    Keys,           \* the dedup keys
    Severities,     \* a set of naturals
    MinSeverity,    \* below it an alert is ignored
    PopupMin,       \* from it on an alert asks for a popup
    Dedup,          \* dedup_seconds, in ticks of the clock
    PruneLimit,     \* how many keys last_seen_ may hold before it is pruned
    JournalMayFail, \* whether the append to alerts.jsonl may fail
    MaxClock,       \* bound: the clock stops here
    MaxEmits        \* bound: calls of emit

ASSUME BusAssumption ==
    /\ Severities \subseteq Nat /\ MinSeverity \in Nat /\ PopupMin \in Nat
    /\ Dedup \in Nat /\ PruneLimit \in Nat
    /\ JournalMayFail \in BOOLEAN
    /\ MaxClock \in Nat /\ MaxEmits \in Nat

VARIABLES
    clock,      \* the wall clock
    step,       \* step[e]: where e is inside emit
    cur,        \* cur[e]: the alert e is emitting
    sinkSet,    \* the sink has been installed
    lastSeen,   \* last_seen_: when a key was last recorded
    recorded,   \* everything ever pushed on history_, oldest first
    journal,    \* the lines of alerts.jsonl
    suppressed, \* suppressed_
    sent        \* what the sink was called with, in order

emitVars == <<clock, step, cur, sinkSet, lastSeen, recorded, journal, suppressed, sent>>
busVars == <<lastSeen, recorded, journal, suppressed>>

Never == -1
NoAlert == [key |-> "none"]
Alerts == [key : Keys, severity : Severities, ts : 0..MaxClock, by : Emitters]

(* The bus is in its domains, and a thread holds an alert exactly while it *)
(* is inside emit.                                                         *)
BusTypeOK ==
    /\ clock \in 0..MaxClock
    /\ step \in [Emitters -> {"idle", "stamped", "sink"}]
    /\ cur \in [Emitters -> Alerts \cup {NoAlert}]
    /\ \A e \in Emitters : step[e] = "idle" <=> cur[e] = NoAlert
    /\ sinkSet \in BOOLEAN
    /\ lastSeen \in [Keys -> {Never} \cup 0..MaxClock]
    /\ recorded \in Seq(Alerts) /\ journal \in Seq(Alerts)
    /\ suppressed \in Nat
    /\ sent \in Seq([alert : Alerts, popup : BOOLEAN])

BusInit ==
    /\ clock = 0
    /\ step = [e \in Emitters |-> "idle"]
    /\ cur = [e \in Emitters |-> NoAlert]
    /\ sinkSet = FALSE
    /\ lastSeen = [k \in Keys |-> Never]
    /\ recorded = <<>> /\ journal = <<>> /\ suppressed = 0
    /\ sent = <<>>

----------------------------------------------------------------------------

Tick == /\ clock < MaxClock
        /\ clock' = clock + 1
        /\ UNCHANGED <<step, cur, sinkSet, busVars, sent>>

SetSink == /\ ~sinkSet
           /\ sinkSet' = TRUE
           /\ UNCHANGED <<clock, step, cur, busVars, sent>>

InFlight == {e \in Emitters : step[e] # "idle"}
Emits == Len(recorded) + suppressed + Cardinality(InFlight)

(* The timestamp is taken before the mutex.                                *)
Stamp(e, k, s) ==
    /\ step[e] = "idle"
    /\ Emits < MaxEmits
    /\ cur' = [cur EXCEPT ![e] = [key |-> k, severity |-> s, ts |-> clock, by |-> e]]
    /\ step' = [step EXCEPT ![e] = "stamped"]
    /\ UNCHANGED <<clock, sinkSet, busVars, sent>>

Leave(e) == /\ step' = [step EXCEPT ![e] = "idle"]
            /\ cur' = [cur EXCEPT ![e] = NoAlert]

Duplicate(a) == lastSeen[a.key] # Never /\ a.ts - lastSeen[a.key] < Dedup

(* Mutant: the time a key was first recorded is kept.                      *)
SeenAfterFirst(a) ==
    IF lastSeen[a.key] = Never THEN [lastSeen EXCEPT ![a.key] = a.ts] ELSE lastSeen

(* last_seen_ after a is recorded; a table grown beyond its limit loses    *)
(* the keys that are outside the window as seen from a's timestamp.        *)
SeenAfter(a) ==
    LET seen == [lastSeen EXCEPT ![a.key] = a.ts]
        held == {k \in Keys : seen[k] # Never}
    IN IF Cardinality(held) > PruneLimit
       THEN [k \in Keys |-> IF seen[k] < a.ts - Dedup THEN Never ELSE seen[k]]
       ELSE seen

Ignore(e) == /\ step[e] = "stamped"
             /\ cur[e].severity < MinSeverity
             /\ Leave(e)
             /\ UNCHANGED <<clock, sinkSet, busVars, sent>>

(* Mutant: a repeat is kept out of the history but still sent.             *)
SuppressYetSend(e) == /\ step[e] = "stamped"
                      /\ cur[e].severity >= MinSeverity
                      /\ Duplicate(cur[e])
                      /\ suppressed' = suppressed + 1
                      /\ step' = [step EXCEPT ![e] = "sink"]
                      /\ UNCHANGED <<clock, cur, sinkSet, lastSeen, recorded, journal, sent>>

Suppress(e) == /\ step[e] = "stamped"
               /\ cur[e].severity >= MinSeverity
               /\ Duplicate(cur[e])
               /\ suppressed' = suppressed + 1
               /\ Leave(e)
               /\ UNCHANGED <<clock, sinkSet, lastSeen, recorded, journal, sent>>

(* The sink is copied under the mutex: an alert recorded before the sink   *)
(* is installed is broadcast to nobody.  history_ is cut to its limit from *)
(* the old end (alertbus.cpp:67); recorded goes on, and is everything ever *)
(* pushed on it.                                                           *)
Record(e) ==
    /\ step[e] = "stamped"
    /\ cur[e].severity >= MinSeverity
    /\ ~Duplicate(cur[e])
    /\ lastSeen' = SeenAfter(cur[e])
    /\ recorded' = Append(recorded, cur[e])
    /\ \/ journal' = Append(journal, cur[e])
       \/ JournalMayFail /\ UNCHANGED journal
    /\ IF sinkSet THEN step' = [step EXCEPT ![e] = "sink"] /\ UNCHANGED cur
                  ELSE Leave(e)
    /\ UNCHANGED <<clock, sinkSet, suppressed, sent>>

Deliver(e) ==
    /\ step[e] = "sink"
    /\ sent' = Append(sent, [alert |-> cur[e], popup |-> cur[e].severity >= PopupMin])
    /\ Leave(e)
    /\ UNCHANGED <<clock, sinkSet, busVars>>

Emitting(e) == Ignore(e) \/ Suppress(e) \/ Record(e) \/ Deliver(e)

BusNext == \/ Tick \/ SetSink
           \/ \E e \in Emitters : \/ Emitting(e)
                                  \/ \E k \in Keys, s \in Severities : Stamp(e, k, s)

BusSpec == BusInit /\ [][BusNext]_emitVars

----------------------------------------------------------------------------
(* "The same finding will not raise a second popup within this many        *)
(* seconds" (backmaster.conf:111): two recorded alerts of one key are at   *)
(* least the window apart, whatever the order the threads got the mutex.   *)
DedupWindow ==
    \A i, j \in DOMAIN recorded :
        i < j /\ recorded[i].key = recorded[j].key
            => recorded[j].ts - recorded[i].ts >= Dedup

(* The recorded alerts whose emitters are on the way to the sink: for each *)
(* of those, the last one it recorded.                                     *)
Waiting == {m \in DOMAIN recorded :
               /\ step[recorded[m].by] = "sink"
               /\ \A l \in DOMAIN recorded : l > m => recorded[l].by # recorded[m].by}

(* The alerts of one detector reach the clients in the order it found      *)
(* them, once each and with none left out after the first, while those of  *)
(* different detectors may overtake each other on the way to the sink:     *)
(* what was sent has places among what was recorded, rising for every      *)
(* detector and without a gap but the alert still on its way.              *)
DetectorOrder ==
    \E at \in [DOMAIN sent -> DOMAIN recorded] :
        /\ \A i \in DOMAIN sent : recorded[at[i]] = sent[i].alert /\ at[i] \notin Waiting
        /\ \A i, j \in DOMAIN sent :
              i < j /\ sent[i].alert.by = sent[j].alert.by => at[i] < at[j]
        /\ \A i \in DOMAIN sent, m \in DOMAIN recorded :
              m > at[i] /\ recorded[m].by = sent[i].alert.by
                  => m \in Waiting \/ \E j \in DOMAIN sent : at[j] = m

(* Inductive: nothing is on its way before there is a sink, and an emitter *)
(* on its way carries the last alert it recorded.                          *)
OrderInv ==
    /\ DetectorOrder
    /\ sent # <<>> \/ (\E e \in Emitters : step[e] = "sink") => sinkSet
    /\ \A e \in Emitters :
          /\ step[e] # "idle" => cur[e].by = e
          /\ step[e] = "sink" => \E m \in Waiting : recorded[m] = cur[e]
=============================================================================
