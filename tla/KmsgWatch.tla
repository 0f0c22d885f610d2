----------------------------- MODULE KmsgWatch -----------------------------
(***************************************************************************)
(* KmsgWatch: the thread that reads the firewall's log records and finds   *)
(* port scans in them.  A source is judged by the distinct ports it probed *)
(* in a window that opens with its first packet and is opened anew by the  *)
(* first packet after its end; the time is that of the handling.           *)
(***************************************************************************)
EXTENDS Integers, Sequences, FiniteSets

CONSTANTS
    Srcs, Ports,
    Window,         \* fw_scan_window
    Threshold,      \* fw_scan_threshold
    ProbeAlert,     \* fw_probe_alert_threshold
    TableMax,       \* 8192 in the code
    RingMax,        \* what the kernel log keeps for a slow reader
    MaxClock,       \* bound: the clock stops here
    MaxPackets      \* bound: logged packets

ASSUME KmsgAssumption ==
    /\ Window \in Nat \ {0} /\ Threshold \in Nat \ {0, 1}
    /\ ProbeAlert \in Nat \ {0} /\ RingMax \in Nat \ {0} /\ MaxClock \in Nat \ {0}
    /\ {TableMax, MaxPackets} \subseteq Nat
    /\ IsFiniteSet(Ports)

VARIABLES
    clock,
    packets,    \* number of packets logged
    ring,       \* the records not yet read
    blocked,    \* the sources the firewall denies: their record is BM-BLKIN
    probes,     \* probes_
    handled,    \* history: the probes handled, and when
    scans,      \* history: the scans reported, and when
    alerted     \* history: the windows an alert was raised in

vars == <<clock, packets, ring, blocked, probes, handled, scans, alerted>>

NoState == [packets |-> 0]
ProbeState == [start : 1..MaxClock, ports : SUBSET Ports,
               packets : 1..MaxPackets, reported : BOOLEAN]
Record == [kind : {"probe", "blkin"}, src : Srcs, port : Ports]

(* Records, windows and reports are in their domains.                      *)
TypeOK ==
    /\ clock \in 1..MaxClock /\ packets \in 0..MaxPackets
    /\ ring \in Seq(Record) /\ Len(ring) <= RingMax
    /\ blocked \subseteq Srcs
    /\ probes \in [Srcs -> ProbeState \cup {NoState}]
    /\ handled \subseteq [src : Srcs, port : Ports, at : 1..MaxClock]
    /\ scans \subseteq [src : Srcs, at : 1..MaxClock]
    /\ alerted \subseteq Srcs \X (1..MaxClock)

Init ==
    /\ clock = 1 /\ packets = 0
    /\ ring = <<>> /\ blocked = {}
    /\ probes = [s \in Srcs |-> NoState]
    /\ handled = {} /\ scans = {} /\ alerted = {}

Held(table) == {s \in Srcs : table[s] # NoState}

----------------------------------------------------------------------------
(* The firewall logs, and a reader that was too slow finds the oldest gone.*)

Packet(src, port) ==
    LET r == [kind |-> IF src \in blocked THEN "blkin" ELSE "probe", src |-> src, port |-> port]
    IN /\ packets < MaxPackets
       /\ packets' = packets + 1
       /\ ring' = Append(IF Len(ring) = RingMax THEN Tail(ring) ELSE ring, r)
       /\ UNCHANGED <<clock, blocked, probes, handled, scans, alerted>>

BlockEnds(src) == /\ src \in blocked
                  /\ blocked' = blocked \ {src}
                  /\ UNCHANGED <<clock, packets, ring, probes, handled, scans, alerted>>

Tick == /\ clock < MaxClock
        /\ clock' = clock + 1
        /\ UNCHANGED <<packets, ring, blocked, probes, handled, scans, alerted>>

----------------------------------------------------------------------------
(* handle_record.                                                          *)

Dequeue(kind) == /\ ring # <<>> /\ Head(ring).kind = kind
               /\ ring' = Tail(ring)

OnBlockedInbound == /\ Dequeue("blkin")
                    /\ UNCHANGED <<clock, packets, blocked, probes, handled, scans, alerted>>

Fresh == [start |-> clock, ports |-> {}, packets |-> 0, reported |-> FALSE]

(* Mutants: the window never starts over; it does so with every packet.    *)
CountedForever(old, port) ==
    LET st == IF old = NoState THEN Fresh ELSE old
    IN [st EXCEPT !.ports = @ \cup {port}, !.packets = @ + 1]

CountedAlone(old, port) ==
    [Fresh EXCEPT !.ports = {port}, !.packets = 1,
                  !.reported = old # NoState /\ old.reported]

Counted(old, port) ==
    LET st == IF old = NoState \/ clock - old.start > Window THEN Fresh ELSE old
    IN [st EXCEPT !.ports = @ \cup {port}, !.packets = @ + 1]

(* A table beyond its limit loses the sources silent for two windows.      *)
Pruned(table) ==
    IF Cardinality(Held(table)) <= TableMax THEN table
    ELSE [s \in Srcs |-> IF s \in Held(table) /\ clock - table[s].start > 2 * Window
                         THEN NoState ELSE table[s]]

IsScan(st) == Cardinality(st.ports) >= Threshold
NewScan(st) == IsScan(st) /\ ~st.reported
NewProbe(st) == ~IsScan(st) /\ st.packets = ProbeAlert

(* The source of a scan is blocked unless it is excluded, the block fails  *)
(* or blocking is switched off.                                            *)
OnInboundProbe ==
    /\ Dequeue("probe")
    /\ LET src == Head(ring).src
           port == Head(ring).port
           st == Counted(probes[src], port)
           table == Pruned([probes EXCEPT ![src] = st])
       IN /\ handled' = handled \cup {[src |-> src, port |-> port, at |-> clock]}
          /\ IF NewScan(st)
             THEN /\ probes' = [table EXCEPT ![src] = [st EXCEPT !.reported = TRUE]]
                  /\ scans' = scans \cup {[src |-> src, at |-> clock]}
                  /\ blocked' \in {blocked, blocked \cup {src}}
             ELSE probes' = table /\ UNCHANGED <<scans, blocked>>
          /\ alerted' = alerted \cup {w \in {<<src, st.start>>} : NewScan(st) \/ NewProbe(st)}
    /\ UNCHANGED <<clock, packets>>

Next == \/ Tick \/ OnInboundProbe \/ OnBlockedInbound
        \/ \E s \in Srcs : BlockEnds(s) \/ \E p \in Ports : Packet(s, p)

Spec == Init /\ [][Next]_vars

----------------------------------------------------------------------------
Probed(s, from, to) == {h.port : h \in {g \in handled : g.src = s /\ g.at \in from..to}}

(* A scan is reported only of a source that probed Threshold ports within  *)
(* the window that ends there, and a source with ProbeAlert packets in its *)
(* window has been reported in it, as a probe or as a scan.                *)
ReportsAreDue ==
    /\ \A r \in scans : Cardinality(Probed(r.src, r.at - Window, r.at)) >= Threshold
    /\ \A s \in Held(probes) :
          probes[s].packets >= ProbeAlert => <<s, probes[s].start>> \in alerted

(* The window starts over, so Threshold ports may fall on both sides of    *)
(* its end; but twice as many, less one, are caught wherever it ends, and  *)
(* whatever was pruned or lost before.                                     *)
TwiceIsCaught ==
    \A s \in Srcs, t \in 1..MaxClock :
        Cardinality(Probed(s, t, t + Window)) >= 2 * Threshold - 1
            => \E r \in scans : r.src = s /\ r.at \in (t - Window)..(t + Window)

(* "distinct ports before it counts as a scan" (config.hpp:29): Threshold  *)
(* ports within the window are a scan.                                     *)
ThresholdIsCaught ==
    \A s \in Srcs, t \in 1..MaxClock :
        Cardinality(Probed(s, t, t + Window)) >= Threshold
            => \E r \in scans : r.src = s /\ r.at \in (t - Window)..(t + Window)

(* "Keep the per-source table bounded under a spoofed-source flood"        *)
(* (kmsgwatch.cpp:184).                                                    *)
TableBounded == Cardinality(Held(probes)) <= TableMax

----------------------------------------------------------------------------
(* Why these hold.                                                         *)

(* What is counted of a source is what its window holds, and a window with *)
(* enough packets, or one that is marked as reported, has had its report.  *)
WindowInv ==
    /\ Len(ring) <= packets
    /\ \A s \in Held(probes) :
          LET st == probes[s]
          IN /\ st.start <= clock
             /\ st.packets + Len(ring) <= packets
             /\ st.ports = Probed(s, st.start, clock)
             /\ st.packets >= ProbeAlert => <<s, st.start>> \in alerted
             /\ st.reported => /\ <<s, st.start>> \in alerted
                               /\ \E r \in scans : r.src = s /\ r.at \in st.start..clock

ScansInv == \A r \in scans : Cardinality(Probed(r.src, r.at - Window, r.at)) >= Threshold

(* The windows a source has had, by their starts: more than Window apart,  *)
(* each probe in one of them, each reported when it has Threshold ports,   *)
(* and the one in the table the last; a source is forgotten only when even *)
(* the last is long over.                                                  *)
Windows(s, starts) ==
    /\ \A b \in starts : b <= clock
    /\ \A a, b \in starts : a < b => a + Window < b
    /\ \A h \in handled : h.src = s => \E b \in starts : h.at \in b..(b + Window)
    /\ \A b \in starts : \A u \in b..(b + Window) :
          Cardinality(Probed(s, b, u)) >= Threshold
              => \E r \in scans : r.src = s /\ r.at \in b..u
    /\ IF s \in Held(probes)
       THEN probes[s].start \in starts /\ \A b \in starts : b <= probes[s].start
       ELSE \A b \in starts : b + 2 * Window < clock

WindowsInv == /\ \A h \in handled : h.at <= clock
              /\ \A s \in Srcs : \E starts \in SUBSET (1..MaxClock) : Windows(s, starts)

KmsgInv == TypeOK /\ WindowInv /\ ScansInv /\ WindowsInv
=============================================================================
