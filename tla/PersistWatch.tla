---------------------------- MODULE PersistWatch ----------------------------
(***************************************************************************)
(* class PersistWatch: inotify watches on the directories where a program  *)
(* can arrange to be started again, and the thread that turns their events *)
(* into alerts.  The watches are put one by one when the daemon starts and *)
(* follow the directories, while paths come and go beneath them.           *)
(***************************************************************************)
EXTENDS Integers, SequencesExt, FiniteSets

CONSTANTS
    Targets,    \* the watched paths, in the order of collect_targets
    Kind,       \* [path -> "plain", "etc", "home" or "ssh"]: the filter of report
    Names,      \* the children whose changes are looked at, by class
    QueueMax,   \* events the kernel keeps for one inotify instance
    BatchMax,   \* events that fit in the 64 KiB buffer of one read
    MaxDirs,    \* bound: directories that ever exist
    MaxChanges  \* bound: changes made in them

Paths == Range(Targets)
Kinds == {"plain", "etc", "home", "ssh"}

NoPath == "none"

(* What report tells apart in the name of a child: temporary files, shell  *)
(* startup files, the system files it lists, the names that matter to ssh, *)
(* and the rest.                                                           *)
Classes == {"temp", "rc", "system", "keys", "other"}

ASSUME PersistAssumption ==
    /\ Targets \in Seq(Paths) /\ IsInjective(Targets)
    /\ NoPath \notin Paths
    /\ Kind \in [Paths -> Kinds]
    /\ Names \subseteq Classes
    /\ QueueMax \in Nat \ {0} /\ BatchMax \in Nat \ {0}
    /\ MaxDirs \in Nat /\ MaxChanges \in Nat

Dirs == 1..MaxDirs
NoDir == 0

VARIABLES
    at,         \* [path -> the directory found there]
    made,       \* directories made so far
    alive,      \* those not removed
    marked,     \* the directories the kernel watches for us
    events,     \* the queue of the inotify descriptor
    pc,         \* "off", "adding", "poll", "reports", "ended", "stopped"
    next,       \* the target collect_targets comes to next
    watches,    \* watches_: the path of each directory (its descriptor)
    running,    \* running_
    batch,      \* what the last read returned and is not yet handled
    alerts,     \* the alerts emitted
    changes,    \* history: every change, in order
    covered,    \* history: the targets found at a directory when added
    kept        \* history: the changes the kernel queued an event for

disk == <<at, made, alive>>
thread == <<pc, next, watches, running, batch, alerts>>
history == <<changes, covered, kept>>
vars == <<disk, marked, events, thread, history>>

Changes == 1..MaxChanges
Overflow == [dir |-> NoDir, name |-> "none", of |-> {}]
Events == [dir : Dirs, name : Names \cup {"none"}, of : SUBSET Changes] \cup {Overflow}
Alerts == [path : Paths, name : Names, of : SUBSET Changes]

(* Directories, queue, watches and alerts are in their domains, and the    *)
(* queue holds at most one event beyond its limit, the overflow notice.    *)
TypeOK ==
    /\ at \in [Paths -> Dirs \cup {NoDir}]
    /\ made \in 0..MaxDirs /\ alive \subseteq 1..made /\ marked \subseteq alive
    /\ events \in Seq(Events) /\ Len(events) <= QueueMax + 1
    /\ pc \in {"off", "adding", "poll", "reports", "ended", "stopped"}
    /\ next \in 1..Len(Targets) + 1
    /\ watches \in [Dirs -> Paths \cup {NoPath}]
    /\ running \in BOOLEAN
    /\ batch \in Seq(Events) /\ Len(batch) <= BatchMax
    /\ alerts \in Seq(Alerts)
    /\ changes \in Seq([dir : Dirs, name : Names]) /\ Len(changes) <= MaxChanges
    /\ covered \in [Dirs -> SUBSET Paths]
    /\ kept \subseteq DOMAIN changes

(* Any layout: a path may be missing, and two may lead to one directory.   *)
Init ==
    /\ made \in 0..MaxDirs
    /\ at \in [Paths -> 0..made] /\ 1..made \subseteq Range(at)
    /\ alive = 1..made /\ marked = {} /\ events = <<>>
    /\ pc = "off" /\ next = 1 /\ watches = [d \in Dirs |-> NoPath] /\ running = FALSE
    /\ batch = <<>> /\ alerts = <<>>
    /\ changes = <<>> /\ covered = [d \in Dirs |-> {}] /\ kept = {}

----------------------------------------------------------------------------
(* The kernel: an event equal to the last one in the queue is merged with  *)
(* it (whether it is depends on the kind of change, left out here); a full *)
(* queue takes one overflow notice and drops the rest.                     *)

Merges(e) == /\ events # <<>>
             /\ Last(events).dir = e.dir /\ Last(events).name = e.name

Dropped == events' = IF Overflow \in Range(events) THEN events
                                                   ELSE Append(events, Overflow)

Queued(e) ==
    IF Len(events) >= QueueMax THEN Dropped
    ELSE \/ events' = Append(events, e)
         \/ /\ Merges(e)
            /\ events' = [events EXCEPT ![Len(events)].of = @ \cup e.of]

(* A child of a directory is created, written, moved, deleted.             *)
Change(d, name) ==
    LET n == Len(changes) + 1
    IN /\ n <= MaxChanges
       /\ d \in alive
       /\ changes' = Append(changes, [dir |-> d, name |-> name])
       /\ IF d \in marked THEN Queued([dir |-> d, name |-> name, of |-> {n}])
                          ELSE UNCHANGED events
       /\ kept' = IF d \in marked /\ Len(events) < QueueMax THEN kept \cup {n} ELSE kept
       /\ UNCHANGED <<disk, marked, thread, covered>>

MakeDir(p) ==
    /\ at[p] = NoDir
    /\ made < MaxDirs
    /\ made' = made + 1 /\ alive' = alive \cup {made + 1}
    /\ at' = [at EXCEPT ![p] = made + 1]
    /\ UNCHANGED <<marked, events, thread, history>>

(* The directory goes with every path to it, and the watch with it.        *)
RemoveDir(d) ==
    /\ d \in alive
    /\ alive' = alive \ {d}
    /\ at' = [p \in Paths |-> IF at[p] = d THEN NoDir ELSE at[p]]
    /\ marked' = marked \ {d}
    /\ IF d \in marked THEN Queued([dir |-> d, name |-> "none", of |-> {}])
                       ELSE UNCHANGED events
    /\ UNCHANGED <<made, thread, history>>

(* A rename: the watch moves with the directory.                           *)
MoveDir(p, q) ==
    /\ at[p] # NoDir /\ at[q] = NoDir
    /\ at' = [at EXCEPT ![q] = at[p], ![p] = NoDir]
    /\ UNCHANGED <<made, alive, marked, events, thread, history>>

World == \/ \E d \in Dirs, name \in Names : Change(d, name)
         \/ \E p \in Paths : MakeDir(p)
         \/ \E d \in Dirs : RemoveDir(d)
         \/ \E p, q \in Paths : MoveDir(p, q)

----------------------------------------------------------------------------
(* start: the watches are put before the thread runs, so what changes in   *)
(* between waits in the queue.                                             *)

Start == /\ pc = "off"
         /\ pc' = "adding"
         /\ UNCHANGED <<disk, marked, events, next, watches, running, batch, alerts, history>>

(* Mutant: the first path of a directory keeps its descriptor.             *)
KeepFirst(d, p) == IF watches[d] # NoPath THEN watches ELSE [watches EXCEPT ![d] = p]

(* watches_[wd] = ...: a later path of the same directory takes over.      *)
TakeOver(d, p) == [watches EXCEPT ![d] = p]

(* add_watch on the next target, if there is a directory.                  *)
AddWatch ==
    /\ pc = "adding"
    /\ next <= Len(Targets)
    /\ next' = next + 1
    /\ LET p == Targets[next]
           d == at[p]
       IN IF d = NoDir THEN UNCHANGED <<marked, watches, covered>>
          ELSE /\ marked' = marked \cup {d}
               /\ watches' = TakeOver(d, p)
               /\ covered' = [covered EXCEPT ![d] = @ \cup {p}]
    /\ UNCHANGED <<disk, events, pc, running, batch, alerts, changes, kept>>

StartThread == /\ pc = "adding"
               /\ next > Len(Targets)
               /\ pc' = "poll" /\ running' = TRUE
               /\ UNCHANGED <<disk, marked, events, next, watches, batch, alerts, history>>

(* stop: the flag and the wake-up, then, once the thread has ended, the    *)
(* descriptors are closed and the watches forgotten.                       *)
Stop == /\ running
        /\ running' = FALSE
        /\ UNCHANGED <<disk, marked, events, pc, next, watches, batch, alerts, history>>

Join == /\ pc = "ended"
        /\ pc' = "stopped"
        /\ marked' = {} /\ events' = <<>> /\ watches' = [d \in Dirs |-> NoPath]
        /\ UNCHANGED <<disk, next, running, batch, alerts, history>>

----------------------------------------------------------------------------
(* loop                                                                    *)

(* Mutant: the flag is looked at after a batch only; stop wakes nobody.    *)
EndAfterBatch == /\ pc = "reports" /\ batch = <<>>
                 /\ ~running
                 /\ pc' = "ended"
                 /\ UNCHANGED <<disk, marked, events, next, watches, running, batch, alerts,
                                history>>

EndLoop == /\ pc = "poll"
           /\ ~running
           /\ pc' = "ended"
           /\ UNCHANGED <<disk, marked, events, next, watches, running, batch, alerts, history>>

(* Mutant: what did not fit in the buffer is thrown away.                  *)
ReadOnce == /\ pc = "poll"
            /\ running
            /\ events # <<>>
            /\ batch' = SubSeq(events, 1, BatchMax) /\ events' = <<>>
            /\ pc' = "reports"
            /\ UNCHANGED <<disk, marked, next, watches, running, alerts, history>>

ReadEvents ==
    LET k == IF Len(events) < BatchMax THEN Len(events) ELSE BatchMax
    IN /\ pc = "poll"
       /\ running
       /\ events # <<>>
       /\ batch' = SubSeq(events, 1, k)
       /\ events' = SubSeq(events, k + 1, Len(events))
       /\ pc' = "reports"
       /\ UNCHANGED <<disk, marked, next, watches, running, alerts, history>>

(* Which changes below a path report lets through.                         *)
Wanted(p, name) ==
    \/ Kind[p] = "plain" /\ name # "temp"
    \/ Kind[p] = "etc" /\ name = "system"
    \/ Kind[p] = "home" /\ name = "rc"
    \/ Kind[p] = "ssh" /\ name = "keys"

Reported(e) ==
    /\ e.dir # NoDir /\ watches[e.dir] # NoPath
    /\ e.name # "none"
    /\ Wanted(watches[e.dir], e.name)

(* One event of the batch; the rest of it is handled even if stop has been *)
(* called meanwhile.                                                       *)
Report ==
    /\ pc = "reports"
    /\ batch # <<>>
    /\ LET e == Head(batch)
       IN alerts' = IF Reported(e)
                    THEN Append(alerts, [path |-> watches[e.dir], name |-> e.name, of |-> e.of])
                    ELSE alerts
    /\ batch' = Tail(batch)
    /\ UNCHANGED <<disk, marked, events, pc, next, watches, running, history>>

NextPoll == /\ pc = "reports"
            /\ batch = <<>>
            /\ pc' = "poll"
            /\ UNCHANGED <<disk, marked, events, next, watches, running, batch, alerts, history>>

Loop == EndLoop \/ ReadEvents \/ Report \/ NextPoll

Next == World \/ Start \/ AddWatch \/ StartThread \/ Stop \/ Join \/ Loop

Spec == Init /\ [][Next]_vars

(* main goes through start and, after the stop, the join; the thread runs. *)
FairSpec == Spec /\ WF_vars(AddWatch \/ StartThread \/ Join) /\ WF_vars(Loop)

----------------------------------------------------------------------------
Told == UNION {alerts[i].of : i \in DOMAIN alerts}

(* The target whose name and filter a directory goes by: the last of those *)
(* that led to it, whatever became of the paths since.                     *)
LastOf(found) == Targets[CHOOSE i \in DOMAIN Targets :
                            /\ Targets[i] \in found
                            /\ \A j \in DOMAIN Targets : Targets[j] \in found => j <= i]

(* Nothing is made up, told twice or told out of order: an alert is about  *)
(* changes that happened, later ones than the alerts before it, in a       *)
(* directory that was found at the path it names, and that the filter of   *)
(* this path lets through.                                                 *)
AlertsAreTrue ==
    /\ \A i \in DOMAIN alerts : \A n \in alerts[i].of :
          /\ alerts[i].path = LastOf(covered[changes[n].dir])
          /\ alerts[i].name = changes[n].name
          /\ Wanted(alerts[i].path, changes[n].name)
    /\ \A i, j \in DOMAIN alerts : i < j =>
          \A n \in alerts[i].of, m \in alerts[j].of : n < m

(* A change the kernel told us of and that the filter lets through.        *)
Due(n) == /\ running
          /\ n \in kept
          /\ Wanted(LastOf(covered[changes[n].dir]), changes[n].name)

(* Such a change is told of in the end, wherever it fell: while the other  *)
(* watches were put, before the thread ran, behind a full buffer or after  *)
(* an overflow; only the kernel's own loss and the stop excuse it.         *)
ToldInTheEnd == \A n \in Changes : Due(n) ~> n \in Told \/ ~running

(* stop comes back: the thread ends with the batch it has, however many    *)
(* events go on arriving.                                                  *)
StopEnds == (pc \in {"poll", "reports"} /\ ~running) ~> pc = "stopped"

(* "covered by the specific subdirectory watches" (persistwatch.cpp:199):  *)
(* what changes at a target path while the watch runs is told of.          *)
PlacesAreCovered ==
    running /\ pc = "poll" /\ events = <<>> =>
        \A p \in Paths : at[p] # NoDir => at[p] \in marked

----------------------------------------------------------------------------
(* Why the alerts are true.                                                *)

(* A path leads to a directory that is there; the watches follow the       *)
(* targets in order, so the path a directory has is that of the last       *)
(* target found at it; the queue takes the overflow notice once only;      *)
(* nothing is handled before the thread runs, and the thread ends with     *)
(* nothing in hand.                                                        *)
WatchInv ==
    /\ \A p \in Paths : at[p] # NoDir => at[p] \in alive
    /\ \A d \in Dirs : covered[d] \subseteq {Targets[i] : i \in 1..(next - 1)}
    /\ \A d \in Dirs : watches[d] # NoPath => covered[d] # {} /\ watches[d] = LastOf(covered[d])
    /\ Len(events) > QueueMax => Overflow \in Range(events)
    /\ batch # <<>> => pc = "reports"
    /\ pc \in {"off", "adding"} => batch = <<>> /\ alerts = <<>>

(* An event stands for changes of its child of its directory.              *)
Tells(e) == \A n \in e.of : /\ n \in DOMAIN changes
                             /\ changes[n] = [dir |-> e.dir, name |-> e.name]

TellsInv ==
    /\ \A i \in DOMAIN events : Tells(events[i])
    /\ \A i \in DOMAIN batch : Tells(batch[i])
    /\ \A i \in DOMAIN alerts : \A n \in alerts[i].of : n \in DOMAIN changes

(* Events tell of their changes in order, from the alerts on to the queue. *)
Earlier(e, f) == \A n \in e.of, m \in f.of : n < m
InOrder(q) == \A i, j \in DOMAIN q : i < j => Earlier(q[i], q[j])
Precedes(q, r) == \A i \in DOMAIN q, j \in DOMAIN r : Earlier(q[i], r[j])

OrderInv == /\ InOrder(alerts) /\ InOrder(batch) /\ InOrder(events)
            /\ Precedes(alerts, batch) /\ Precedes(alerts, events)
            /\ Precedes(batch, events)

PersistInv == TypeOK /\ WatchInv /\ TellsInv /\ OrderInv /\ AlertsAreTrue
=============================================================================
