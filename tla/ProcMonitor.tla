---------------------------- MODULE ProcMonitor ----------------------------
(***************************************************************************)
(* ProcMonitor: the thread that follows the kernel's process events and    *)
(* keeps, for every process, the guarded program it descends from.         *)
(*                                                                         *)
(* The kernel queues an event when something happens; the monitor handles  *)
(* it later and then looks at /proc, which shows what the process is by    *)
(* then.  An image stands for an executable with its command line.         *)
(***************************************************************************)
EXTENDS Integers, SequencesExt, FiniteSets

CONSTANTS
    Pids,       \* naturals; 1 is init
    Images,     \* what a process can run, among them
    Plain,      \*   what init runs,
    Early,      \*   what runs when the daemon starts,
    Guarded,    \*   those is_guarded_image knows,
    Payload,    \*   those is_payload knows,
    Ignored,    \*   those is_ignored knows,
    Temp,       \*   those in a scratch directory,
    Elevators,  \*   those expected to become root,
    Debuggers,  \*   and those expected to attach to others
    Grace,      \* bd_lineage_grace
    KillOnDetect,
    MaxProcs,   \* 200000 in the code
    QueueMax,   \* what the netlink socket holds
    MaxEvents,  \* bound: kernel events but for the ends of processes killed here
    MaxClock    \* bound: the clock stops here

ASSUME ProcAssumption ==
    /\ Pids \subseteq Nat \ {0} /\ 1 \in Pids
    /\ "none" \notin Images
    /\ Plain \in Images \ (Guarded \cup Payload \cup Temp)
    /\ Early \subseteq Images
    /\ Guarded \cup Payload \cup Ignored \cup Temp \cup Elevators \cup Debuggers \subseteq Images
    /\ {Grace, MaxProcs, QueueMax, MaxEvents, MaxClock} \subseteq Nat
    /\ KillOnDetect \in BOOLEAN

VARIABLES
    proc,       \* the kernel's processes: parent and image
    untrusted,  \* history: the processes of a guarded program's tree
    guardRoots, \* history: the pids that ever ran a guarded image
    disturbed,  \* history: what has happened so far of the things in Kinds
    queue,      \* the events in the socket
    overrun,    \* an event was dropped: the next recv says ENOBUFS
    events,     \* number of kernel events
    clock,
    phase,      \* "seeding", "watching" or "striking"
    todo,       \* the pids the running seed has not come to
    procs,      \* procs_
    verdict,    \* what on_exec is about to report, in a set
    reports,    \* history: what was reported of each process
    owed,       \* history: what ought to be
    strays      \* history: what kills hit that no rule is about

kernelVars == <<proc, untrusted, guardRoots, disturbed, events>>
monVars == <<phase, todo, procs, verdict, reports, strays>>
vars == <<kernelVars, queue, overrun, clock, monVars, owed>>

None == [image |-> "none"]
Process == [parent : Pids, image : Images]
Rec == [parent : Pids \cup {0}, image : Images \cup {"unknown"},
        root : Pids \cup {0}, started : (0 - Grace)..MaxClock]
(* A process ran something else or ended before the monitor had looked at  *)
(* it; the kernel reported a thread; an event was lost; the table was full.*)
Kinds == {"late", "thread", "lost", "full"}
Signals == {"lineage", "temp", "privesc", "ptrace", "ptrace guarded"}
Event == [what : {"fork"}, by : Pids, pid : Pids]
         \cup [what : {"ptrace"}, by : Pids, pid : Pids]
         \cup [what : {"exec", "exit", "uid"}, pid : Pids]

(* The kernel's processes and the records of the monitor are in their      *)
(* domains, whatever is lost, late or killed.                              *)
TypeOK ==
    /\ proc \in [Pids -> Process \cup {None}]
    /\ untrusted \subseteq Pids /\ guardRoots \subseteq Pids
    /\ disturbed \subseteq Kinds
    /\ queue \in Seq(Event) /\ Len(queue) <= QueueMax
    /\ overrun \in BOOLEAN /\ events \in Nat /\ clock \in 0..MaxClock
    /\ phase \in {"seeding", "watching", "striking"}
    /\ todo \subseteq Pids
    /\ procs \in [Pids -> Rec \cup {None}]
    /\ verdict \subseteq Signals \X Pids
    /\ reports \subseteq Signals \X Pids /\ owed \subseteq Signals \X Pids
    /\ strays \subseteq Images

Live(p) == proc[p] # None
Known(p) == procs[p] # None

(* The daemon starts among running processes; it subscribes to the events  *)
(* before it looks at them.                                                *)
Trees == {t \in [Pids -> Process \cup {None}] :
             \A p \in Pids : IF p = 1 THEN t[p] = [parent |-> 1, image |-> Plain]
                             ELSE t[p] # None => /\ t[p].image \in Early /\ t[p].parent < p
                                                 /\ t[t[p].parent] # None}
(* The least set with the processes of guarded images and, with a process, *)
(* its children.                                                           *)
Closed(t, S) == \A p \in Pids \ {1} :
                   t[p] # None /\ (t[p].image \in Guarded \/ t[p].parent \in S) => p \in S
TreeOf(t) == {p \in Pids : \A S \in SUBSET Pids : Closed(t, S) => p \in S}

Init ==
    /\ proc \in Trees
    /\ untrusted = TreeOf(proc)
    /\ guardRoots = {p \in Pids : Live(p) /\ proc[p].image \in Guarded}
    /\ queue = <<>> /\ overrun = FALSE /\ events = 0 /\ clock = 0
    /\ disturbed = {}
    /\ phase = "seeding" /\ todo = Pids
    /\ procs = [p \in Pids |-> None]
    /\ verdict = {} /\ reports = {} /\ owed = {} /\ strays = {}

----------------------------------------------------------------------------
(* The processes.                                                          *)

(* The queued events whose handling looks at p in /proc.                   *)
About(p) == {i \in DOMAIN queue : IF queue[i].what = "ptrace" THEN queue[i].by = p
                                  ELSE queue[i].pid = p}

(* What p does now, the monitor may not see as it was.                     *)
Late(p) == IF phase # "seeding" /\ About(p) = {} /\ \A v \in verdict : v[2] # p
           THEN {} ELSE {"late"}

(* An event for the monitor, and the disturbances that come with it.       *)
Queued(e, kinds) ==
    /\ events' = events + 1
    /\ IF Len(queue) < QueueMax
       THEN /\ queue' = Append(queue, e) /\ UNCHANGED overrun
            /\ disturbed' = disturbed \cup kinds
       ELSE /\ overrun' = TRUE /\ UNCHANGED queue
            /\ disturbed' = disturbed \cup kinds \cup {"lost"}

Fork(p, c) ==
    /\ Live(p) /\ ~Live(c)
    /\ proc' = [proc EXCEPT ![c] = [parent |-> p, image |-> proc[p].image]]
    /\ untrusted' = IF p \in untrusted THEN untrusted \cup {c} ELSE untrusted
    /\ guardRoots' = IF proc[p].image \in Guarded THEN guardRoots \cup {c} ELSE guardRoots
    /\ owed' = {o \in owed : o[2] # c}
    /\ reports' = {r \in reports : r[2] # c}
    /\ Queued([what |-> "fork", by |-> p, pid |-> c], {})
    /\ UNCHANGED <<clock, phase, todo, procs, verdict, strays>>

(* No guarded program is in its grace period or yet to be noticed.         *)
Settled == /\ phase = "watching"
           /\ \A i \in DOMAIN queue : queue[i].what # "exec"
           /\ \A p \in Pids : Known(p) /\ procs[p].root # 0 =>
                                  clock - procs[p].started >= Grace

Exec(p, i) ==
    /\ p # 1 /\ Live(p)
    /\ proc' = [proc EXCEPT ![p].image = i]
    /\ untrusted' = IF i \in Guarded THEN untrusted \cup {p} ELSE untrusted
    /\ guardRoots' = IF i \in Guarded THEN guardRoots \cup {p} ELSE guardRoots
    /\ owed' = {o \in owed : o # <<"lineage", p>>} \cup
               {o \in {<<"lineage", p>>} : /\ p \in untrusted /\ Settled
                                           /\ i \in Payload \ (Ignored \cup Guarded)
                                           /\ proc[p].image # i}
    /\ reports' = {r \in reports : r # <<"lineage", p>>}
    /\ Queued([what |-> "exec", pid |-> p], Late(p))
    /\ UNCHANGED <<clock, phase, todo, procs, verdict, strays>>

(* Its children get init for a parent.                                     *)
Without(p) == [q \in Pids |-> IF q = p THEN None
                              ELSE IF Live(q) /\ proc[q].parent = p
                                   THEN [proc[q] EXCEPT !.parent = 1] ELSE proc[q]]
Ends(p, kinds) ==
    /\ proc' = Without(p)
    /\ untrusted' = untrusted \ {p}
    /\ owed' = {o \in owed : o[2] # p}
    /\ Queued([what |-> "exit", pid |-> p], kinds)
    /\ UNCHANGED guardRoots

Exit(p) == /\ p # 1 /\ Live(p)
           /\ Ends(p, Late(p))
           /\ UNCHANGED <<clock, monVars>>

GainRoot(p) ==
    /\ p # 1 /\ Live(p)
    /\ owed' = owed \cup {o \in {<<"privesc", p>>} :
                             p \in untrusted /\ proc[p].image \notin Elevators}
    /\ Queued([what |-> "uid", pid |-> p], {})
    /\ UNCHANGED <<proc, untrusted, guardRoots, clock, monVars>>

(* p attaches to t.  A detach is reported with 0 for a tracer, which       *)
(* on_ptrace ignores.                                                      *)
Trace(p, t) ==
    /\ p # 1 /\ Live(p) /\ Live(t) /\ p # t
    /\ owed' = owed \cup {o \in {"ptrace", "ptrace guarded"} \X {p} :
                             /\ proc[p].image \notin Debuggers
                             /\ o[1] = "ptrace guarded" => t \in untrusted}
    /\ Queued([what |-> "ptrace", by |-> p, pid |-> t], {})
    /\ UNCHANGED <<proc, untrusted, guardRoots, clock, monVars>>

(* The kernel reports threads as well: a thread's fork carries the id of   *)
(* its process and of that process's parent, and its end the id alone.     *)
ThreadEvent(p) ==
    /\ p # 1 /\ Live(p)
    /\ \E e \in {[what |-> "fork", by |-> proc[p].parent, pid |-> p],
                 [what |-> "exit", pid |-> p]} : Queued(e, {"thread"})
    /\ UNCHANGED <<proc, untrusted, guardRoots, clock, monVars, owed>>

Tick == /\ clock < MaxClock
        /\ clock' = clock + 1
        /\ UNCHANGED <<kernelVars, queue, overrun, monVars, owed>>

----------------------------------------------------------------------------
(* seed_from_proc: read the processes one by one, then hand the guard of   *)
(* each guarded one down the tree.  What is known of other pids stays.     *)

SeedRead(p) ==
    /\ phase = "seeding" /\ p \in todo
    /\ todo' = todo \ {p}
    /\ procs' = IF ~Live(p) THEN procs
                ELSE [procs EXCEPT ![p] =
                         [parent |-> IF p = 1 THEN 0 ELSE proc[p].parent,
                          image |-> proc[p].image,
                          root |-> IF proc[p].image \in Guarded THEN p ELSE 0,
                          started |-> clock - Grace]]
    /\ UNCHANGED <<kernelVars, queue, overrun, clock, phase, verdict, reports, strays, owed>>

(* The nearest guarded process at or above p, if the climb meets one.      *)
Nearest(p) ==
    LET up[n \in 0..32] == [q \in Pids \cup {0} |->
            IF q <= 1 \/ ~Known(q) THEN 0
            ELSE IF procs[q].root # 0 THEN q
            ELSE IF n = 0 THEN 0 ELSE up[n - 1][procs[q].parent]]
    IN up[32][p]

SeedSpread ==
    /\ phase = "seeding" /\ todo = {}
    /\ phase' = "watching"
    /\ procs' = [p \in Pids |->
                    IF ~Known(p) \/ Nearest(p) = 0 THEN procs[p]
                    ELSE [procs[p] EXCEPT !.root = procs[Nearest(p)].root,
                                          !.started = procs[Nearest(p)].started]]
    /\ UNCHANGED <<kernelVars, queue, overrun, clock, todo, verdict, reports, strays, owed>>

(* recv reports a lost event before the ones still queued.                 *)
Resync == /\ phase = "watching" /\ overrun
          /\ overrun' = FALSE
          /\ phase' = "seeding" /\ todo' = Pids
          /\ UNCHANGED <<kernelVars, queue, clock, procs, verdict, reports, strays, owed>>

----------------------------------------------------------------------------
(* The handlers.                                                           *)

Receive(what) == /\ phase = "watching" /\ ~overrun
                 /\ queue # <<>> /\ Head(queue).what = what
                 /\ queue' = Tail(queue)

event == Head(queue)
Tracked == Cardinality({p \in Pids : Known(p)})

(* Mutants: a child starts with a clean record; it is a root of its own.   *)
ChildTrusted(p) == [parent |-> p, image |-> IF Known(p) THEN procs[p].image ELSE "unknown",
                    root |-> 0, started |-> 0]
ChildIsRoot(p) == [parent |-> p, image |-> IF Known(p) THEN procs[p].image ELSE "unknown",
                   root |-> p, started |-> clock]

(* A child starts as a copy of what is known of its parent.                *)
Child(p) == IF Known(p) THEN [procs[p] EXCEPT !.parent = p]
            ELSE [parent |-> p, image |-> "unknown", root |-> 0, started |-> 0]

OnFork ==
    /\ Receive("fork")
    /\ IF Tracked > MaxProcs
       THEN disturbed' = disturbed \cup {"full"} /\ UNCHANGED procs
       ELSE procs' = [procs EXCEPT ![event.pid] = Child(event.by)] /\ UNCHANGED disturbed
    /\ UNCHANGED <<proc, untrusted, guardRoots, events, overrun, clock, phase, todo, verdict,
                   reports, strays, owed>>

OnExit ==
    /\ Receive("exit")
    /\ procs' = [procs EXCEPT ![event.pid] = None]
    /\ UNCHANGED <<kernelVars, overrun, clock, phase, todo, verdict, reports, strays, owed>>

(* on_exec up to its verdict; that a running program's file was deleted is *)
(* only reported, and is left out.  A guarded image makes a new root; a root    *)
(* that runs something else has been replaced in place.                    *)
Examined(p) ==
    LET image == proc[p].image
        old == IF Known(p) THEN procs[p]
               ELSE [parent |-> 0, image |-> "unknown", root |-> 0, started |-> 0]
        parent == IF old.parent = 0 THEN proc[p].parent ELSE old.parent
    IN IF image \in Guarded
       THEN [parent |-> parent, image |-> image, root |-> p, started |-> clock]
       ELSE [old EXCEPT !.parent = parent, !.image = image]

(* Mutant: only the root's own processes, not what replaced it in place.   *)
InTreeBelow(p, new) == new.root \notin {0, p}

InTree(p, new) == /\ new.root # 0
                  /\ new.root = p => Known(p) /\ procs[p].image # new.image
InGrace(new) == clock - new.started < Grace

(* Mutant: a payload is an offence wherever it runs.                       *)
LineageAnywhere(p, new) == new.image \in Payload /\ ~InGrace(new) /\ Known(p)

Lineage(p, new) == /\ InTree(p, new)
                   /\ new.image \in Payload
                   /\ ~InGrace(new)

OnExec ==
    /\ Receive("exec")
    /\ LET p == event.pid
           new == Examined(p)
           judged == Live(p) /\ new.image \notin Guarded \cup Ignored
       IN /\ procs' = IF Live(p) THEN [procs EXCEPT ![p] = new] ELSE procs
          /\ verdict' = IF judged /\ Lineage(p, new) THEN {<<"lineage", p>>}
                        ELSE IF judged /\ new.image \in Temp THEN {<<"temp", p>>} ELSE {}
          /\ phase' = IF verdict' = {} THEN phase ELSE "striking"
    /\ UNCHANGED <<kernelVars, overrun, clock, todo, reports, strays, owed>>

(* maybe_kill goes by the pid, and the alert follows.                      *)
Strike ==
    /\ phase = "striking"
    /\ \E v \in verdict :
          /\ reports' = reports \cup {v}
          /\ IF KillOnDetect /\ v[2] # 1 /\ Live(v[2])
             THEN /\ Ends(v[2], {})
                  /\ strays' = strays \cup (IF v[2] \in untrusted THEN {}
                                            ELSE {proc[v[2]].image} \ Temp)
             ELSE UNCHANGED <<kernelVars, queue, overrun, strays, owed>>
    /\ verdict' = {}
    /\ phase' = "watching"
    /\ UNCHANGED <<clock, todo, procs>>

(* on_uid_change looks and reports, and changes nothing else.              *)
RootOf(p) == IF Known(p) THEN procs[p].root ELSE 0

OnUid ==
    /\ Receive("uid")
    /\ LET p == event.pid
           noted == /\ Live(p) /\ proc[p].image \notin Elevators
                    /\ RootOf(p) # 0 \/ proc[p].image \in Temp
       IN reports' = IF noted THEN reports \cup {<<"privesc", p>>} ELSE reports
    /\ UNCHANGED <<kernelVars, overrun, clock, phase, todo, procs, verdict, strays, owed>>

(* on_ptrace: who attaches, and whether the target is in a guarded tree.   *)
OnPtrace ==
    /\ Receive("ptrace")
    /\ LET p == event.by
           noted == p # event.pid /\ Live(p) /\ proc[p].image \notin Debuggers
           signals == {"ptrace"} \cup {s \in {"ptrace guarded"} : RootOf(event.pid) # 0}
       IN reports' = IF noted THEN reports \cup (signals \X {p}) ELSE reports
    /\ UNCHANGED <<kernelVars, overrun, clock, phase, todo, procs, verdict, strays, owed>>

Seed == SeedSpread \/ \E p \in Pids : SeedRead(p)
Handle == OnFork \/ OnExit \/ OnExec \/ Strike \/ OnUid \/ OnPtrace
Kernel == /\ events < MaxEvents
          /\ \E p \in Pids :
             \/ Exit(p) \/ GainRoot(p) \/ ThreadEvent(p)
             \/ \E q \in Pids : Fork(p, q) \/ Trace(q, p)
             \/ \E i \in Images : Exec(p, i)

Next == Seed \/ Resync \/ Handle \/ Kernel \/ Tick

Spec == Init /\ [][Next]_vars

----------------------------------------------------------------------------
CaughtUp == phase = "watching" /\ queue = <<>> /\ ~overrun

(* "BackMaster then treats its whole process tree as untrusted"            *)
(* (backmaster.conf:84): once every event is handled, each process that    *)
(* runs a guarded program or descends from one, whatever has become of the *)
(* processes in between, is known to have a guarded root.                  *)
TreeKnown == CaughtUp => \A p \in untrusted : RootOf(p) # 0

(* So it is as long as nothing of Kinds has happened.                      *)
TreeUntrusted == disturbed = {} => TreeKnown

(* The same with threads: on_fork and on_exit run for the events of        *)
(* threads too, and treat them as those of the process.                    *)
TreeUntrustedWithThreads == disturbed \subseteq {"thread"} => TreeKnown

(* A payload started in a guarded tree outside every grace period, a       *)
(* process of one that becomes root, and one that attaches to another,     *)
(* with whether that is in a guarded tree, are reported once the events    *)
(* are handled, as long as nothing of Kinds has happened.                  *)
OffencesReported == CaughtUp /\ disturbed = {} => owed \subseteq reports

(* A kill hits a process of a guarded tree or one from a scratch           *)
(* directory, however late it comes, unless the process went on meanwhile, *)
(* events were lost or threads reported.                                   *)
KillsOffenders == disturbed = {} => strays = {}

(* No lineage is invented: the root recorded for a process is a pid that   *)
(* did run a guarded program, whatever events were lost, late or about     *)
(* threads.                                                                *)
RootsWereGuarded == \A p \in Pids : RootOf(p) # 0 => RootOf(p) \in guardRoots
=============================================================================
