----------------------------- MODULE SockWatch -----------------------------
(***************************************************************************)
(* SockWatch: the thread that looks at the socket tables every few seconds *)
(* for new listeners and for shells whose standard streams are a socket.   *)
(*                                                                         *)
(* A scan reads the tables, then walks /proc to find who holds which       *)
(* socket, then judges one socket after another by what its holder runs    *)
(* and has on its streams at that moment.  Processes open, hand on and     *)
(* close sockets between any two of these, and between two scans.          *)
(***************************************************************************)
EXTENDS Integers, FiniteSets, FiniteSetsExt

CONSTANTS
    Pids,       \* naturals; a pid is used once
    Inodes,     \* numbers of sockets, each used once
    Keys,       \* local address, port and protocol
    Quiet,      \* those on loopback, and unprivileged UDP ports
    MaxEvents   \* bound: what the processes do

ASSUME SockAssumption ==
    /\ Pids \subseteq Nat \ {0} /\ IsFiniteSet(Pids)
    /\ 0 \notin Inodes /\ Quiet \subseteq Keys
    /\ MaxEvents \in Nat

VARIABLES
    proc,       \* what each process runs
    stdio,      \* the socket it has for its standard streams, 0 for none
    sock,       \* the type and the key of each socket
    holders,    \* who has it open
    events,     \* number of steps of the processes
    phase,      \* "wait", "map", "listeners" or "shells"
    first,      \* first_pass
    snap,       \* the sockets of the tables as read
    owner,      \* inode_pid
    todo,       \* the sockets still to be judged
    known,      \* known_listeners_
    reported,   \* reported_revshell_
    alive,      \* still_alive
    alerts,     \* history: what was reported
    before,     \* history: the sockets the previous scan read,
    baseline,   \*   and those open at the first
    wired,      \* history: the shells on a remote socket since this scan began
    exposed     \* history: the listeners only suspects have held since then

procVars == <<proc, stdio, sock, holders, events>>
scanVars == <<phase, first, snap, owner, todo, known, reported, alive>>
sockVars == <<procVars, scanVars, alerts, before, baseline, wired, exposed>>

(* Interpreters, programs in a scratch directory, and all others.          *)
Images == {"shell", "scratch", "plain"}
Suspects == {"shell", "scratch"}
NoSock == [type |-> "none"]
Socket == [type : {"listen"}, key : Keys] \cup [type : {"remote"}]
Alert == [what : {"listener"}, inode : Inodes, old : BOOLEAN]
         \cup [what : {"shell"}, pid : Pids, on : {"listen", "remote"}]

(* The map names processes or nobody, and what is on the streams of a      *)
(* process is a socket it has open.                                        *)
SockTypeOK ==
    /\ proc \in [Pids -> Images \cup {"new", "gone"}]
    /\ stdio \in [Pids -> Inodes \cup {0}]
    /\ sock \in [Inodes -> Socket \cup {NoSock}]
    /\ holders \in [Inodes -> SUBSET Pids]
    /\ events \in 0..MaxEvents
    /\ phase \in {"wait", "map", "listeners", "shells"}
    /\ first \in BOOLEAN
    /\ {snap, todo, before, baseline, exposed} \subseteq SUBSET Inodes
    /\ owner \in [Inodes -> Pids \cup {0}]
    /\ known \subseteq Keys
    /\ reported \subseteq Pids /\ alive \subseteq Pids
    /\ alerts \subseteq Alert
    /\ wired \subseteq Pids \X Inodes
    /\ \A p \in Pids : stdio[p] # 0 => p \in holders[stdio[p]]

SockInit ==
    /\ proc \in [Pids -> {"shell", "plain", "new"}]
    /\ stdio = [p \in Pids |-> 0]
    /\ sock = [i \in Inodes |-> NoSock]
    /\ holders = [i \in Inodes |-> {}]
    /\ events = 0
    /\ phase = "wait" /\ first = TRUE /\ snap = {} /\ todo = {}
    /\ owner = [i \in Inodes |-> 0]
    /\ known = {} /\ reported = {} /\ alive = {} /\ alerts = {}
    /\ before = {} /\ baseline = {} /\ wired = {} /\ exposed = {}

Live(p) == proc[p] \in Images
Type(i) == sock[i].type
OpenSocks == {i \in Inodes : holders[i] # {}}
Listeners(S) == {i \in S : Type(i) = "listen"}
KeysOf(S) == {sock[i].key : i \in Listeners(S)}

Wired == {w \in Pids \X Inodes : /\ proc[w[1]] = "shell" /\ stdio[w[1]] = w[2]
                                 /\ Type(w[2]) = "remote"}
Exposed == {i \in Listeners(OpenSocks) : \A p \in holders[i] : proc[p] \in Suspects}

----------------------------------------------------------------------------
(* The processes.                                                          *)

Happens == /\ events < MaxEvents
           /\ events' = events + 1
           /\ wired' = wired \cap Wired'
           /\ exposed' = exposed \cap Exposed'
           /\ UNCHANGED <<scanVars, alerts, before, baseline>>

Spawn(p, c) ==
    /\ Live(p) /\ proc[c] = "new" /\ c > p
    /\ proc' = [proc EXCEPT ![c] = proc[p]]
    /\ \/ UNCHANGED <<stdio, holders>>
       \/ /\ stdio' = [stdio EXCEPT ![c] = stdio[p]]
          /\ holders' = [i \in Inodes |-> IF p \in holders[i] THEN holders[i] \cup {c}
                                                              ELSE holders[i]]
    /\ UNCHANGED sock
    /\ Happens

Exec(p, image) == /\ Live(p) /\ proc[p] # image
                  /\ proc' = [proc EXCEPT ![p] = image]
                  /\ UNCHANGED <<stdio, sock, holders>>
                  /\ Happens

OpenSock(p, i, s) == /\ Live(p) /\ sock[i] = NoSock
                     /\ sock' = [sock EXCEPT ![i] = s]
                     /\ holders' = [holders EXCEPT ![i] = {p}]
                     /\ UNCHANGED <<proc, stdio>>
                     /\ Happens

Wire(p, i) == /\ p \in holders[i] /\ stdio[p] # i
              /\ stdio' = [stdio EXCEPT ![p] = i]
              /\ UNCHANGED <<proc, sock, holders>>
              /\ Happens

CloseSock(p, i) == /\ p \in holders[i]
                   /\ holders' = [holders EXCEPT ![i] = @ \ {p}]
                   /\ stdio' = [stdio EXCEPT ![p] = IF @ = i THEN 0 ELSE @]
                   /\ UNCHANGED <<proc, sock>>
                   /\ Happens

Exit(p) == /\ Live(p)
           /\ proc' = [proc EXCEPT ![p] = "gone"]
           /\ stdio' = [stdio EXCEPT ![p] = 0]
           /\ holders' = [i \in Inodes |-> holders[i] \ {p}]
           /\ UNCHANGED sock
           /\ Happens

----------------------------------------------------------------------------
(* A scan.                                                                 *)

ReadSockets ==
    /\ phase = "wait"
    /\ phase' = "map"
    /\ snap' = OpenSocks
    /\ baseline' = IF first THEN OpenSocks ELSE baseline
    /\ before' = snap
    /\ wired' = Wired /\ exposed' = Exposed
    /\ UNCHANGED <<procVars, first, owner, todo, known, reported, alive, alerts>>

(* /proc is listed in the order of the pids, and the first holder stays.   *)
HolderOrNone(i) == IF holders[i] = {} THEN 0 ELSE Min(holders[i])

BuildMap ==
    /\ phase = "map"
    /\ owner' = [i \in Inodes |-> HolderOrNone(i)]
    /\ phase' = "listeners"
    /\ todo' = Listeners(snap)
    /\ UNCHANGED <<procVars, first, snap, known, reported, alive, alerts, before, baseline,
                   wired, exposed>>

Runs(i) == IF owner[i] = 0 THEN "unknown" ELSE proc[owner[i]]

(* Mutant: only what is exposed counts, whoever holds it.                  *)
NotableExposed(i) == sock[i].key \notin Quiet

(* Worth an alert: held by a suspect, or new to the outside world.         *)
Notable(i) == Runs(i) \in Suspects \/ sock[i].key \notin Quiet

JudgeListener(i) ==
    /\ phase = "listeners" /\ i \in todo
    /\ todo' = todo \ {i}
    /\ alerts' = IF first \/ sock[i].key \in known \/ ~Notable(i) THEN alerts
                 ELSE alerts \cup {[what |-> "listener", inode |-> i, old |-> i \in before]}
    /\ UNCHANGED <<procVars, phase, first, snap, owner, known, reported, alive, before,
                   baseline, wired, exposed>>

(* Mutant: only the listeners of the first scan are remembered.            *)
ListenersDoneOnce ==
    /\ phase = "listeners" /\ todo = {}
    /\ known' = IF first THEN KeysOf(snap) ELSE known
    /\ phase' = "shells"
    /\ todo' = {i \in snap : Type(i) = "remote"}
    /\ alive' = {}
    /\ UNCHANGED <<procVars, first, snap, owner, reported, alerts, before, baseline,
                   wired, exposed>>

ListenersDone ==
    /\ phase = "listeners" /\ todo = {}
    /\ known' = KeysOf(snap)
    /\ phase' = "shells"
    /\ todo' = {i \in snap : Type(i) = "remote"}
    /\ alive' = {}
    /\ UNCHANGED <<procVars, first, snap, owner, reported, alerts, before, baseline,
                   wired, exposed>>

(* The holder of a remote connection is a shell, and has a socket of the   *)
(* tables, not necessarily this one, on its standard streams.              *)
IsShell(p) == p # 0 /\ proc[p] = "shell" /\ stdio[p] \in snap

(* Mutant: still_alive is filled before the tests rather than after them.  *)
JudgeShellEarly(i) ==
    /\ phase = "shells" /\ i \in todo
    /\ todo' = todo \ {i}
    /\ LET p == owner[i]
           hit == {q \in {p} : IsShell(p)}
       IN /\ alive' = alive \cup ({p} \ {0})
          /\ alerts' = alerts \cup {[what |-> "shell", pid |-> q, on |-> Type(stdio[q])] :
                                       q \in hit \ reported}
    /\ UNCHANGED <<procVars, phase, first, snap, owner, known, reported, before, baseline,
                   wired, exposed>>

JudgeShell(i) ==
    /\ phase = "shells" /\ i \in todo
    /\ todo' = todo \ {i}
    /\ LET p == owner[i]
           hit == {q \in {p} : IsShell(p)}
       IN /\ alive' = alive \cup hit
          /\ alerts' = alerts \cup {[what |-> "shell", pid |-> q, on |-> Type(stdio[q])] :
                                       q \in hit \ reported}
    /\ UNCHANGED <<procVars, phase, first, snap, owner, known, reported, before, baseline,
                   wired, exposed>>

ShellsDone ==
    /\ phase = "shells" /\ todo = {}
    /\ phase' = "wait"
    /\ reported' = alive
    /\ first' = FALSE
    /\ UNCHANGED <<procVars, snap, owner, todo, known, alive, alerts, before, baseline,
                   wired, exposed>>

Processes == \E p \in Pids : \/ Exit(p)
                             \/ \E c \in Pids : Spawn(p, c)
                             \/ \E image \in Images : Exec(p, image)
                             \/ \E i \in Inodes : \/ Wire(p, i) \/ CloseSock(p, i)
                                                  \/ \E s \in Socket : OpenSock(p, i, s)
ScanStep == \/ ReadSockets \/ BuildMap \/ ListenersDone \/ ShellsDone
            \/ \E i \in todo : JudgeListener(i) \/ JudgeShell(i)

SockNext == Processes \/ ScanStep

SockSpec == SockInit /\ [][SockNext]_sockVars

----------------------------------------------------------------------------
(* A scan has ended and the next has not begun.                            *)
Scanned == phase = "wait" /\ ~first
HasAlert(i) == \E a \in alerts : a.what = "listener" /\ a.inode = i

(* A listener the previous scan read is never reported as new, whatever    *)
(* opened and closed in between: known_listeners_ is replaced by this      *)
(* scan's keys only when every listener of it has been judged.             *)
NewIsNew == \A a \in alerts : a.what = "listener" => ~a.old

Reported(p) == \E a \in alerts : a.what = "shell" /\ a.pid = p

(* A shell that has kept a remote connection on its standard streams since *)
(* a scan began has been reported when the scan ends, though the tables,   *)
(* the map and the streams were read at different times; unless the map    *)
(* names another process that has the connection open as well.             *)
OwnerReported == Scanned => \A w \in wired : owner[w[2]] = w[1] => Reported(w[1])

(* The same without the exception: a shell whose standard streams are a    *)
(* socket is a thing a backdoor cannot hide (sockwatch.hpp:15).            *)
ShellsReported == Scanned => \A w \in wired : Reported(w[1])

Excused(i) == \/ i \in baseline \/ sock[i].key \in KeysOf(before)
              \/ owner[i] \notin holders[i]

(* A listener that only interpreters and programs in scratch directories   *)
(* have held since a scan began has been reported when the scan ends,      *)
(* unless its address and port were listened on at the scan before, it is  *)
(* of the baseline, or the owner the map names has handed it on.           *)
ListenersReported == Scanned => \A i \in exposed : HasAlert(i) \/ Excused(i)

(* The same without the exception for a port that changed hands between    *)
(* two scans: sockwatch.hpp calls a listening process a thing a backdoor   *)
(* cannot hide.                                                            *)
ListenersCannotHide ==
    Scanned => \A i \in exposed : \/ HasAlert(i) \/ i \in baseline \/ i \in before
                                  \/ owner[i] \notin holders[i]

----------------------------------------------------------------------------
(* Why these hold.                                                         *)

(* What a scan has read stays what it was: a socket keeps its type and its *)
(* key, and a process that the map names does not start a second time.     *)
HoldersInv ==
    /\ \A i \in Inodes : holders[i] # {} => sock[i] # NoSock
    /\ \A i \in Inodes : \A p \in holders[i] : Live(p)
    /\ \A i \in snap \cup before \cup baseline : sock[i] # NoSock
    /\ \A i \in Inodes : owner[i] # 0 => proc[owner[i]] # "new"

(* known_listeners_ is one scan behind until the listeners are judged.     *)
ScanInv ==
    /\ known = KeysOf(IF phase \in {"map", "listeners"} THEN before ELSE snap)
    /\ first => baseline = snap
    /\ phase = "listeners" => todo \subseteq Listeners(snap)
    /\ phase = "shells" => todo \subseteq snap
    /\ NewIsNew

(* Whom the scan is done with it has reported, or has met as another than  *)
(* the one the property is about.                                          *)
ShellsInv ==
    /\ \A p \in reported \cup alive : Reported(p)
    /\ \A w \in wired : w \in Wired /\ w[2] \in snap
    /\ phase \in {"shells", "wait"} =>
          \A w \in wired : owner[w[2]] = w[1] => \/ (phase = "shells" /\ w[2] \in todo)
                                                  \/ Reported(w[1])

ListenersInv ==
    /\ exposed \subseteq snap \cap Exposed
    /\ phase # "map" =>
          \A i \in exposed : \/ (phase = "listeners" /\ i \in todo)
                             \/ HasAlert(i) \/ Excused(i)

SockInv == SockTypeOK /\ HoldersInv /\ ScanInv /\ ShellsInv /\ ListenersInv
=============================================================================
