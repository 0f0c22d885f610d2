--------------------------- MODULE NetWatchProofs ---------------------------
(***************************************************************************)
(* Theorems about the two watchers of the network: SockWatch, for any      *)
(* processes, sockets and keys, and KmsgWatch, for any sources, ports and  *)
(* thresholds. The two modules share no variable: each theorem is about    *)
(* the specification it names, SockSpec of SockWatch or Spec of KmsgWatch. *)
(***************************************************************************)
EXTENDS SockWatch, KmsgWatch, FiniteSetTheorems, SequenceTheorems, WellFoundedInduction,
        TLAPS

(***************************************************************************)
(* SockWatch.                                                              *)
(***************************************************************************)

LEMMA MinIsLeast ==
    ASSUME NEW S, S \subseteq Nat, S # {}
    PROVE  Min(S) \in S
<1>1. PICK x \in S : \A y \in S : <<y, x>> \notin OpToRel(<, Nat)
  BY NatLessThanWellFounded, WFMin, Zenon
<1>2. \A y \in S : ~(y < x)
  BY <1>1, Zenon DEF OpToRel
<1>3. \A y \in S : x <= y
  BY <1>2
<1> QED BY <1>3 DEF Min

(***************************************************************************)
(* The processes: their part of the invariant, and what a step of theirs   *)
(* leaves to the scan.                                                     *)
(***************************************************************************)

ProcInv ==
    /\ proc \in [Pids -> Images \cup {"new", "gone"}]
    /\ stdio \in [Pids -> Inodes \cup {0}]
    /\ sock \in [Inodes -> Socket \cup {NoSock}]
    /\ holders \in [Inodes -> SUBSET Pids]
    /\ events \in 0..MaxEvents
    /\ \A p \in Pids : stdio[p] # 0 => p \in holders[stdio[p]]
    /\ \A i \in Inodes : holders[i] # {} => sock[i] # NoSock
    /\ \A i \in Inodes : \A p \in holders[i] : Live(p)

Moved ==
    /\ UNCHANGED <<scanVars, alerts, before, baseline>>
    /\ wired' = wired \cap Wired' /\ exposed' = exposed \cap Exposed'
    /\ \A i \in Inodes : sock[i] # NoSock =>
          /\ sock'[i] = sock[i]
          /\ \A p \in holders'[i] : p \in holders[i] \/ proc[p] = "new"
    /\ \A p \in Pids : proc[p] # "new" => proc'[p] # "new"

LEMMA SocketIsSocket == \A s \in Socket : s # NoSock /\ s.type \in {"listen", "remote"}
BY DEF Socket, NoSock

LEMMA ProcessesMove ==
    ASSUME SockAssumption, ProcInv, Processes
    PROVE  ProcInv' /\ Moved
<1> USE SockAssumption DEF ProcInv, Moved, Happens, Live, Images
<1>1. events' \in 0..MaxEvents
  BY DEF Processes, Spawn, Exec, OpenSock, Wire, CloseSock, Exit
<1>2. ASSUME NEW p \in Pids, Exit(p) PROVE ProcInv' /\ Moved
  BY <1>1, <1>2 DEF Exit
<1>3. ASSUME NEW p \in Pids, NEW c \in Pids, Spawn(p, c) PROVE ProcInv' /\ Moved
  <2>1. c # p /\ proc[c] = "new" /\ proc[p] \in Images
    BY <1>3 DEF Spawn
  <2>2. stdio' = stdio \/ stdio' = [stdio EXCEPT ![c] = stdio[p]]
    BY <1>3 DEF Spawn
  <2>3. \A i \in Inodes : \/ holders'[i] = holders[i]
                          \/ p \in holders[i] /\ holders'[i] = holders[i] \cup {c}
    BY <1>3 DEF Spawn
  <2>4. holders' \in [Inodes -> SUBSET Pids] /\ stdio' \in [Pids -> Inodes \cup {0}]
    BY <1>3 DEF Spawn
  <2>5. \A q \in Pids : stdio'[q] # 0 => q \in holders'[stdio'[q]]
    BY <1>3, <2>1 DEF Spawn
  <2>6. /\ proc' \in [Pids -> Images \cup {"new", "gone"}]
        /\ proc'[c] \in Images /\ \A q \in Pids \ {c} : proc'[q] = proc[q]
        /\ sock' = sock
    BY <1>3 DEF Spawn
  <2>7. ProcInv'
    BY <1>1, <2>1, <2>3, <2>4, <2>5, <2>6
  <2> QED BY <1>3, <2>1, <2>3, <2>6, <2>7 DEF Spawn
<1>4. ASSUME NEW p \in Pids, NEW image \in Images, Exec(p, image) PROVE ProcInv' /\ Moved
  BY <1>1, <1>4 DEF Exec
<1>5. ASSUME NEW p \in Pids, NEW i \in Inodes, Wire(p, i) PROVE ProcInv' /\ Moved
  BY <1>1, <1>5 DEF Wire
<1>6. ASSUME NEW p \in Pids, NEW i \in Inodes, CloseSock(p, i) PROVE ProcInv' /\ Moved
  BY <1>1, <1>6 DEF CloseSock
<1>7. ASSUME NEW p \in Pids, NEW i \in Inodes, NEW s \in Socket, OpenSock(p, i, s)
      PROVE  ProcInv' /\ Moved
  BY <1>1, <1>7, SocketIsSocket DEF OpenSock
<1> QED BY <1>2, <1>3, <1>4, <1>5, <1>6, <1>7 DEF Processes

LEMMA ProcPart == SockTypeOK /\ HoldersInv => ProcInv
BY DEF SockTypeOK, HoldersInv, ProcInv

(* A step of the processes keeps the whole invariant.                      *)
LEMMA MovedKeeps ==
    ASSUME SockAssumption, SockInv, ProcInv', Moved
    PROVE  SockInv'
<1> USE DEF SockInv, scanVars
<1>1. {snap, todo, before, baseline, exposed} \subseteq SUBSET Inodes
  BY DEF SockTypeOK
<1>2. \A i \in snap \cup before \cup baseline : i \in Inodes /\ sock'[i] = sock[i]
  BY <1>1 DEF HoldersInv, Moved
<1>3. /\ KeysOf(before)' = KeysOf(before) /\ KeysOf(snap)' = KeysOf(snap)
      /\ Listeners(snap)' = Listeners(snap)
  BY <1>2 DEF KeysOf, Listeners, Type, Moved
<1>4. SockTypeOK'
  BY DEF SockTypeOK, ProcInv, Moved
<1>5. HoldersInv'
  <2>1. \A i \in Inodes : owner'[i] # 0 => proc'[owner'[i]] # "new"
    BY DEF HoldersInv, Moved, SockTypeOK
  <2> QED BY <1>2, <2>1 DEF HoldersInv, ProcInv, Moved
<1>6. ScanInv'
  BY <1>3 DEF ScanInv, NewIsNew, Moved
<1>7. ShellsInv'
  <2>1. \A p : Reported(p)' <=> Reported(p)
    BY DEF Reported, Moved
  <2>2. wired' \subseteq wired /\ wired' \subseteq Wired'
    BY DEF Moved
  <2> QED BY <2>1, <2>2 DEF ShellsInv, Moved
<1>8. ListenersInv'
  <2>1. exposed' \subseteq exposed /\ exposed' \subseteq Exposed'
    BY DEF Moved
  <2>2. \A i \in exposed : HasAlert(i)' <=> HasAlert(i)
    BY DEF HasAlert, Moved
  <2>3. ASSUME NEW i \in exposed', Excused(i) PROVE Excused(i)'
    <3>1. i \in Inodes /\ i \in snap /\ owner[i] \in Pids \cup {0}
      BY <2>1, <1>1 DEF ListenersInv, SockTypeOK
    <3>2. owner[i] \notin holders[i] => owner[i] \notin holders'[i]
      BY <3>1 DEF Moved, HoldersInv, SockTypeOK, SockAssumption, ProcInv
    <3>3. sock'[i].key = sock[i].key
      BY <3>1, <1>2
    <3> QED BY <2>3, <3>2, <3>3, <1>3 DEF Excused, Moved
  <2> QED BY <2>1, <2>2, <2>3 DEF ListenersInv, Moved
<1> QED BY <1>4, <1>5, <1>6, <1>7, <1>8

(***************************************************************************)
(* The scan.                                                               *)
(***************************************************************************)

LEMMA ReadKeeps ==
    ASSUME SockAssumption, SockInv, ReadSockets
    PROVE  SockInv'
<1> USE DEF SockInv, ReadSockets, procVars
<1>1. OpenSocks \subseteq Inodes /\ Exposed \subseteq OpenSocks
      /\ Wired \subseteq Pids \X Inodes
  BY DEF OpenSocks, Exposed, Listeners, Wired
<1>2. Wired' = Wired /\ Exposed' = Exposed
  BY DEF Wired, Exposed, Listeners, OpenSocks, Type
<1>3. SockTypeOK'
  BY <1>1 DEF SockTypeOK
<1>4. HoldersInv'
  BY DEF HoldersInv, OpenSocks, Live
<1>5. ScanInv'
  BY DEF ScanInv, NewIsNew, KeysOf, Listeners, Type
<1>6. ShellsInv'
  <2>1. \A w \in Wired : w[2] \in OpenSocks
    BY SockAssumption DEF Wired, OpenSocks, SockTypeOK
  <2> QED BY <1>2, <2>1 DEF ShellsInv, Reported
<1>7. ListenersInv'
  BY <1>1, <1>2 DEF ListenersInv
<1> QED BY <1>3, <1>4, <1>5, <1>6, <1>7

LEMMA MapKeeps ==
    ASSUME SockAssumption, SockInv, BuildMap
    PROVE  SockInv'
<1> USE DEF SockInv, BuildMap, procVars
<1>1. \A i \in Inodes : HolderOrNone(i) \in holders[i] \cup {0}
  <2>1. \A i \in Inodes : holders[i] # {} => Min(holders[i]) \in holders[i]
    BY MinIsLeast, SockAssumption DEF SockTypeOK
  <2> QED BY <2>1 DEF HolderOrNone
<1>2. /\ snap \subseteq Inodes /\ Listeners(snap) \subseteq snap
      /\ Listeners(snap)' = Listeners(snap)
  BY DEF SockTypeOK, Listeners, Type
<1>3. SockTypeOK'
  BY <1>1, <1>2 DEF SockTypeOK
<1>4. HoldersInv'
  BY <1>1 DEF HoldersInv, Live, Images, SockTypeOK
<1>5. ScanInv'
  BY <1>2 DEF ScanInv, NewIsNew, KeysOf, Listeners, Type
<1>6. ShellsInv'
  BY DEF ShellsInv, Reported, Wired, Type
<1>7. ListenersInv'
  <2>1. exposed \subseteq Listeners(snap)
    BY DEF ListenersInv, Exposed, Listeners
  <2>2. Exposed' = Exposed
    BY DEF Exposed, Listeners, OpenSocks, Type
  <2> QED BY <2>1, <2>2 DEF ListenersInv
<1> QED BY <1>3, <1>4, <1>5, <1>6, <1>7

LEMMA ListenersDoneKeeps ==
    ASSUME SockAssumption, SockInv, ListenersDone
    PROVE  SockInv'
<1> USE DEF SockInv, ListenersDone, procVars
<1>1. /\ KeysOf(before)' = KeysOf(before) /\ KeysOf(snap)' = KeysOf(snap)
      /\ Exposed' = Exposed /\ Wired' = Wired
  BY DEF KeysOf, Listeners, Type, Exposed, OpenSocks, Wired
<1>2. snap \subseteq Inodes
  BY DEF SockTypeOK
<1>3. KeysOf(snap) \subseteq Keys
  BY <1>2 DEF KeysOf, Listeners, Type, SockTypeOK, Socket, NoSock
<1>4. SockTypeOK'
  BY <1>2, <1>3 DEF SockTypeOK
<1>5. HoldersInv'
  BY DEF HoldersInv, Live
<1>6. ScanInv'
  BY <1>1 DEF ScanInv, NewIsNew
<1>7. ShellsInv'
  BY <1>1 DEF ShellsInv, Reported, Wired, Type
<1>8. ListenersInv'
  BY <1>1 DEF ListenersInv, HasAlert, Excused
<1> QED BY <1>4, <1>5, <1>6, <1>7, <1>8

LEMMA ShellsDoneKeeps ==
    ASSUME SockAssumption, SockInv, ShellsDone
    PROVE  SockInv'
<1> USE DEF SockInv, ShellsDone, procVars
<1>1. /\ KeysOf(before)' = KeysOf(before) /\ KeysOf(snap)' = KeysOf(snap)
      /\ Exposed' = Exposed /\ Wired' = Wired
  BY DEF KeysOf, Listeners, Type, Exposed, OpenSocks, Wired
<1>2. SockTypeOK'
  BY DEF SockTypeOK
<1>3. HoldersInv'
  BY DEF HoldersInv, Live
<1>4. ScanInv'
  BY <1>1 DEF ScanInv, NewIsNew
<1>5. ShellsInv'
  BY <1>1 DEF ShellsInv, Reported
<1>6. ListenersInv'
  BY <1>1 DEF ListenersInv, HasAlert, Excused
<1> QED BY <1>2, <1>3, <1>4, <1>5, <1>6

LEMMA AlertKinds ==
    /\ \A i \in Inodes : \A b \in BOOLEAN :
          [what |-> "listener", inode |-> i, old |-> b] \in Alert
    /\ \A p \in Pids : \A t \in {"listen", "remote"} :
          [what |-> "shell", pid |-> p, on |-> t] \in Alert
BY DEF Alert

(* A listener of the previous scan is a known one, one of the first scan   *)
(* is of the baseline, and one whose holders are all suspects is notable   *)
(* if the map names one of them.                                           *)
LEMMA JudgeListenerKeeps ==
    ASSUME SockAssumption, SockInv, NEW i \in todo, JudgeListener(i)
    PROVE  SockInv'
<1> USE DEF SockInv, procVars
<1> DEFINE new == [what |-> "listener", inode |-> i, old |-> i \in before]
<1>1. /\ phase = "listeners" /\ todo' = todo \ {i}
      /\ \/ alerts' = alerts /\ (first \/ sock[i].key \in known \/ ~Notable(i))
         \/ alerts' = alerts \cup {new} /\ sock[i].key \notin known
      /\ UNCHANGED <<procVars, phase, first, snap, owner, known, reported, alive, before,
                     baseline, wired, exposed>>
  BY DEF JudgeListener
<1>2. /\ KeysOf(before)' = KeysOf(before) /\ KeysOf(snap)' = KeysOf(snap)
      /\ Listeners(snap)' = Listeners(snap)
      /\ Exposed' = Exposed /\ Wired' = Wired
  BY <1>1 DEF KeysOf, Listeners, Type, Exposed, OpenSocks, Wired
<1>3. i \in Inodes /\ i \in snap /\ Type(i) = "listen"
  BY <1>1 DEF SockTypeOK, ScanInv, Listeners
<1>4. SockTypeOK'
  <2>1. new \in Alert
    <3>1. (i \in before) \in BOOLEAN
      OBVIOUS
    <3> QED BY <3>1, <1>3, AlertKinds, Zenon
  <2>2. alerts' \subseteq Alert
    BY <1>1, <2>1 DEF SockTypeOK
  <2> QED BY <1>1, <2>2 DEF SockTypeOK
<1>5. HoldersInv'
  BY <1>1 DEF HoldersInv, Live
<1>6. ScanInv'
  <2>1. i \in before => sock[i].key \in known
    BY <1>1, <1>3 DEF ScanInv, KeysOf, Listeners
  <2>2. sock[i].key \notin known => ~new.old
    <3>1. new.old <=> i \in before
      BY Zenon
    <3> QED BY <2>1, <3>1, Zenon
  <2>3. NewIsNew'
    BY <1>1, <2>2 DEF ScanInv, NewIsNew
  <2> QED BY <1>1, <1>2, <2>3 DEF ScanInv
<1>7. ShellsInv'
  <2>1. \A p : Reported(p) => Reported(p)'
    BY <1>1 DEF Reported
  <2> QED BY <1>1, <1>2, <2>1 DEF ShellsInv
<1>8. ListenersInv'
  <2>1. \A j : Excused(j)' <=> Excused(j)
    BY <1>1, <1>2 DEF Excused
  <2>2. \A j : HasAlert(j) => HasAlert(j)'
    BY <1>1 DEF HasAlert
  <2>3. ASSUME i \in exposed PROVE HasAlert(i)' \/ Excused(i)
    <3>1. CASE alerts' = alerts \cup {new}
      <4>1. new \in alerts' /\ new.what = "listener" /\ new.inode = i
        BY <3>1
      <4> QED BY <4>1, Zenon DEF HasAlert
    <3>2. CASE first
      BY <3>2, <1>3 DEF ScanInv, Excused
    <3>3. CASE sock[i].key \in known
      BY <3>3, <1>1 DEF ScanInv, Excused
    <3>4. CASE ~Notable(i)
      BY <3>4, <2>3, <1>3, SockAssumption
         DEF Notable, Runs, Excused, ListenersInv, Exposed, SockTypeOK, Suspects
    <3> QED BY <1>1, <3>1, <3>2, <3>3, <3>4
  <2> QED BY <1>1, <1>2, <2>1, <2>2, <2>3 DEF ListenersInv
<1> QED BY <1>4, <1>5, <1>6, <1>7, <1>8

(* A shell of wired is found by its own socket, or reported already.       *)
LEMMA JudgeShellKeeps ==
    ASSUME SockAssumption, SockInv, NEW i \in todo, JudgeShell(i)
    PROVE  SockInv'
<1> USE DEF SockInv, procVars
<1> DEFINE p == owner[i]
           new == [what |-> "shell", pid |-> p, on |-> Type(stdio[p])]
<1>1. /\ phase = "shells" /\ todo' = todo \ {i}
      /\ UNCHANGED <<procVars, phase, first, snap, owner, known, reported, before, baseline,
                     wired, exposed>>
  BY DEF JudgeShell
<1>2. /\ KeysOf(before)' = KeysOf(before) /\ KeysOf(snap)' = KeysOf(snap)
      /\ Exposed' = Exposed /\ Wired' = Wired
  BY <1>1 DEF KeysOf, Listeners, Type, Exposed, OpenSocks, Wired
<1>3. i \in Inodes /\ i \in snap
  BY <1>1 DEF SockTypeOK, ScanInv
<1>4. IsShell(p) => p \in Pids /\ new \in Alert
  <2>1. IsShell(p) => p \in Pids /\ stdio[p] \in Inodes /\ sock[stdio[p]] # NoSock
    BY <1>3 DEF IsShell, SockTypeOK, HoldersInv
  <2>2. IsShell(p) => Type(stdio[p]) \in {"listen", "remote"}
    BY <2>1, SocketIsSocket DEF Type, SockTypeOK
  <2> QED BY <2>1, <2>2, AlertKinds
<1>5. /\ alerts \subseteq alerts'
      /\ \A a \in alerts' : a \in alerts \/ a = new
      /\ alive \subseteq alive' /\ \A q \in alive' : q \in alive \/ (q = p /\ IsShell(p))
      /\ IsShell(p) => p \in reported \/ new \in alerts'
      /\ ~IsShell(p) => alerts' = alerts
  BY DEF JudgeShell
<1>6. SockTypeOK'
  <2>1. alerts' \subseteq Alert /\ alive' \subseteq Pids
    BY <1>4, <1>5 DEF SockTypeOK
  <2> QED BY <1>1, <2>1 DEF SockTypeOK
<1>7. HoldersInv'
  BY <1>1 DEF HoldersInv, Live
<1>8. ScanInv'
  <2>1. new.what # "listener"
    OBVIOUS
  <2>2. NewIsNew'
    BY <1>5, <2>1 DEF ScanInv, NewIsNew
  <2> QED BY <1>1, <1>2, <2>2 DEF ScanInv
<1>9. ShellsInv'
  <2>1. \A q : Reported(q) => Reported(q)'
    BY <1>5 DEF Reported
  <2>2. IsShell(p) => Reported(p)'
    <3>1. new \in alerts' => Reported(p)'
      <4>1. new.what = "shell" /\ new.pid = p
        OBVIOUS
      <4>2. owner' = owner
        BY <1>1
      <4> QED BY <4>1, <4>2, Zenon DEF Reported
    <3>2. p \in reported => Reported(p)'
      BY <1>1, <2>1 DEF ShellsInv
    <3> QED BY <1>5, <3>1, <3>2
  <2>3. \A w \in wired : w[2] = i /\ owner[w[2]] = w[1] => IsShell(p)
    BY SockAssumption DEF ShellsInv, Wired, IsShell, SockTypeOK
  <2>4. \A q \in reported' \cup alive' : Reported(q)'
    BY <1>1, <1>5, <2>1, <2>2 DEF ShellsInv
  <2>5. \A w \in wired : owner[w[2]] = w[1] => w[2] \in todo' \/ Reported(w[1])'
    BY <1>1, <2>1, <2>2, <2>3 DEF ShellsInv
  <2> QED BY <1>1, <1>2, <2>4, <2>5 DEF ShellsInv
<1>10. ListenersInv'
  BY <1>1, <1>2, <1>5 DEF ListenersInv, HasAlert, Excused
<1> QED BY <1>6, <1>7, <1>8, <1>9, <1>10

LEMMA SockInitHolds ==
    ASSUME SockAssumption, SockInit
    PROVE  SockInv
<1> USE SockAssumption DEF SockInit
<1>1. SockTypeOK
  BY DEF SockTypeOK, Images
<1>2. HoldersInv
  BY DEF HoldersInv
<1>3. ScanInv
  BY DEF ScanInv, NewIsNew, KeysOf, Listeners
<1>4. ShellsInv /\ ListenersInv
  BY DEF ShellsInv, ListenersInv
<1> QED BY <1>1, <1>2, <1>3, <1>4 DEF SockInv

LEMMA SockNextKeeps ==
    ASSUME SockAssumption, SockInv, [SockNext]_sockVars
    PROVE  SockInv'
<1>1. CASE Processes
  BY <1>1, ProcPart, ProcessesMove, MovedKeeps DEF SockInv
<1>2. CASE ScanStep
  BY <1>2, ReadKeeps, MapKeeps, ListenersDoneKeeps, ShellsDoneKeeps, JudgeListenerKeeps,
     JudgeShellKeeps DEF ScanStep
<1>3. CASE UNCHANGED sockVars
  <2>1. UNCHANGED <<procVars, scanVars, alerts, before, baseline, wired, exposed>>
    BY <1>3 DEF sockVars
  <2> USE <2>1 DEF procVars, scanVars
  <2>2. /\ KeysOf(before)' = KeysOf(before) /\ KeysOf(snap)' = KeysOf(snap)
        /\ Listeners(snap)' = Listeners(snap) /\ Exposed' = Exposed /\ Wired' = Wired
    BY DEF KeysOf, Listeners, Type, Exposed, OpenSocks, Wired
  <2>3. SockTypeOK' /\ HoldersInv' /\ ScanInv'
    BY <2>2 DEF SockInv, SockTypeOK, HoldersInv, Live, ScanInv, NewIsNew
  <2>4. ShellsInv' /\ ListenersInv'
    BY <2>2 DEF SockInv, ShellsInv, Reported, ListenersInv, HasAlert, Excused
  <2> QED BY <2>3, <2>4 DEF SockInv
<1> QED BY <1>1, <1>2, <1>3 DEF SockNext

LEMMA SockInvHolds == SockSpec => []SockInv
BY SockAssumption, SockInitHolds, SockNextKeeps, PTL DEF SockSpec

(***************************************************************************)
(* The theorems.                                                           *)
(***************************************************************************)

(* Every variable stays in its domain.                                     *)
THEOREM SockTypeCorrect == SockSpec => []SockTypeOK
<1>1. SockInv => SockTypeOK
  BY DEF SockInv
<1> QED BY <1>1, SockInvHolds, PTL

(* A listener of the previous scan is never reported as new.               *)
THEOREM NewListenersAreNew == SockSpec => []NewIsNew
<1>1. SockInv => NewIsNew
  BY DEF SockInv, ScanInv
<1> QED BY <1>1, SockInvHolds, PTL

(* A shell that keeps a remote connection on its streams through a scan is *)
(* reported by it, if the map names it as the holder.                      *)
THEOREM ShellsAreFound == SockSpec => []OwnerReported
<1>1. SockInv => OwnerReported
  BY DEF SockInv, ShellsInv, OwnerReported, Scanned
<1> QED BY <1>1, SockInvHolds, PTL

(* A listener only suspects hold through a scan is reported by it, but for *)
(* the exceptions Excused names.                                           *)
THEOREM ListenersAreFound == SockSpec => []ListenersReported
<1>1. SockInv => ListenersReported
  BY DEF SockInv, ListenersInv, ListenersReported, Scanned
<1> QED BY <1>1, SockInvHolds, PTL

(***************************************************************************)
(* KmsgWatch.                                                              *)
(***************************************************************************)

(***************************************************************************)
(* The probes of an interval.                                              *)
(***************************************************************************)

LEMMA PortsCount ==
    ASSUME KmsgAssumption, NEW T, T \subseteq Ports, NEW S, S \subseteq T
    PROVE  /\ IsFiniteSet(T) /\ IsFiniteSet(S)
           /\ Cardinality(T) \in Nat /\ Cardinality(S) \in Nat
           /\ Cardinality(S) <= Cardinality(T)
<1>1. IsFiniteSet(T)
  BY FS_Subset DEF KmsgAssumption
<1> QED BY <1>1, FS_Subset, FS_CardinalityType

PortsIn(H, s, from, to) == {h.port : h \in {g \in H : g.src = s /\ g.at \in from..to}}

LEMMA ProbedIs ==
    /\ WindowInv <=>
          /\ Len(ring) <= packets
          /\ \A s \in Held(probes) :
                LET st == probes[s]
                IN /\ st.start <= clock
                   /\ st.packets + Len(ring) <= packets
                   /\ st.ports = PortsIn(handled, s, st.start, clock)
                   /\ st.packets >= ProbeAlert => <<s, st.start>> \in alerted
                   /\ st.reported => /\ <<s, st.start>> \in alerted
                                     /\ \E r \in scans : r.src = s /\ r.at \in st.start..clock
    /\ ScansInv <=> \A r \in scans :
          Cardinality(PortsIn(handled, r.src, r.at - Window, r.at)) >= Threshold
    /\ \A s, starts : Windows(s, starts) <=>
          /\ \A b \in starts : b <= clock
          /\ \A a, b \in starts : a < b => a + Window < b
          /\ \A h \in handled : h.src = s => \E b \in starts : h.at \in b..(b + Window)
          /\ \A b \in starts : \A u \in b..(b + Window) :
                Cardinality(PortsIn(handled, s, b, u)) >= Threshold
                    => \E r \in scans : r.src = s /\ r.at \in b..u
          /\ IF s \in Held(probes)
             THEN probes[s].start \in starts /\ \A b \in starts : b <= probes[s].start
             ELSE \A b \in starts : b + 2 * Window < clock
BY DEF WindowInv, ScansInv, Windows, Probed, PortsIn

(***************************************************************************)
(* The handling of a probe.                                                *)
(***************************************************************************)

WindowOver(old) == old = NoState \/ clock - old.start > Window

LEMMA StatesDiffer == \A st \in ProbeState : st # NoState
<1>1. \A st \in ProbeState : "start" \in DOMAIN st
  BY DEF ProbeState
<1>2. "start" \notin DOMAIN NoState
  BY DEF NoState
<1> QED BY <1>1, <1>2

Opened(port) == [start |-> clock, ports |-> {port}, packets |-> 1, reported |-> FALSE]
Extended(old, port) == [start |-> old.start, ports |-> old.ports \cup {port},
                        packets |-> old.packets + 1, reported |-> old.reported]

LEMMA CountedIs ==
    ASSUME NEW old \in ProbeState \cup {NoState}, NEW port \in Ports
    PROVE  /\ WindowOver(old) => Counted(old, port) = Opened(port)
           /\ ~WindowOver(old) => old \in ProbeState /\ Counted(old, port) = Extended(old, port)
<1>1. ASSUME WindowOver(old)
      PROVE  Counted(old, port) = Opened(port)
  <2>1. Counted(old, port) = [Fresh EXCEPT !.ports = Fresh.ports \cup {port},
                                           !.packets = Fresh.packets + 1]
    BY <1>1 DEF Counted, WindowOver
  <2>2. Fresh.ports \cup {port} = {port} /\ Fresh.packets + 1 = 1
    BY DEF Fresh
  <2> QED BY <2>1, <2>2 DEF Fresh, Opened
<1>2. ASSUME ~WindowOver(old)
      PROVE  old \in ProbeState /\ Counted(old, port) = Extended(old, port)
  <2>1. old \in ProbeState
    BY <1>2 DEF WindowOver
  <2>2. Counted(old, port) = [old EXCEPT !.ports = old.ports \cup {port},
                                         !.packets = old.packets + 1]
    BY <1>2 DEF Counted, WindowOver
  <2> QED BY <2>1, <2>2 DEF ProbeState, Extended
<1> QED BY <1>1, <1>2

(* What the handling of a probe does, by the parts the proofs need.        *)
Step(src, port, st) ==
    /\ src \in Srcs /\ port \in Ports /\ st = Counted(probes[src], port)
    /\ ring # <<>> /\ ring' = Tail(ring)
    /\ handled' = handled \cup {[src |-> src, port |-> port, at |-> clock]}
    /\ probes' \in [Srcs -> ProbeState \cup {NoState}]
    /\ \/ NewScan(st) /\ probes'[src] = [st EXCEPT !.reported = TRUE]
       \/ ~NewScan(st) /\ probes'[src] = st
    /\ \A s \in Srcs \ {src} :
          \/ probes'[s] = probes[s]
          \/ /\ probes[s] # NoState /\ clock - probes[s].start > 2 * Window
             /\ probes'[s] = NoState
    /\ scans \subseteq scans'
    /\ \A r \in scans' : r \in scans \/ (NewScan(st) /\ r = [src |-> src, at |-> clock])
    /\ NewScan(st) => [src |-> src, at |-> clock] \in scans'
    /\ alerted \subseteq alerted' /\ alerted' \subseteq alerted \cup {<<src, st.start>>}
    /\ NewScan(st) \/ NewProbe(st) => <<src, st.start>> \in alerted'
    /\ UNCHANGED <<clock, packets>>
    /\ st \in ProbeState /\ st.start <= clock /\ clock - st.start <= Window
    /\ st.packets + Len(ring') <= packets /\ blocked' \subseteq Srcs

LEMMA OneMore ==
    ASSUME NEW a \in Nat, NEW n \in Nat, NEW m \in Nat, NEW k \in 0..m, n > 0, a + n <= k
    PROVE  a + 1 \in 1..m /\ a + 1 + (n - 1) <= k
OBVIOUS

LEMMA CountedIsState ==
    ASSUME KmsgAssumption, TypeOK, WindowInv, ring # <<>>, NEW src \in Srcs, NEW port \in Ports
    PROVE  LET st == Counted(probes[src], port)
           IN /\ st \in ProbeState /\ st.start <= clock /\ clock - st.start <= Window
              /\ st.packets + Len(Tail(ring)) <= packets
<1> DEFINE old == probes[src]  st == Counted(old, port)
<1>1. old \in ProbeState \cup {NoState}
  BY DEF TypeOK
<1>2. /\ clock \in 1..MaxClock /\ packets \in 0..MaxPackets /\ Len(ring) \in Nat
      /\ Len(Tail(ring)) = Len(ring) - 1 /\ Len(ring) > 0 /\ Len(ring) <= packets
      /\ MaxClock \in Nat /\ MaxPackets \in Nat /\ Window \in Nat
  BY DEF TypeOK, KmsgAssumption, WindowInv
<1>3. CASE WindowOver(old)
  <2>1. st = Opened(port)
    BY <1>1, <1>3, CountedIs
  <2>2. 1 \in 1..MaxPackets /\ 1 + (Len(ring) - 1) <= packets
    BY <1>2
  <2>3. st \in ProbeState /\ st.start = clock /\ st.packets = 1
    BY <2>1, <2>2, <1>2 DEF Opened, ProbeState
  <2>4. clock <= clock /\ clock - clock <= Window
    BY <1>2
  <2> QED BY <2>2, <2>3, <2>4, <1>2
<1>4. CASE ~WindowOver(old)
  <2>1. old \in ProbeState /\ st = Extended(old, port)
    BY <1>1, <1>4, CountedIs
  <2>2. src \in Held(probes)
    BY <2>1, StatesDiffer DEF Held
  <2>3. /\ old.start \in 1..MaxClock /\ old.packets \in 1..MaxPackets
        /\ old.start <= clock /\ old.packets + Len(ring) <= packets
        /\ ~(clock - old.start > Window)
    BY <2>1, <2>2, <1>4 DEF WindowInv, ProbeState, WindowOver
  <2>4. old.packets + 1 \in 1..MaxPackets /\ old.packets + 1 + (Len(ring) - 1) <= packets
    <3>1. old.packets \in Nat
      BY <2>3, <1>2
    <3> QED BY <3>1, <2>3, <1>2, OneMore
  <2>5. clock - old.start <= Window
    BY <2>3, <1>2
  <2>6. st \in ProbeState /\ st.start = old.start /\ st.packets = old.packets + 1
    BY <2>1, <2>4 DEF Extended, ProbeState
  <2> QED BY <2>3, <2>4, <2>5, <2>6, <1>2
<1> QED BY <1>3, <1>4

LEMMA ProbeStep ==
    ASSUME KmsgAssumption, TypeOK, WindowInv, OnInboundProbe
    PROVE  \E src, port, st : Step(src, port, st)
<1> DEFINE src == Head(ring).src
           port == Head(ring).port
           st == Counted(probes[src], port)
           table == Pruned([probes EXCEPT ![src] = st])
<1>1. /\ ring # <<>> /\ ring' = Tail(ring) /\ src \in Srcs /\ port \in Ports
  <2>1. ring # <<>> /\ ring' = Tail(ring) /\ Head(ring) \in Record
    BY DEF OnInboundProbe, Dequeue, TypeOK
  <2> QED BY <2>1 DEF Record
<1>2. /\ handled' = handled \cup {[src |-> src, port |-> port, at |-> clock]}
      /\ \/ /\ NewScan(st) /\ probes' = [table EXCEPT ![src] = [st EXCEPT !.reported = TRUE]]
            /\ scans' = scans \cup {[src |-> src, at |-> clock]}
         \/ ~NewScan(st) /\ probes' = table /\ scans' = scans
      /\ alerted' = alerted \cup {w \in {<<src, st.start>>} : NewScan(st) \/ NewProbe(st)}
      /\ UNCHANGED <<clock, packets>>
  BY DEF OnInboundProbe
<1>3. /\ st \in ProbeState /\ st.start <= clock /\ clock - st.start <= Window /\ st # NoState
      /\ st.packets + Len(ring') <= packets
  BY <1>1, CountedIsState, StatesDiffer
<1> HIDE DEF src, port, st
<1> DEFINE all == [probes EXCEPT ![src] = st]
<1>4. all \in [Srcs -> ProbeState \cup {NoState}] /\ all[src] = st
      /\ \A s \in Srcs \ {src} : all[s] = probes[s]
  BY <1>1, <1>3 DEF TypeOK
<1> HIDE DEF all
<1>5. /\ table \in [Srcs -> ProbeState \cup {NoState}]
      /\ \A s \in Srcs : \/ table[s] = all[s]
                         \/ /\ all[s] # NoState /\ clock - all[s].start > 2 * Window
                            /\ table[s] = NoState
  BY <1>4 DEF Pruned, Held, all
<1>6. ~(clock - st.start > 2 * Window)
  <2>1. clock \in Nat /\ st.start \in Nat /\ Window \in Nat
    BY <1>3 DEF TypeOK, KmsgAssumption, ProbeState
  <2> QED BY <2>1, <1>3
<1>7. table[src] = st /\ \A s \in Srcs \ {src} :
          \/ table[s] = probes[s]
          \/ /\ probes[s] # NoState /\ clock - probes[s].start > 2 * Window
             /\ table[s] = NoState
  BY <1>1, <1>4, <1>5, <1>6
<1> HIDE DEF table
<1>8. [st EXCEPT !.reported = TRUE] \in ProbeState
  BY <1>3 DEF ProbeState
<1>9. /\ probes' \in [Srcs -> ProbeState \cup {NoState}]
      /\ \/ NewScan(st) /\ probes'[src] = [st EXCEPT !.reported = TRUE]
         \/ ~NewScan(st) /\ probes'[src] = st
      /\ \A s \in Srcs \ {src} : probes'[s] = table[s]
  BY <1>1, <1>2, <1>5, <1>7, <1>8
<1>10. blocked' \subseteq Srcs
  BY <1>1 DEF OnInboundProbe, TypeOK, src
<1>11. Step(src, port, st)
  BY <1>1, <1>2, <1>3, <1>7, <1>9, <1>10 DEF Step, st
<1> QED BY <1>11

LEMMA StepTypes ==
    ASSUME KmsgAssumption, TypeOK, NEW src, NEW port, NEW st, Step(src, port, st)
    PROVE  TypeOK'
<1> USE DEF Step
<1>1. clock \in 1..MaxClock /\ st.start \in 1..MaxClock
  BY DEF TypeOK, ProbeState
<1>2. ring' \in Seq(Record) /\ Len(ring') <= RingMax
  <2>1. ring \in Seq(Record) /\ Len(ring) <= RingMax /\ RingMax \in Nat
    BY DEF TypeOK, KmsgAssumption
  <2> QED BY <2>1
<1>3. handled' \subseteq [src : Srcs, port : Ports, at : 1..MaxClock]
  BY <1>1 DEF TypeOK
<1>4. scans' \subseteq [src : Srcs, at : 1..MaxClock]
  BY <1>1 DEF TypeOK
<1>5. alerted' \subseteq Srcs \X (1..MaxClock)
  BY <1>1 DEF TypeOK
<1> QED BY <1>2, <1>3, <1>4, <1>5 DEF TypeOK

LEMMA StepProbed ==
    ASSUME NEW src, NEW port, NEW st, Step(src, port, st), NEW s, NEW from, NEW to
    PROVE  /\ s # src \/ clock \notin from..to => PortsIn(handled', s, from, to) = PortsIn(handled, s, from, to)
           /\ s = src /\ clock \in from..to
                => PortsIn(handled', s, from, to) = PortsIn(handled, s, from, to) \cup {port}
<1> DEFINE new == [src |-> src, port |-> port, at |-> clock]
<1>1. handled' = handled \cup {new} /\ new.src = src /\ new.port = port /\ new.at = clock
  BY DEF Step
<1> HIDE DEF new
<1> QED BY <1>1 DEF PortsIn

(* The probes of a source fall in the windows it has had.                  *)
LEMMA ProbesAreOld ==
    ASSUME KmsgAssumption, TypeOK, WindowsInv, NEW s \in Srcs, NEW h \in handled, h.src = s
    PROVE  IF s \in Held(probes) THEN h.at <= probes[s].start + Window
                                 ELSE h.at + Window < clock
<1>1. PICK starts \in SUBSET (1..MaxClock) : Windows(s, starts)
  BY DEF WindowsInv
<1>2. PICK b \in starts : h.at \in b..(b + Window)
  BY <1>1 DEF Windows
<1>3. b \in Nat /\ h.at \in Nat /\ clock \in Nat /\ Window \in Nat /\ h.at <= b + Window
  BY <1>2 DEF TypeOK, KmsgAssumption
<1>4. CASE s \in Held(probes)
  <2>1. b <= probes[s].start
    BY <1>1, <1>2, <1>4 DEF Windows
  <2>2. probes[s].start \in Nat
    BY <1>4 DEF TypeOK, ProbeState, Held
  <2> QED BY <1>3, <1>4, <2>1, <2>2
<1>5. CASE s \notin Held(probes)
  <2>1. b + 2 * Window < clock
    BY <1>1, <1>2, <1>5 DEF Windows
  <2> QED BY <1>3, <1>5, <2>1
<1> QED BY <1>4, <1>5

LEMMA StepPorts ==
    ASSUME KmsgAssumption, TypeOK, WindowInv, WindowsInv,
           NEW src, NEW port, NEW st, Step(src, port, st)
    PROVE  /\ st.ports = PortsIn(handled', src, st.start, clock)
           /\ WindowOver(probes[src]) => \A h \in handled : h.src = src => h.at < clock
<1> DEFINE old == probes[src]
<1>1. src \in Srcs /\ port \in Ports /\ st = Counted(old, port) /\ clock' = clock
  BY DEF Step
<1>2. /\ clock \in Nat /\ clock \in clock..clock /\ Window \in Nat
      /\ old \in ProbeState \cup {NoState}
      /\ \A h \in handled : h.at \in Nat
  BY <1>1 DEF TypeOK, KmsgAssumption
<1>3. ASSUME WindowOver(old)
      PROVE  /\ st.ports = PortsIn(handled', src, st.start, clock)
             /\ \A h \in handled : h.src = src => h.at < clock
  <2>1. st = Opened(port) /\ st.start = clock /\ st.ports = {port}
    <3>1. st = Opened(port)
      BY <1>1, <1>2, <1>3, CountedIs
    <3>2. Opened(port).start = clock /\ Opened(port).ports = {port}
      BY DEF Opened
    <3> QED BY <3>1, <3>2
  <2>2. ASSUME NEW h \in handled, h.src = src PROVE h.at < clock
    <3>1. CASE src \in Held(probes)
      <4>1. old.start \in Nat /\ clock - old.start > Window
        BY <3>1, <1>1, <1>2, <1>3 DEF Held, WindowOver, ProbeState
      <4> QED BY <3>1, <4>1, <1>1, <1>2, <2>2, ProbesAreOld
    <3>2. CASE src \notin Held(probes)
      BY <3>2, <1>1, <1>2, <2>2, ProbesAreOld
    <3> QED BY <3>1, <3>2
  <2>3. PortsIn(handled, src, clock, clock) = {}
    BY <1>2, <2>2 DEF PortsIn
  <2> QED BY <1>1, <1>2, <2>1, <2>2, <2>3, StepProbed
<1>4. ASSUME ~WindowOver(old)
      PROVE  st.ports = PortsIn(handled', src, st.start, clock)
  <2>1. st = Extended(old, port) /\ old \in ProbeState
    BY <1>1, <1>2, <1>4, CountedIs
  <2>2. st.start = old.start /\ st.ports = old.ports \cup {port}
    BY <2>1 DEF Extended
  <2>3. src \in Held(probes)
    BY <1>1, <2>1, StatesDiffer DEF Held
  <2>4. old.ports = PortsIn(handled, src, old.start, clock) /\ old.start <= clock
    BY <2>3, ProbedIs
  <2>5. clock \in old.start..clock
    BY <2>1, <2>4, <1>2 DEF ProbeState
  <2> QED BY <1>1, <2>2, <2>4, <2>5, StepProbed
<1> QED BY <1>3, <1>4

(* A window that has Threshold ports is reported, or has been.             *)
LEMMA StepReports ==
    ASSUME KmsgAssumption, TypeOK, WindowInv, WindowsInv,
           NEW src, NEW port, NEW st, Step(src, port, st)
    PROVE  /\ IsScan(st) \/ st.reported =>
                 /\ <<src, st.start>> \in alerted'
                 /\ \E r \in scans' : r.src = src /\ r.at \in st.start..clock
           /\ st.packets >= ProbeAlert => <<src, st.start>> \in alerted'
<1> DEFINE old == probes[src]
<1>1. /\ src \in Srcs /\ port \in Ports /\ st = Counted(old, port) /\ clock' = clock
      /\ old \in ProbeState \cup {NoState} /\ alerted \subseteq alerted'
      /\ scans \subseteq scans' /\ st \in ProbeState /\ st.start <= clock
  BY DEF Step, TypeOK
<1>2. clock \in Nat /\ clock \in st.start..clock /\ ProbeAlert \in Nat \ {0}
  BY <1>1 DEF TypeOK, ProbeState, KmsgAssumption
<1>3. ASSUME NewScan(st)
      PROVE  /\ <<src, st.start>> \in alerted'
             /\ \E r \in scans' : r.src = src /\ r.at \in st.start..clock
  <2> DEFINE new == [src |-> src, at |-> clock]
  <2>1. new \in scans' /\ new.src = src /\ new.at = clock /\ <<src, st.start>> \in alerted'
    BY <1>3 DEF Step
  <2> QED BY <2>1, <1>2
<1>4. CASE WindowOver(old)
  <2>1. st = Opened(port)
    BY <1>1, <1>4, CountedIs
  <2>2. st.reported = FALSE /\ st.packets = 1
    BY <2>1 DEF Opened
  <2>3. st.packets >= ProbeAlert => NewScan(st) \/ NewProbe(st)
    BY <2>2, <1>2 DEF NewScan, NewProbe
  <2>4. IsScan(st) \/ st.reported => NewScan(st)
    BY <2>2 DEF NewScan
  <2> QED BY <2>3, <2>4, <1>3 DEF Step
<1>5. CASE ~WindowOver(old)
  <2>1. st = Extended(old, port) /\ old \in ProbeState
    BY <1>1, <1>5, CountedIs
  <2>2. st.start = old.start /\ st.packets = old.packets + 1 /\ st.reported = old.reported
    BY <2>1 DEF Extended
  <2>3. src \in Held(probes)
    BY <1>1, <2>1, StatesDiffer DEF Held
  <2>4. /\ old.packets >= ProbeAlert => <<src, old.start>> \in alerted
        /\ old.reported => /\ <<src, old.start>> \in alerted
                           /\ \E r \in scans : r.src = src /\ r.at \in old.start..clock
    BY <2>3, ProbedIs
  <2>5. st.reported => /\ <<src, st.start>> \in alerted'
                       /\ \E r \in scans' : r.src = src /\ r.at \in st.start..clock
    BY <1>1, <2>2, <2>4
  <2>6. IsScan(st) => NewScan(st) \/ st.reported
    BY DEF NewScan
  <2>7. ASSUME st.packets >= ProbeAlert PROVE <<src, st.start>> \in alerted'
    <3>1. old.packets >= ProbeAlert \/ st.packets = ProbeAlert
      <4>1. old.packets \in Int
        BY <2>1 DEF ProbeState
      <4> QED BY <2>2, <2>7, <4>1, <1>2
    <3>2. CASE old.packets >= ProbeAlert
      BY <3>2, <2>2, <2>4, <1>1
    <3>3. CASE st.packets = ProbeAlert /\ ~IsScan(st)
      BY <3>3 DEF NewProbe, Step
    <3>4. CASE IsScan(st)
      BY <3>4, <1>3, <2>5, <2>6
    <3> QED BY <3>1, <3>2, <3>3, <3>4
  <2> QED BY <1>3, <2>5, <2>6, <2>7
<1> QED BY <1>4, <1>5

LEMMA StepWindowInv ==
    ASSUME KmsgAssumption, TypeOK, WindowInv, WindowsInv,
           NEW src, NEW port, NEW st, Step(src, port, st)
    PROVE  WindowInv'
<1>1. /\ src \in Srcs /\ UNCHANGED <<clock, packets>> /\ alerted \subseteq alerted'
      /\ scans \subseteq scans' /\ st \in ProbeState
  BY DEF Step
<1>2. Len(ring') <= Len(ring) /\ Len(ring') \in Nat /\ Len(ring) \in Nat
      /\ packets \in Nat /\ Len(ring) <= packets
  BY DEF Step, TypeOK, WindowInv
<1>3. ASSUME NEW s \in Held(probes)', s # src
      PROVE  LET pr == probes'[s]
             IN /\ pr.start <= clock
                /\ pr.packets + Len(ring') <= packets
                /\ pr.ports = PortsIn(handled', s, pr.start, clock)
                /\ pr.packets >= ProbeAlert => <<s, pr.start>> \in alerted'
                /\ pr.reported => /\ <<s, pr.start>> \in alerted'
                                  /\ \E r \in scans' : r.src = s /\ r.at \in pr.start..clock
  <2> DEFINE pr == probes[s]
  <2>1. s \in Srcs /\ probes'[s] = pr /\ pr # NoState /\ s \in Held(probes)
    BY <1>3 DEF Held, Step
  <2>2. /\ pr.start <= clock
        /\ pr.packets + Len(ring) <= packets
        /\ pr.ports = PortsIn(handled, s, pr.start, clock)
        /\ pr.packets >= ProbeAlert => <<s, pr.start>> \in alerted
        /\ pr.reported => /\ <<s, pr.start>> \in alerted
                          /\ \E r \in scans : r.src = s /\ r.at \in pr.start..clock
    BY <2>1, ProbedIs
  <2>3. pr.packets \in Nat
    BY <2>1 DEF TypeOK, ProbeState
  <2>4. pr.packets + Len(ring') <= packets
    BY <2>2, <2>3, <1>2
  <2>5. PortsIn(handled', s, pr.start, clock) = PortsIn(handled, s, pr.start, clock)
    BY <1>1, <1>3, <2>1, StepProbed
  <2> QED BY <1>1, <2>1, <2>2, <2>4, <2>5
<1>4. LET pr == probes'[src]
      IN /\ pr.start = st.start /\ pr.ports = st.ports /\ pr.packets = st.packets
         /\ pr.reported => IsScan(st) \/ st.reported
  BY <1>1 DEF Step, NewScan, ProbeState
<1>5. LET pr == probes'[src]
      IN /\ pr.start <= clock
         /\ pr.packets + Len(ring') <= packets
         /\ pr.ports = PortsIn(handled', src, pr.start, clock)
         /\ pr.packets >= ProbeAlert => <<src, pr.start>> \in alerted'
         /\ pr.reported => /\ <<src, pr.start>> \in alerted'
                           /\ \E r \in scans' : r.src = src /\ r.at \in pr.start..clock
  <2>1. st.start <= clock /\ st.packets + Len(ring') <= packets
    BY DEF Step
  <2>2. st.ports = PortsIn(handled', src, st.start, clock)
    BY StepPorts
  <2> QED BY <1>1, <1>4, <2>1, <2>2, StepReports
<1>6. Len(ring') <= packets
  BY <1>2
<1> QED BY <1>1, <1>3, <1>5, <1>6 DEF WindowInv, Probed, PortsIn

LEMMA StepScansInv ==
    ASSUME KmsgAssumption, TypeOK, WindowInv, WindowsInv, ScansInv,
           NEW src, NEW port, NEW st, Step(src, port, st)
    PROVE  ScansInv'
<1>1. TypeOK' /\ clock' = clock /\ src \in Srcs
  BY StepTypes DEF Step
<1>2. \A s, from, to : /\ PortsIn(handled', s, from, to) \subseteq Ports
                       /\ PortsIn(handled, s, from, to) \subseteq PortsIn(handled', s, from, to)
  BY <1>1 DEF PortsIn, TypeOK, Step
<1>3. ASSUME NEW r \in scans
      PROVE  Cardinality(PortsIn(handled', r.src, r.at - Window, r.at)) >= Threshold
  <2> DEFINE P == PortsIn(handled, r.src, r.at - Window, r.at)
             Q == PortsIn(handled', r.src, r.at - Window, r.at)
  <2>1. P \subseteq Q /\ Q \subseteq Ports /\ Cardinality(P) >= Threshold /\ Threshold \in Nat
    BY <1>2, ProbedIs DEF KmsgAssumption
  <2> HIDE DEF P, Q
  <2>2. Cardinality(P) <= Cardinality(Q) /\ Cardinality(P) \in Nat /\ Cardinality(Q) \in Nat
    BY <2>1, PortsCount
  <2>3. Cardinality(Q) >= Threshold
    BY <2>1, <2>2
  <2> QED BY <2>3 DEF Q
<1>4. ASSUME NewScan(st)
      PROVE  Cardinality(PortsIn(handled', src, clock - Window, clock)) >= Threshold
  <2> DEFINE Q == PortsIn(handled', src, clock - Window, clock)
  <2>1. st.ports = PortsIn(handled', src, st.start, clock)
    BY StepPorts
  <2>2. Cardinality(st.ports) >= Threshold /\ Threshold \in Nat
    BY <1>4 DEF NewScan, IsScan, KmsgAssumption
  <2>3. /\ st.start \in Int /\ clock \in Int /\ Window \in Int
        /\ st.start <= clock /\ clock - st.start <= Window
        /\ \A h \in handled' : h.at \in Int
    BY <1>1 DEF Step, ProbeState, TypeOK, KmsgAssumption
  <2>4. \A a \in Int : a \in st.start..clock => a \in (clock - Window)..clock
    BY <2>3
  <2>5. st.ports \subseteq Q
    BY <2>1, <2>3, <2>4, <1>1 DEF PortsIn
  <2>6. Q \subseteq Ports
    BY <1>2
  <2> HIDE DEF Q
  <2>7. Cardinality(st.ports) <= Cardinality(Q) /\ Cardinality(st.ports) \in Nat
        /\ Cardinality(Q) \in Nat
    BY <2>5, <2>6, PortsCount
  <2>8. Cardinality(Q) >= Threshold
    BY <2>2, <2>7
  <2> QED BY <2>8 DEF Q
<1>5. ASSUME NEW r \in scans'
      PROVE  Cardinality(PortsIn(handled', r.src, r.at - Window, r.at)) >= Threshold
  <2>1. r \in scans \/ (NewScan(st) /\ r.src = src /\ r.at = clock)
    BY DEF Step
  <2> QED BY <2>1, <1>3, <1>4
<1> QED BY <1>5 DEF ScansInv, Probed, PortsIn

(* The parts of Windows that the other ones are shown from.                *)
Apart(starts) == \A a, b \in starts : a < b => a + Window < b
Reporting(H, R, s, starts) ==
    \A b \in starts : \A u \in b..(b + Window) :
        Cardinality(PortsIn(H, s, b, u)) >= Threshold => \E r \in R : r.src = s /\ r.at \in b..u

LEMMA WindowsIs ==
    ASSUME NEW s, NEW starts
    PROVE  Windows(s, starts) <=>
              /\ \A b \in starts : b <= clock
              /\ Apart(starts)
              /\ \A h \in handled : h.src = s => \E b \in starts : h.at \in b..(b + Window)
              /\ Reporting(handled, scans, s, starts)
              /\ IF s \in Held(probes)
                 THEN probes[s].start \in starts /\ \A b \in starts : b <= probes[s].start
                 ELSE \A b \in starts : b + 2 * Window < clock
BY ProbedIs DEF Apart, Reporting

LEMMA LongOver ==
    ASSUME NEW b \in Nat, NEW start \in Nat, NEW now \in Nat, NEW w \in Nat,
           b <= start, now - start > 2 * w
    PROVE  b + 2 * w < now
OBVIOUS

(* The windows of the other sources go on; some are forgotten.             *)
LEMMA StepOthers ==
    ASSUME KmsgAssumption, TypeOK,
           NEW src, NEW port, NEW st, Step(src, port, st),
           NEW s \in Srcs, s # src, NEW starts \in SUBSET (1..MaxClock), Windows(s, starts)
    PROVE  Windows(s, starts)'
<1>1. /\ clock' = clock /\ scans \subseteq scans'
      /\ \A h \in handled' : h.src = s => h \in handled
      /\ \A b, u : PortsIn(handled', s, b, u) = PortsIn(handled, s, b, u)
  <2>1. clock' = clock /\ scans \subseteq scans'
    BY DEF Step
  <2>2. \A h \in handled' : h.src = s => h \in handled
    BY DEF Step
  <2>3. ASSUME NEW b, NEW u PROVE PortsIn(handled', s, b, u) = PortsIn(handled, s, b, u)
    BY StepProbed
  <2> QED BY <2>1, <2>2, <2>3
<1>2. IF s \in Held(probes)'
      THEN probes'[s].start \in starts /\ \A b \in starts : b <= probes'[s].start
      ELSE \A b \in starts : b + 2 * Window < clock
  <2>1. CASE probes'[s] = probes[s]
    BY <2>1 DEF Held, Windows
  <2>2. CASE /\ probes[s] # NoState /\ clock - probes[s].start > 2 * Window
             /\ probes'[s] = NoState
    <3>1. probes[s].start \in Nat /\ clock \in Nat /\ Window \in Nat
          /\ \A b \in starts : b \in Nat
      BY <2>2 DEF TypeOK, ProbeState, KmsgAssumption
    <3>2. \A b \in starts : b <= probes[s].start
      BY <2>2 DEF Windows, Held
    <3>3. \A b \in starts : b + 2 * Window < clock
      BY <3>1, <3>2, <2>2, LongOver
    <3> QED BY <3>3, <2>2 DEF Held
  <2> QED BY <2>1, <2>2 DEF Step
<1>3. Reporting(handled', scans', s, starts)
  <2>1. Reporting(handled, scans, s, starts)
    BY WindowsIs
  <2> QED BY <1>1, <2>1 DEF Reporting
<1>4. /\ \A b \in starts : b <= clock
      /\ Apart(starts)
      /\ \A h \in handled' : h.src = s => \E b \in starts : h.at \in b..(b + Window)
  BY <1>1, WindowsIs
<1> QED BY <1>1, <1>2, <1>3, <1>4 DEF Windows, Apart, Reporting, Probed, PortsIn

(* The window of the source itself goes on or is followed by a new one.    *)
LEMMA StepOwn ==
    ASSUME KmsgAssumption, TypeOK, WindowInv, WindowsInv,
           NEW src, NEW port, NEW st, Step(src, port, st),
           NEW starts \in SUBSET (1..MaxClock), Windows(src, starts)
    PROVE  Windows(src, starts \cup {st.start})'
<1> DEFINE old == probes[src]  all == starts \cup {st.start}
<1>1. /\ src \in Srcs /\ clock' = clock /\ scans \subseteq scans'
      /\ old \in ProbeState \cup {NoState} /\ st \in ProbeState /\ st = Counted(old, port)
      /\ port \in Ports
      /\ \A h \in handled' : h \in handled \/ (h.src = src /\ h.at = clock)
  BY DEF Step, TypeOK
<1>2. /\ clock \in Nat /\ Window \in Nat /\ st.start \in Nat
      /\ st.start <= clock /\ clock <= st.start + Window
      /\ \A b \in starts : b \in Nat
      /\ \A h \in handled : h.at \in Nat
  <2>1. /\ clock \in Nat /\ Window \in Nat /\ st.start \in Nat
        /\ st.start <= clock /\ clock - st.start <= Window
    <3>1. st.start \in 1..MaxClock
      BY <1>1 DEF ProbeState
    <3>2. clock \in 1..MaxClock /\ MaxClock \in Nat /\ Window \in Nat
      BY DEF TypeOK, KmsgAssumption
    <3>3. st.start <= clock /\ clock - st.start <= Window
      BY DEF Step
    <3> QED BY <3>1, <3>2, <3>3
  <2>2. /\ \A b \in starts : b \in Nat
        /\ \A h \in handled : h.at \in Nat
    BY DEF TypeOK
  <2>3. clock <= st.start + Window
    BY <2>1
  <2> QED BY <2>1, <2>2, <2>3, Zenon
<1>3. \A b \in starts : b = st.start \/ b + Window < st.start
  <2>1. CASE WindowOver(old)
    <3>1. st.start = clock
      <4>1. st = Opened(port)
        BY <1>1, <2>1, CountedIs
      <4> QED BY <4>1 DEF Opened
    <3>2. CASE src \in Held(probes)
      <4>1. old.start \in Nat /\ clock - old.start > Window
        BY <3>2, <2>1, <1>1 DEF Held, WindowOver, ProbeState
      <4>2. \A b \in starts : b <= old.start
        BY <3>2 DEF Windows
      <4> QED BY <4>1, <4>2, <3>1, <1>2
    <3>3. CASE src \notin Held(probes)
      <4>1. \A b \in starts : b + 2 * Window < clock
        BY <3>3 DEF Windows
      <4> QED BY <4>1, <3>1, <1>2
    <3> QED BY <3>2, <3>3
  <2>2. CASE ~WindowOver(old)
    <3>1. old \in ProbeState /\ st.start = old.start
      <4>1. old \in ProbeState /\ st = Extended(old, port)
        BY <1>1, <2>2, CountedIs
      <4> QED BY <4>1 DEF Extended
    <3>2. src \in Held(probes)
      BY <3>1, <1>1, StatesDiffer DEF Held
    <3>3. /\ old.start \in starts /\ \A b \in starts : b <= old.start
          /\ \A a, b \in starts : a < b => a + Window < b
      BY <3>2 DEF Windows
    <3>4. \A b \in starts : b = old.start \/ b < old.start
      BY <3>1, <3>3, <1>2
    <3> QED BY <3>1, <3>3, <3>4
  <2> QED BY <2>1, <2>2
<1>4. \A b \in all : b <= clock
  BY <1>2 DEF Windows
<1>5. Apart(all)
  <2>1. Apart(starts)
    BY WindowsIs
  <2> QED BY <2>1, <1>2, <1>3 DEF Apart
<1>6. \A h \in handled' : h.src = src => \E b \in all : h.at \in b..(b + Window)
  <2>1. clock \in st.start..(st.start + Window)
    BY <1>2
  <2>2. \A h \in handled : h.src = src => \E b \in all : h.at \in b..(b + Window)
    BY DEF Windows
  <2> QED BY <1>1, <2>1, <2>2
<1>7. ASSUME NEW b \in all, NEW u \in b..(b + Window),
             Cardinality(PortsIn(handled', src, b, u)) >= Threshold
      PROVE  \E r \in scans' : r.src = src /\ r.at \in b..u
  <2>1. b \in Nat /\ u \in Int /\ b <= u /\ u <= b + Window
    BY <1>2
  <2>2. CASE clock \in b..u
    <3>1. b = st.start
      BY <2>1, <2>2, <1>2, <1>3
    <3>2. \A a \in Nat : a <= clock => (a \in b..u <=> a \in b..clock)
      BY <2>1, <2>2, <1>2
    <3>3. \A h \in handled' : h.at \in Nat /\ h.at <= clock
      BY <1>1, <1>2 DEF WindowsInv
    <3>4. PortsIn(handled', src, b, u) = PortsIn(handled', src, st.start, clock)
      BY <3>1, <3>2, <3>3 DEF PortsIn
    <3>5. PortsIn(handled', src, st.start, clock) = st.ports
      BY StepPorts
    <3>6. IsScan(st)
      BY <1>7, <3>4, <3>5 DEF IsScan
    <3>7. PICK r \in scans' : r.src = src /\ r.at \in st.start..clock
      BY <3>6, StepReports
    <3>8. r.at \in b..u
      BY <3>1, <3>7, <2>1, <2>2, <1>2
    <3> QED BY <3>7, <3>8
  <2>3. CASE clock \notin b..u
    <3>1. PortsIn(handled', src, b, u) = PortsIn(handled, src, b, u)
      BY <2>3, StepProbed
    <3>2. CASE b \in starts
      <4>1. Reporting(handled, scans, src, starts)
        BY WindowsIs
      <4>2. \E r \in scans : r.src = src /\ r.at \in b..u
        BY <4>1, <3>1, <3>2, <1>7 DEF Reporting
      <4> QED BY <4>2, <1>1
    <3>3. CASE b \notin starts
      <4>1. b = st.start /\ WindowOver(old)
        <5>1. ASSUME ~WindowOver(old) PROVE st.start \in starts
          <6>1. old \in ProbeState /\ st = Extended(old, port)
            BY <1>1, <5>1, CountedIs
          <6>2. src \in Held(probes) /\ st.start = old.start
            BY <6>1, <1>1, StatesDiffer DEF Held, Extended
          <6> QED BY <6>2 DEF Windows
        <5> QED BY <3>3, <5>1
      <4>2. st = Opened(port)
        BY <1>1, <4>1, CountedIs
      <4>3. b = clock
        BY <4>1, <4>2 DEF Opened
      <4> QED BY <4>3, <2>1, <2>3, <1>2
    <3> QED BY <3>2, <3>3
  <2> QED BY <2>2, <2>3
<1>8. src \in Held(probes)' /\ probes'[src].start = st.start
  <2>1. probes'[src].start = st.start /\ probes'[src] \in ProbeState
    BY <1>1 DEF Step, ProbeState
  <2> QED BY <2>1, <1>1, StatesDiffer DEF Held
<1>9. st.start \in all /\ \A b \in all : b <= st.start
  BY <1>2, <1>3
<1>10. Reporting(handled', scans', src, all)
  BY <1>7 DEF Reporting
<1> HIDE DEF all
<1>11. Windows(src, all)'
  BY <1>1, <1>4, <1>5, <1>6, <1>8, <1>9, <1>10 DEF Windows, Apart, Reporting, Probed, PortsIn
<1> QED BY <1>11 DEF all

LEMMA ProbeKeeps ==
    ASSUME KmsgAssumption, KmsgInv, OnInboundProbe
    PROVE  KmsgInv'
<1>1. TypeOK /\ WindowInv /\ ScansInv /\ WindowsInv
  BY DEF KmsgInv
<1>2. PICK src, port, st : Step(src, port, st)
  BY <1>1, ProbeStep
<1>3. TypeOK' /\ WindowInv' /\ ScansInv'
  BY <1>1, <1>2, StepTypes, StepWindowInv, StepScansInv
<1>4. \A h \in handled' : h.at <= clock'
  <2>1. \A h \in handled : h.at <= clock
    BY <1>1 DEF WindowsInv
  <2>2. clock' = clock /\ clock <= clock
    BY <1>1, <1>2 DEF Step, TypeOK
  <2> QED BY <1>2, <2>1, <2>2 DEF Step
<1>5. ASSUME NEW s \in Srcs
      PROVE  \E starts \in SUBSET (1..MaxClock) : Windows(s, starts)'
  <2>1. PICK starts \in SUBSET (1..MaxClock) : Windows(s, starts)
    BY <1>1 DEF WindowsInv
  <2>2. CASE s = src
    <3>1. st.start \in 1..MaxClock
      BY <1>2 DEF Step, ProbeState
    <3>2. Windows(s, starts \cup {st.start})'
      BY <1>1, <1>2, <2>1, <2>2, StepOwn
    <3> QED BY <3>1, <3>2
  <2>3. CASE s # src
    BY <1>1, <1>2, <2>1, <2>3, StepOthers
  <2> QED BY <2>2, <2>3
<1> QED BY <1>3, <1>4, <1>5 DEF KmsgInv, WindowsInv

(***************************************************************************)
(* The other steps handle no probe.                                        *)
(***************************************************************************)

NoProbe ==
    /\ UNCHANGED <<probes, handled, scans, alerted>>
    /\ clock' \in 1..MaxClock /\ clock <= clock'
    /\ packets' \in 0..MaxPackets
    /\ ring' \in Seq(Record) /\ Len(ring') <= RingMax
    /\ packets - Len(ring) <= packets' - Len(ring')
    /\ blocked' \subseteq Srcs

LEMMA NoProbeSteps ==
    ASSUME KmsgAssumption, KmsgInv, [Next]_vars
    PROVE  OnInboundProbe \/ NoProbe
<1>1. /\ clock \in 1..MaxClock /\ packets \in 0..MaxPackets /\ clock \in Int
      /\ packets \in Int /\ MaxClock \in Nat /\ MaxPackets \in Nat /\ RingMax \in Nat \ {0}
      /\ ring \in Seq(Record) /\ Len(ring) <= RingMax /\ blocked \subseteq Srcs
  BY DEF KmsgInv, TypeOK, KmsgAssumption
<1>2. CASE Tick
  BY <1>1, <1>2 DEF Tick, NoProbe
<1>3. CASE OnBlockedInbound
  <2>1. ring # <<>> /\ ring' = Tail(ring)
        /\ UNCHANGED <<clock, packets, blocked, probes, handled, scans, alerted>>
    BY <1>3 DEF OnBlockedInbound, Dequeue
  <2> QED BY <1>1, <2>1 DEF NoProbe
<1>4. ASSUME NEW s \in Srcs, BlockEnds(s) PROVE NoProbe
  BY <1>1, <1>4 DEF BlockEnds, NoProbe
<1>5. ASSUME NEW s \in Srcs, NEW p \in Ports, Packet(s, p) PROVE NoProbe
  <2> DEFINE r == [kind |-> IF s \in blocked THEN "blkin" ELSE "probe", src |-> s, port |-> p]
             rest == IF Len(ring) = RingMax THEN Tail(ring) ELSE ring
  <2>1. r \in Record
    BY DEF Record
  <2>2. rest \in Seq(Record) /\ Len(rest) < RingMax /\ Len(rest) <= Len(ring)
    BY <1>1
  <2>3. /\ ring' = Append(rest, r) /\ packets < MaxPackets /\ packets' = packets + 1
        /\ UNCHANGED <<clock, blocked, probes, handled, scans, alerted>>
    BY <1>5 DEF Packet
  <2> HIDE DEF r, rest
  <2>4. ring' \in Seq(Record) /\ Len(ring') = Len(rest) + 1
    BY <2>1, <2>2, <2>3
  <2>5. Len(rest) \in Nat /\ Len(ring) \in Nat
    BY <1>1, <2>2
  <2> QED BY <1>1, <2>2, <2>3, <2>4, <2>5 DEF NoProbe
<1>6. CASE UNCHANGED vars
  BY <1>1, <1>6 DEF vars, NoProbe
<1> QED BY <1>2, <1>3, <1>4, <1>5, <1>6 DEF Next

LEMMA StillLess ==
    ASSUME NEW a \in Nat, NEW n \in Nat, NEW m \in Nat, NEW k \in Nat, NEW l \in Nat,
           a + n <= k, k - n <= l - m
    PROVE  a + m <= l
OBVIOUS

LEMMA NoProbeKeeps ==
    ASSUME KmsgAssumption, KmsgInv, NoProbe
    PROVE  KmsgInv'
<1> USE DEF KmsgInv
<1>1. /\ UNCHANGED <<probes, handled, scans, alerted>> /\ clock' \in Nat /\ clock <= clock'
      /\ clock \in Nat /\ packets - Len(ring) <= packets' - Len(ring') /\ Window \in Nat
      /\ packets \in Nat /\ packets' \in Nat /\ Len(ring) \in Nat /\ Len(ring') \in Nat
      /\ \A h \in handled : h.at \in Nat /\ h.at <= clock
      /\ Held(probes)' = Held(probes)
  BY DEF NoProbe, TypeOK, KmsgAssumption, WindowsInv, Held
<1>2. TypeOK'
  BY DEF NoProbe, TypeOK
<1>3. WindowInv'
  <2>1. Len(ring') <= packets'
    BY <1>1 DEF WindowInv
  <2>2. ASSUME NEW s \in Held(probes)
        PROVE  LET st == probes[s]
               IN /\ st.start <= clock'
                  /\ st.packets + Len(ring') <= packets'
                  /\ st.ports = PortsIn(handled, s, st.start, clock')
                  /\ st.packets >= ProbeAlert => <<s, st.start>> \in alerted
                  /\ st.reported => /\ <<s, st.start>> \in alerted
                                    /\ \E r \in scans : r.src = s /\ r.at \in st.start..clock'
    <3> DEFINE st == probes[s]
    <3>1. /\ st.start <= clock
          /\ st.packets + Len(ring) <= packets
          /\ st.ports = PortsIn(handled, s, st.start, clock)
          /\ st.packets >= ProbeAlert => <<s, st.start>> \in alerted
          /\ st.reported => /\ <<s, st.start>> \in alerted
                            /\ \E r \in scans : r.src = s /\ r.at \in st.start..clock
      BY ProbedIs
    <3>2. st.start \in Nat /\ st.packets \in Nat
      BY DEF TypeOK, Held, ProbeState
    <3> HIDE DEF st
    <3>3. st.start <= clock' /\ st.packets + Len(ring') <= packets'
      <4>1. st.start <= clock'
        BY <3>1, <3>2, <1>1
      <4> QED BY <3>1, <3>2, <4>1, <1>1, StillLess
    <3>4. \A a \in Nat : a \in st.start..clock => a \in st.start..clock'
      BY <3>2, <1>1
    <3>5. \A a \in Nat : a <= clock => (a \in st.start..clock <=> a \in st.start..clock')
      BY <3>2, <1>1
    <3>6. PortsIn(handled, s, st.start, clock) = PortsIn(handled, s, st.start, clock')
      BY <3>5, <1>1 DEF PortsIn
    <3>7. \A r \in scans : r.at \in Nat
      BY DEF TypeOK
    <3>8. (\E r \in scans : r.src = s /\ r.at \in st.start..clock)
             => \E r \in scans : r.src = s /\ r.at \in st.start..clock'
      BY <3>4, <3>7
    <3> QED BY <3>1, <3>3, <3>6, <3>8 DEF st
  <2> QED BY <1>1, <2>1, <2>2 DEF WindowInv, Probed, PortsIn
<1>4. ScansInv'
  BY <1>1 DEF ScansInv, Probed
<1>5. ASSUME NEW s, NEW starts \in SUBSET (1..MaxClock), Windows(s, starts)
      PROVE  Windows(s, starts)'
  <2>1. \A b \in starts : b \in Nat
    OBVIOUS
  <2>2. \A b \in starts : b <= clock' /\ (b + 2 * Window < clock => b + 2 * Window < clock')
    <3>1. \A b \in starts : b <= clock
      BY <1>5 DEF Windows
    <3> QED BY <2>1, <3>1, <1>1
  <2> QED BY <1>1, <1>5, <2>2 DEF Windows, Probed
<1>6. WindowsInv'
  <2>1. \A h \in handled' : h.at <= clock'
    BY <1>1
  <2>2. \A s \in Srcs : \E starts \in SUBSET (1..MaxClock) : Windows(s, starts)'
    BY <1>5 DEF WindowsInv
  <2> QED BY <2>1, <2>2 DEF WindowsInv
<1> QED BY <1>2, <1>3, <1>4, <1>6

LEMMA InitHolds ==
    ASSUME KmsgAssumption, Init
    PROVE  KmsgInv
<1> USE DEF Init
<1>1. TypeOK
  BY DEF TypeOK, KmsgAssumption
<1>2. Held(probes) = {}
  BY DEF Held
<1>3. WindowInv /\ ScansInv
  BY <1>2 DEF WindowInv, ScansInv
<1>4. \A s \in Srcs : Windows(s, {})
  BY <1>2 DEF Windows
<1>5. WindowsInv
  BY <1>4 DEF WindowsInv
<1> QED BY <1>1, <1>3, <1>5 DEF KmsgInv

LEMMA KmsgInvHolds == Spec => []KmsgInv
BY KmsgAssumption, InitHolds, NoProbeSteps, ProbeKeeps, NoProbeKeeps, PTL DEF Spec

(***************************************************************************)
(* The theorems.                                                           *)
(***************************************************************************)

(* Every variable stays in its domain.                                     *)
THEOREM TypeCorrect == Spec => []TypeOK
<1>1. KmsgInv => TypeOK
  BY DEF KmsgInv
<1> QED BY <1>1, KmsgInvHolds, PTL

(* A scan is reported only of a source that did scan, and a source that    *)
(* did probe is reported in its window.                                    *)
THEOREM OnlyScansReported == Spec => []ReportsAreDue
<1>1. KmsgInv => ReportsAreDue
  BY DEF KmsgInv, ScansInv, WindowInv, ReportsAreDue
<1> QED BY <1>1, KmsgInvHolds, PTL

(* Three starts that are more than Window apart do not fit in twice that.  *)
LEMMA TwoFit ==
    ASSUME NEW w \in Nat, NEW t \in Nat, NEW a \in Nat, NEW b \in Nat, NEW c \in Nat,
           a # b, b # c, a # c,
           a < b => a + w < b, b < a => b + w < a,
           b < c => b + w < c, c < b => c + w < b,
           a < c => a + w < c, c < a => c + w < a,
           t <= a + w, a <= t + w, t <= b + w, b <= t + w, t <= c + w, c <= t + w
    PROVE  FALSE
OBVIOUS

(* In two windows that hold 2n - 1 ports, one holds n.                     *)
LEMMA OneHolds ==
    ASSUME NEW S, NEW T, IsFiniteSet(S), IsFiniteSet(T), NEW n \in Nat, NEW P,
           P \subseteq S \cup T, Cardinality(P) >= 2 * n - 1, n > 0
    PROVE  Cardinality(S) >= n \/ Cardinality(T) >= n
<1>1. /\ IsFiniteSet(S \cup T) /\ Cardinality(S) \in Nat /\ Cardinality(T) \in Nat
      /\ IsFiniteSet(S \cap T) /\ Cardinality(S \cap T) \in Nat
      /\ Cardinality(S \cup T) = Cardinality(S) + Cardinality(T) - Cardinality(S \cap T)
  BY FS_Union, FS_Intersection, FS_CardinalityType
<1>2. Cardinality(P) \in Nat /\ Cardinality(P) <= Cardinality(S \cup T)
  BY <1>1, FS_Subset, FS_CardinalityType
<1> QED BY <1>1, <1>2

(* What a source probes within Window falls in two of the windows it has   *)
(* had, for they are more than Window apart: one of them is a scan.        *)
THEOREM ScansAreCaught == Spec => []TwiceIsCaught
<1>1. ASSUME KmsgAssumption, KmsgInv, NEW s \in Srcs, NEW t \in 1..MaxClock,
             Cardinality(PortsIn(handled, s, t, t + Window)) >= 2 * Threshold - 1
      PROVE  \E r \in scans : r.src = s /\ r.at \in (t - Window)..(t + Window)
  <2> DEFINE P == PortsIn(handled, s, t, t + Window)
             last(b) == IF b <= t THEN b + Window ELSE t + Window
  <2>1. PICK starts \in SUBSET (1..MaxClock) : Windows(s, starts)
    BY <1>1 DEF KmsgInv, WindowsInv
  <2>2. /\ t \in Nat /\ Window \in Nat /\ Threshold \in Nat /\ Threshold > 0
        /\ \A h \in handled : h.at \in Nat /\ h.port \in Ports
        /\ \A r \in scans : r.at \in Nat
        /\ \A b \in starts : b \in Nat
    BY <1>1 DEF KmsgAssumption, KmsgInv, TypeOK
  <2> DEFINE near == {b \in starts : t <= b + Window /\ b <= t + Window}
  <2>3. ASSUME NEW h \in handled, h.src = s, h.at \in t..(t + Window)
        PROVE  \E b \in near : h.at \in b..last(b)
    <3>1. PICK b \in starts : h.at \in b..(b + Window)
      BY <2>1, <2>3 DEF Windows
    <3>2. t <= b + Window /\ b <= t + Window /\ h.at \in b..last(b)
      BY <3>1, <2>2, <2>3
    <3> QED BY <3>2
  <2>4. PICK b1, b2 \in near : \A b \in near : b = b1 \/ b = b2
    <3>1. near # {}
      <4>1. P # {}
        <5>1. Cardinality({}) = 0
          BY FS_EmptySet
        <5>2. Cardinality(P) >= 2 * Threshold - 1
          BY <1>1
        <5>3. ~(0 >= 2 * Threshold - 1)
          BY <2>2
        <5> HIDE DEF P
        <5> QED BY <5>1, <5>2, <5>3
      <4>2. PICK h \in handled : h.src = s /\ h.at \in t..(t + Window)
        BY <4>1 DEF PortsIn
      <4> QED BY <4>2, <2>3
    <3>2. PICK b1 \in near : TRUE
      BY <3>1
    <3>3. CASE \A b \in near : b = b1
      BY <3>3
    <3>4. ASSUME NEW b2 \in near, b2 # b1
          PROVE  \A b \in near : b = b1 \/ b = b2
      <4> SUFFICES ASSUME NEW b \in near, b # b1, b # b2 PROVE FALSE
        OBVIOUS
      <4>1. Apart({b, b1, b2})
        BY <2>1, WindowsIs DEF Apart
      <4>2. /\ b < b1 => b + Window < b1
            /\ b1 < b => b1 + Window < b
            /\ b < b2 => b + Window < b2
            /\ b2 < b => b2 + Window < b
            /\ b1 < b2 => b1 + Window < b2
            /\ b2 < b1 => b2 + Window < b1
        BY <4>1 DEF Apart
      <4> QED BY <4>2, <3>4, <2>2, TwoFit
    <3> QED BY <3>2, <3>3, <3>4
  <2> DEFINE S == PortsIn(handled, s, b1, last(b1))
             T == PortsIn(handled, s, b2, last(b2))
  <2>5. P \subseteq S \cup T
    BY <2>3, <2>4 DEF PortsIn
  <2>6. IsFiniteSet(S) /\ IsFiniteSet(T)
    <3>1. S \subseteq Ports /\ T \subseteq Ports
      BY <2>2 DEF PortsIn
    <3> QED BY <3>1, <1>1, PortsCount
  <2>7. Cardinality(S) >= Threshold \/ Cardinality(T) >= Threshold
    <3> HIDE DEF S, T, P
    <3>1. Cardinality(P) >= 2 * Threshold - 1
      BY <1>1 DEF P
    <3> QED BY <3>1, <2>2, <2>5, <2>6, OneHolds
  <2>8. ASSUME NEW b \in near, Cardinality(PortsIn(handled, s, b, last(b))) >= Threshold
        PROVE  \E r \in scans : r.src = s /\ r.at \in (t - Window)..(t + Window)
    <3>1. last(b) \in b..(b + Window)
      BY <2>2
    <3>2. PICK r \in scans : r.src = s /\ r.at \in b..last(b)
      BY <2>1, <2>8, <3>1, WindowsIs DEF Reporting
    <3>3. r.at \in (t - Window)..(t + Window)
      BY <3>2, <2>2
    <3> QED BY <3>2, <3>3
  <2> QED BY <2>7, <2>8
<1>2. ASSUME KmsgAssumption, KmsgInv PROVE TwiceIsCaught
  BY <1>1, <1>2 DEF TwiceIsCaught, Probed, PortsIn
<1> QED BY <1>2, KmsgAssumption, KmsgInvHolds, PTL

=============================================================================
