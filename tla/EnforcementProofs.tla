------------------------- MODULE EnforcementProofs -------------------------
(***************************************************************************)
(* Theorems about Enforcement, for every set of addresses, feeds, curated  *)
(* addresses and scanners.                                                 *)
(***************************************************************************)
EXTENDS Enforcement, TLAPS

(* Every step keeps every variable in its type, whatever fails.            *)
THEOREM TypeCorrect == Spec => []TypeOK
<1> USE ListAssumption, NftAssumption, TimedAssumption
    DEF Threads, BlTypeOK, NftTypeOK, Modes, Wishes, Commands, NoReq, MainSteps, IpcSteps,
        KmsgSteps, ReloadSteps, WriterSteps, Unlocked, Holding, At, Goto, blVars, nftVars,
        diskVars, userFiles, listVars, edges
<1>1. Init => TypeOK
  BY DEF Init, TypeOK, BlInit, NftInit
<1>2. TypeOK /\ [Next]_vars => TypeOK'
  <2> SUFFICES ASSUME TypeOK, [Next]_vars PROVE TypeOK'
    OBVIOUS
  <2> USE DEF TypeOK
  <2>1. CASE NewWork
    <3>1. CASE Boot \/ Sighup \/ Sigterm BY <3>1 DEF Boot, Sighup, Sigterm
    <3>2. CASE Crash BY <3>2 DEF Crash, BlForget, NftForget
    <3>3. CASE RequestReload BY <3>3 DEF RequestReload
    <3>4. ASSUME NEW c \in Commands, Request(c) PROVE TypeOK' BY <3>4 DEF Request
    <3>5. ASSUME NEW ip \in Scanners, Scan(ip) PROVE TypeOK' BY <3>5 DEF Scan
    <3> QED BY <2>1, <3>1, <3>2, <3>3, <3>4, <3>5 DEF NewWork
  <2>2. ASSUME NEW t \in {"main", "ipc"}, ReloadStep(t) PROVE TypeOK'
    <3>1. CASE Load(t) BY <3>1 DEF Load, LoadClear
    <3>2. CASE Fill(t) BY <2>2, <3>2 DEF Fill, LoadFill
    <3>3. CASE Sync(t) BY <3>3 DEF Sync, SyncBegin
    <3>4. CASE ReadIps(t) BY <3>4 DEF ReadIps
    <3>5. CASE AddDenied(t) BY <3>5 DEF AddDenied, SyncDeny, AddDeny
    <3>6. CASE ReadAllows(t) BY <3>6 DEF ReadAllows
    <3>7. CASE AddAllowed(t) BY <3>7 DEF AddAllowed, SyncAllow, Accepted
    <3> QED BY <2>2, <3>1, <3>2, <3>3, <3>4, <3>5, <3>6, <3>7 DEF ReloadStep
  <2>3. CASE MainWorks
    <3>1. CASE StartIpc \/ StartKmsg \/ JoinKmsg \/ JoinIpc
      BY <3>1 DEF StartIpc, StartKmsg, JoinKmsg, JoinIpc
    <3>2. CASE InstallTable
      <4>1. PICK ok \in NftOutcomes : Install(ok) /\ Goto("main", IF ok THEN "sync" ELSE "idle")
        BY <3>2 DEF InstallTable
      <4>2. NftTypeOK' BY <4>1 DEF Install, DropDeny, NftOutcomes
      <4> QED BY <3>2, <4>1, <4>2 DEF InstallTable
    <3>3. CASE Exit BY <3>3 DEF Exit, Teardown, DropDeny, BlForget
    <3> QED BY <2>2, <2>3, <3>1, <3>2, <3>3 DEF MainWorks
  <2>4. CASE IpcWorks
    <3>1. CASE Edit BY <3>1 DEF Edit, AddBlock, AddAllow, Remove
    <3>2. CASE Save BY <3>2 DEF Save, SaveBlocks, SaveAllows
    <3>3. CASE NftStep BY <3>3 DEF NftStep, BlockIp, UnblockIp, AddDeny, DropDeny, Reply
    <3>4. CASE NftStep2 BY <3>4 DEF NftStep2, AllowAdd, UnallowIp, Reply
    <3> QED BY <2>2, <2>4, <3>1, <3>2, <3>3, <3>4 DEF IpcWorks
  <2>5. CASE KmsgWorks
    <3>1. CASE CheckAllowed BY <3>1 DEF CheckAllowed
    <3>2. CASE Autoblock BY <3>2 DEF Autoblock, BlockIp, AddDeny
    <3> QED BY <2>5, <3>1, <3>2 DEF KmsgWorks
  <2>6. CASE World BY <2>6 DEF World, PublishFeed, EditAllowTxt
  <2>7. CASE Timeout BY <2>7 DEF Timeout, Expire, DropDeny
  <2>8. CASE UNCHANGED vars BY <2>8 DEF vars
  <2> QED BY <2>1, <2>3, <2>4, <2>5, <2>6, <2>7, <2>8 DEF Next
<1> QED BY <1>1, <1>2, PTL DEF Spec

(***************************************************************************)
(* The threads: whatever fails, the two locks are held exactly by whom the *)
(* program counters say, and the phases of main follow each other.         *)
(***************************************************************************)

LEMMA ThreadsInit == Init => ThreadsInv
BY DEF Init, ThreadsInv, BlInit, NftInit, LockInv, PhaseInv, CommandInv, Enforcing, Working,
       At, Threads, SyncSteps, Unlocked, Holding

LEMMA ThreadsStep ==
    ASSUME TypeOK, ThreadsInv, [Next]_vars
    PROVE  ThreadsInv'
<1> USE ListAssumption, NftAssumption, TimedAssumption
    DEF Threads, SyncSteps, Unlocked, Holding, At, Goto, blVars, nftVars,
        diskVars, userFiles, listVars, edges, Enforcing, Working,
        ThreadsInv, LockInv, PhaseInv, CommandInv, TypeOK, BlTypeOK, NftTypeOK
<1>1. CASE NewWork
  <2>1. CASE Boot \/ Sighup \/ Sigterm \/ RequestReload
    BY <2>1 DEF Boot, Sighup, Sigterm, RequestReload
  <2>2. CASE Crash
    BY <2>2 DEF Crash, BlForget, NftForget
  <2>3. ASSUME NEW c \in Commands, Request(c) PROVE ThreadsInv'
    BY <2>3 DEF Request, Commands
  <2>4. ASSUME NEW ip \in Scanners, Scan(ip) PROVE ThreadsInv'
    BY <2>4 DEF Scan
  <2> QED BY <1>1, <2>1, <2>2, <2>3, <2>4 DEF NewWork
<1>2. ASSUME NEW t \in {"main", "ipc"}, ReloadStep(t) PROVE ThreadsInv'
  <2>1. CASE Load(t)
    BY <2>1 DEF Load, LoadClear
  <2>2. CASE Fill(t)
    BY <2>2 DEF Fill, LoadFill
  <2>3. CASE Sync(t)
    <3>1. CASE installed
      <4>1. pc' = [pc EXCEPT ![t] = "readIps"] /\ pc[t] = "sync" /\ nftLock = {}
            /\ nftLock' = {t} /\ UNCHANGED <<blVars, installed, nftAllow, edges>>
        BY <2>3, <3>1 DEF Sync, SyncBegin
      <4>2. LockInv' BY <4>1
      <4>3. PhaseInv' BY <3>1, <4>1
      <4>4. CommandInv' BY <4>1
      <4> QED BY <4>2, <4>3, <4>4
    <3>2. CASE ~installed
      <4>1. pc' = [pc EXCEPT ![t] = "idle"] /\ pc[t] = "sync"
            /\ UNCHANGED <<blVars, nftVars, edges>>
        BY <2>3, <3>2 DEF Sync
      <4> QED BY <3>2, <4>1
    <3> QED BY <3>1, <3>2
  <2>4. CASE ReadIps(t)
    BY <2>4 DEF ReadIps, CanRead
  <2>5. CASE AddDenied(t)
    BY <2>5 DEF AddDenied, SyncDeny
  <2>6. CASE ReadAllows(t)
    BY <2>6 DEF ReadAllows, CanRead
  <2>7. CASE AddAllowed(t)
    BY <2>7 DEF AddAllowed, SyncAllow
  <2> QED BY <1>2, <2>1, <2>2, <2>3, <2>4, <2>5, <2>6, <2>7 DEF ReloadStep
<1>3. CASE MainWorks
  <2>1. CASE StartIpc \/ StartKmsg \/ JoinKmsg \/ JoinIpc
    BY <2>1 DEF StartIpc, StartKmsg, JoinKmsg, JoinIpc
  <2>2. CASE InstallTable
    BY <2>2 DEF InstallTable, Install
  <2>3. CASE Exit
    BY <2>3 DEF Exit, Teardown, BlForget
  <2> QED BY <1>2, <1>3, <2>1, <2>2, <2>3 DEF MainWorks
<1>4. CASE IpcWorks
  <2>1. CASE Edit
    BY <2>1 DEF Edit, AddBlock, AddAllow, Remove, CanRead, Commands
  <2>2. CASE Save
    BY <2>2 DEF Save, SaveBlocks, SaveAllows
  <2>3. CASE NftStep
    BY <2>3 DEF NftStep, BlockIp, UnblockIp, Reply, Commands
  <2>4. CASE NftStep2
    BY <2>4 DEF NftStep2, AllowAdd, UnallowIp, Reply, Commands
  <2> QED BY <1>2, <1>4, <2>1, <2>2, <2>3, <2>4 DEF IpcWorks
<1>5. CASE KmsgWorks
  <2>1. CASE CheckAllowed
    <3>1. UNCHANGED <<blVars, nftVars, req, snap, wish>> /\ pc["kmsg"] = "check"
          /\ (pc' = [pc EXCEPT !["kmsg"] = "idle"] \/ pc' = [pc EXCEPT !["kmsg"] = "autoblock"])
      BY <2>1 DEF CheckAllowed
    <3> QED BY <3>1
  <2>2. CASE Autoblock
    BY <2>2 DEF Autoblock, BlockIp
  <2> QED BY <1>5, <2>1, <2>2 DEF KmsgWorks
<1>6. CASE World \/ Timeout
  BY <1>6 DEF World, PublishFeed, EditAllowTxt, Timeout, Expire
<1>7. CASE UNCHANGED vars
  BY <1>7 DEF vars
<1> QED BY <1>1, <1>3, <1>4, <1>5, <1>6, <1>7 DEF Next

(* The list lock and the nft lock are held exactly by the threads inside   *)
(* the critical sections of load, of an edit and of sync, whatever fails:  *)
(* two reloads, or a reload and an edit, exclude each other, and no early  *)
(* return keeps a lock.                                                    *)
THEOREM LocksAreHeld == Spec => []LockInv
<1>1. TypeOK /\ ThreadsInv /\ [Next]_vars => ThreadsInv'
  BY ThreadsStep
<1>2. ThreadsInv => LockInv
  BY DEF ThreadsInv
<1> QED BY <1>1, <1>2, ThreadsInit, TypeCorrect, PTL DEF Spec

(***************************************************************************)
(* The files: with writes that succeed, they keep what was said of each    *)
(* address, and the lists mirror them.                                     *)
(***************************************************************************)

LEMMA FilesInit == Init => FilesInv
BY DEF Init, FilesInv, BlInit, ListInv, EditInv, MirrorInv, StoredInv, Said, Told, Loaded,
       Saving, At, Threads, Unlocked, Holding, Own

LEMMA FilesStep ==
    ASSUME ~IoMayFail, TypeOK, ThreadsInv, FilesInv, [Next]_vars
    PROVE  FilesInv'
<1> USE ListAssumption, NftAssumption, TimedAssumption
    DEF Threads, Unlocked, Holding, At, Goto, blVars, nftVars, Own, Loaded, Saving, Told, Said,
        diskVars, userFiles, listVars, edges, FilesInv, ListInv, EditInv, MirrorInv, StoredInv
<1> USE DEF ThreadsInv, LockInv, TypeOK, BlTypeOK
<1>1. CASE NewWork
  <2>1. CASE Boot \/ Sighup \/ Sigterm \/ RequestReload
    BY <2>1 DEF Boot, Sighup, Sigterm, RequestReload, PhaseInv
  <2>2. CASE Crash
    BY <2>2 DEF Crash, BlForget, NftForget
  <2>3. ASSUME NEW c \in Commands, Request(c) PROVE FilesInv'
    BY <2>3 DEF Request, Commands
  <2>4. ASSUME NEW ip \in Scanners, Scan(ip) PROVE FilesInv'
    BY <2>4 DEF Scan
  <2> QED BY <1>1, <2>1, <2>2, <2>3, <2>4 DEF NewWork
<1>2. ASSUME NEW t \in {"main", "ipc"}, ReloadStep(t) PROVE FilesInv'
  <2>1. CASE Load(t)
    BY <2>1 DEF Load, LoadClear
  <2>2. CASE Fill(t)
    BY <2>2 DEF Fill, LoadFill, IoOutcomes
  <2>3. CASE Sync(t)
    BY <2>3 DEF Sync, SyncBegin, PhaseInv
  <2>4. CASE ReadIps(t)
    BY <2>4 DEF ReadIps, CanRead
  <2>5. CASE AddDenied(t)
    BY <2>5 DEF AddDenied, SyncDeny
  <2>6. CASE ReadAllows(t)
    BY <2>6 DEF ReadAllows, CanRead
  <2>7. CASE AddAllowed(t)
    BY <2>7 DEF AddAllowed, SyncAllow
  <2> QED BY <1>2, <2>1, <2>2, <2>3, <2>4, <2>5, <2>6, <2>7 DEF ReloadStep
<1>3. CASE MainWorks
  <2>1. CASE StartIpc \/ StartKmsg \/ JoinKmsg \/ JoinIpc
    <3>1. CASE StartIpc BY <3>1 DEF StartIpc, PhaseInv, KmsgSteps
    <3>2. CASE StartKmsg BY <3>2 DEF StartKmsg, KmsgSteps
    <3>3. CASE JoinKmsg BY <3>3 DEF JoinKmsg
    <3>4. CASE JoinIpc BY <3>4 DEF JoinIpc
    <3> QED BY <2>1, <3>1, <3>2, <3>3, <3>4
  <2>2. CASE InstallTable
    BY <2>2 DEF InstallTable, Install
  <2>3. CASE Exit
    BY <2>3 DEF Exit, Teardown, BlForget, PhaseInv
  <2> QED BY <1>2, <1>3, <2>1, <2>2, <2>3 DEF MainWorks
<1>4. CASE IpcWorks
  <2>1. CASE Edit
    BY <2>1 DEF Edit, AddBlock, AddAllow, Remove, Listed, CanRead, Commands, CommandInv, Working
  <2>2. CASE Save
    BY <2>2 DEF Save, SaveBlocks, SaveAllows, IoOutcomes, Commands, CommandInv, Working
  <2>3. CASE NftStep
    BY <2>3 DEF NftStep, BlockIp, UnblockIp, Reply, Commands, CommandInv, Working
  <2>4. CASE NftStep2
    BY <2>4 DEF NftStep2, AllowAdd, UnallowIp, Reply, Commands, CommandInv, Working
  <2> QED BY <1>2, <1>4, <2>1, <2>2, <2>3, <2>4 DEF IpcWorks
<1>5. CASE KmsgWorks
  <2>1. CASE CheckAllowed
    <3>1. UNCHANGED <<blVars, nftVars, req, snap, wish>> /\ pc["kmsg"] = "check"
          /\ (pc' = [pc EXCEPT !["kmsg"] = "idle"] \/ pc' = [pc EXCEPT !["kmsg"] = "autoblock"])
      BY <2>1 DEF CheckAllowed
    <3> QED BY <3>1
  <2>2. CASE Autoblock
    BY <2>2 DEF Autoblock
  <2> QED BY <1>5, <2>1, <2>2 DEF KmsgWorks
<1>6. CASE World \/ Timeout
  BY <1>6 DEF World, PublishFeed, EditAllowTxt, Timeout
<1>7. CASE UNCHANGED vars
  BY <1>7 DEF vars
<1> QED BY <1>1, <1>3, <1>4, <1>5, <1>6, <1>7 DEF Next

(***************************************************************************)
(* The kernel's sets: with nft invocations that succeed too, they follow   *)
(* what was answered, through every interleaving with reloads and scans.   *)
(***************************************************************************)

LEMMA KernelInit == Init => KernelInv
BY ListAssumption, NftAssumption, TimedAssumption
   DEF Init, KernelInv, BlInit, NftInit, TimeoutInv, ExclusionsIn, BlocksIn, AllowsListed,
       UnblocksOut, Clean, Syncing, Seeded, Enforcing, At, Threads, Own

LEMMA KernelStep ==
    ASSUME ~IoMayFail, ~NftMayFail, TypeOK, ThreadsInv, FilesInv, KernelInv, [Next]_vars,
           ThreadsInv', FilesInv'
    PROVE  KernelInv'
<1> USE ListAssumption, NftAssumption, TimedAssumption
    DEF Threads, Unlocked, Holding, At, Goto, blVars, nftVars, Own, Loaded, Enforcing, Clean,
        Seeded, Syncing, Excluded, Removing, Timed, diskVars, userFiles, listVars, edges,
        SyncSteps, KernelInv, TimeoutInv, ExclusionsIn, BlocksIn, AllowsListed, UnblocksOut
<1> USE DEF ThreadsInv, LockInv, TypeOK, BlTypeOK, NftTypeOK, FilesInv
<1>1. CASE NewWork
  <2>1. CASE Boot \/ Sighup \/ Sigterm \/ RequestReload
    BY <2>1 DEF Boot, Sighup, Sigterm, RequestReload, PhaseInv
  <2>2. CASE Crash
    BY <2>2 DEF Crash, BlForget, NftForget
  <2>3. ASSUME NEW c \in Commands, Request(c) PROVE KernelInv'
    BY <2>3 DEF Request, Commands
  <2>4. ASSUME NEW ip \in Scanners, Scan(ip) PROVE KernelInv'
    BY <2>4 DEF Scan
  <2> QED BY <1>1, <2>1, <2>2, <2>3, <2>4 DEF NewWork
<1>2. ASSUME NEW t \in {"main", "ipc"}, ReloadStep(t) PROVE KernelInv'
  <2>1. CASE Load(t)
    BY <2>1 DEF Load, LoadClear, MirrorInv, Saving
  <2>2. CASE Fill(t)
    BY <2>2 DEF Fill, LoadFill, IoOutcomes
  <2>3. CASE Sync(t)
    BY <2>3 DEF Sync, SyncBegin, PhaseInv
  <2>4. CASE ReadIps(t)
    <3>1. /\ pc[t] = "readIps" /\ pc' = [pc EXCEPT ![t] = "addDeny"] /\ snap' = ips
          /\ writer = Unlocked /\ UNCHANGED <<blVars, nftVars, req, suspect, wish>>
      BY <2>4 DEF ReadIps, CanRead
    <3>2. TimeoutInv' BY <3>1 DEF MirrorInv, StoredInv, ListInv, Saving, Said, Told, PhaseInv
    <3>3. ExclusionsIn' BY <3>1 DEF MirrorInv, StoredInv, ListInv, Saving, Said, Told, PhaseInv
    <3>4. BlocksIn' BY <3>1 DEF MirrorInv, StoredInv, ListInv, Saving, Said, Told, PhaseInv
    <3>5. AllowsListed' BY <3>1 DEF MirrorInv, StoredInv, ListInv, Saving, Said, Told, PhaseInv
    <3>6. UnblocksOut' BY <3>1 DEF MirrorInv, StoredInv, ListInv, Saving, Said, Told, PhaseInv
    <3> QED BY <3>2, <3>3, <3>4, <3>5, <3>6
  <2>5. CASE AddDenied(t)
    <3>1. /\ pc[t] = "addDeny" /\ pc' = [pc EXCEPT ![t] = "readAllows"] /\ snap' = {}
          /\ \A ip \in Ips : deny'[ip] = deny[ip] \/ (deny'[ip] = "perm" /\ ip \in snap)
          /\ \A ip \in snap : deny'[ip] # "no" /\ (ip \notin Timed => deny'[ip] = "perm")
          /\ UNCHANGED <<blVars, installed, nftAllow, nftLock, req, suspect, wish>>
      <4>1. PICK update \in BOOLEAN :
               deny' = [ip \in Ips |-> IF ip \in snap /\ (deny[ip] = "no" \/ (update /\ "perm" = "perm"))
                                      THEN "perm" ELSE deny[ip]]
        BY <2>5 DEF AddDenied, SyncDeny, AddDeny, Accepted
      <4>2. \A ip \in Ips : deny[ip] \in {"no", "perm", "ttl"}
        BY DEF Modes
      <4>3. \A ip \in Ips : deny'[ip] = deny[ip] \/ (deny'[ip] = "perm" /\ ip \in snap)
        BY <4>1
      <4>4. ASSUME NEW ip \in snap
            PROVE  deny'[ip] # "no" /\ (ip \notin Timed => deny'[ip] = "perm")
        BY ONLY <4>1, <4>2, <4>4, TypeOK, KernelInv DEF TypeOK, KernelInv, TimeoutInv
      <4> QED BY <2>5, <4>3, <4>4 DEF AddDenied, SyncDeny
    <3>2. TimeoutInv' BY <3>1
    <3>3. ExclusionsIn' BY <3>1
    <3>4. BlocksIn' BY <3>1
    <3>5. AllowsListed' BY <3>1
    <3>6. UnblocksOut' BY <3>1
    <3> QED BY <3>2, <3>3, <3>4, <3>5, <3>6
  <2>6. CASE ReadAllows(t)
    <3>1. /\ pc[t] = "readAllows" /\ pc' = [pc EXCEPT ![t] = "addAllow"] /\ snap' = allowIps
          /\ writer = Unlocked /\ UNCHANGED <<blVars, nftVars, req, suspect, wish>>
      BY <2>6 DEF ReadAllows, CanRead
    <3>2. TimeoutInv' BY <3>1 DEF MirrorInv, StoredInv, Saving, Said, Told, PhaseInv
    <3>3. ExclusionsIn' BY <3>1 DEF MirrorInv, StoredInv, Saving, Said, Told, PhaseInv
    <3>4. BlocksIn' BY <3>1 DEF MirrorInv, StoredInv, Saving, Said, Told, PhaseInv
    <3>5. AllowsListed' BY <3>1 DEF MirrorInv, StoredInv, Saving, Said, Told, PhaseInv
    <3>6. UnblocksOut' BY <3>1 DEF MirrorInv, StoredInv, Saving, Said, Told, PhaseInv
    <3> QED BY <3>2, <3>3, <3>4, <3>5, <3>6
  <2>7. CASE AddAllowed(t)
    BY <2>7 DEF AddAllowed, SyncAllow, Accepted
  <2> QED BY <1>2, <2>1, <2>2, <2>3, <2>4, <2>5, <2>6, <2>7 DEF ReloadStep
<1>3. CASE MainWorks
  <2>1. CASE StartIpc
    BY <2>1 DEF StartIpc, PhaseInv, KmsgSteps
  <2>2. CASE StartKmsg \/ JoinKmsg \/ JoinIpc
    <3>1. CASE StartKmsg BY <3>1 DEF StartKmsg
    <3>2. CASE JoinKmsg BY <3>2 DEF JoinKmsg
    <3>3. CASE JoinIpc BY <3>3 DEF JoinIpc, PhaseInv, MirrorInv, Saving, KmsgSteps
    <3> QED BY <2>2, <3>1, <3>2, <3>3
  <2>3. CASE InstallTable
    <3>1. /\ pc["main"] = "install" /\ pc' = [pc EXCEPT !["main"] = "sync"] /\ nftLock = {}
          /\ installed' = TRUE /\ deny' = [ip \in Ips |-> "no"] /\ nftAllow' = {}
          /\ UNCHANGED <<blVars, nftLock, req, suspect, snap, wish>>
      BY <2>3 DEF InstallTable, Install, DropDeny, NftOutcomes
    <3>2. TimeoutInv' BY <3>1 DEF PhaseInv
    <3>3. ExclusionsIn' BY <3>1 DEF PhaseInv
    <3>4. BlocksIn' BY <3>1 DEF PhaseInv
    <3>5. AllowsListed' BY <3>1 DEF PhaseInv
    <3>6. UnblocksOut' BY <3>1 DEF PhaseInv
    <3> QED BY <3>2, <3>3, <3>4, <3>5, <3>6
  <2>4. CASE Exit
    BY <2>4 DEF Exit, Teardown, DropDeny, NftOutcomes, BlForget, PhaseInv
  <2> QED BY <1>2, <1>3, <2>1, <2>2, <2>3, <2>4 DEF MainWorks
<1>4. CASE IpcWorks
  <2>1. CASE Edit
    BY <2>1 DEF Edit, AddBlock, AddAllow, Remove, Listed, CanRead, Commands, CommandInv, Working
  <2>2. CASE Save
    BY <2>2 DEF Save, SaveBlocks, SaveAllows, IoOutcomes, Commands, CommandInv, Working
  <2>3. CASE NftStep
    <3>1. CASE req.cmd = "block"
      <4>1. PICK update \in BOOLEAN :
               deny' = IF installed
                       THEN [ip \in Ips |-> IF ip \in {req.ip} /\ (deny[ip] = "no" \/ (update /\ req.mode = "perm"))
                                           THEN req.mode ELSE deny[ip]]
                       ELSE deny
        BY <2>3, <3>1 DEF NftStep, BlockIp, AddDeny, NftOutcomes
      <4>2. /\ pc["ipc"] = "nft" /\ nftLock = {} /\ pc' = [pc EXCEPT !["ipc"] = "idle"]
            /\ req' = NoReq /\ wish' = [wish EXCEPT ![req.ip] = req.mode]
            /\ UNCHANGED <<blVars, suspect, snap, installed, nftAllow, nftLock>>
        BY <2>3, <3>1 DEF NftStep, BlockIp, Reply
      <4>3. /\ req.ip \in Ips
            /\ req.mode = "perm" \/ (req.mode = "ttl" /\ req.ip \in Timed)
        BY <3>1, <4>2 DEF CommandInv, Working, Commands
      <4>4. TimeoutInv' BY <4>1, <4>2, <4>3
      <4>5. ExclusionsIn' BY <4>2, <4>3
      <4>6. BlocksIn'
        <5>1. \A ip \in Ips : deny[ip] \in {"no", "perm", "ttl"}
          BY DEF Modes
        <5> QED BY <4>1, <4>2, <4>3, <5>1 DEF PhaseInv
      <4>7. AllowsListed' BY <4>2, <3>1
      <4>8. UnblocksOut' BY <4>1, <4>2, <4>3
      <4> QED BY <4>4, <4>5, <4>6, <4>7, <4>8
    <3>2. CASE req.cmd # "block"
      <4>1. /\ pc["ipc"] = "nft" /\ nftLock = {} /\ pc' = [pc EXCEPT !["ipc"] = "nft2"]
            /\ deny' = IF installed THEN [ip \in Ips |-> IF ip \in {req.ip} THEN "no" ELSE deny[ip]]
                                    ELSE deny
            /\ UNCHANGED <<blVars, suspect, snap, installed, nftAllow, nftLock, wish, req>>
        BY <2>3, <3>2 DEF NftStep, UnblockIp, DropDeny, NftOutcomes
      <4>2. req.ip \in Ips /\ wish[req.ip] = "pending"
        BY <4>1 DEF CommandInv, Working, Commands
      <4> QED BY <4>1, <4>2
    <3> QED BY <3>1, <3>2
  <2>4. CASE NftStep2
    <3>1. /\ pc["ipc"] = "nft2" /\ nftLock = {} /\ pc' = [pc EXCEPT !["ipc"] = "idle"]
          /\ req' = NoReq /\ UNCHANGED <<blVars, suspect, snap, installed, deny, nftLock>>
      BY <2>4 DEF NftStep2, AllowAdd, UnallowIp, Reply
    <3>2. req.ip \in Ips /\ req.cmd \in {"exclude", "unblock"}
      BY <2>4, <3>1 DEF NftStep2, CommandInv, Working, Commands
    <3>3. CASE req.cmd = "exclude"
      <4>1. /\ wish' = [wish EXCEPT ![req.ip] = "allow"]
            /\ nftAllow' = IF installed THEN nftAllow \cup {req.ip} ELSE nftAllow
        BY <2>4, <3>3 DEF NftStep2, AllowAdd, NftOutcomes, Reply
      <4>2. Loaded => req.ip \in allowIps
        BY <3>1, <3>2, <3>3 DEF StoredInv, MirrorInv, Saving, Said
      <4> QED BY <3>1, <3>2, <3>3, <4>1, <4>2 DEF PhaseInv, StoredInv, Said
    <3>4. CASE req.cmd = "unblock"
      <4>1. /\ wish' = [wish EXCEPT ![req.ip] = "none"]
            /\ nftAllow' = IF installed THEN nftAllow \ {req.ip} ELSE nftAllow
        BY <2>4, <3>4 DEF NftStep2, UnallowIp, NftOutcomes, Reply
      <4>2. ExclusionsIn' BY <3>1, <3>2, <4>1
      <4>3. BlocksIn' BY <3>1, <3>2, <4>1
      <4>4. AllowsListed' BY <3>1, <3>2, <3>4, <4>1
      <4>5. UnblocksOut' BY <3>1, <3>2, <3>4, <4>1
      <4> QED BY <3>1, <4>2, <4>3, <4>4, <4>5
    <3> QED BY <3>2, <3>3, <3>4
  <2> QED BY <1>2, <1>4, <2>1, <2>2, <2>3, <2>4 DEF IpcWorks
<1>5. CASE KmsgWorks
  <2>1. CASE CheckAllowed
    <3>1. UNCHANGED <<blVars, nftVars, req, snap, wish>> /\ pc["kmsg"] = "check"
          /\ (pc' = [pc EXCEPT !["kmsg"] = "idle"] \/ pc' = [pc EXCEPT !["kmsg"] = "autoblock"])
      BY <2>1 DEF CheckAllowed
    <3> QED BY <3>1
  <2>2. CASE Autoblock
    BY <2>2 DEF Autoblock, BlockIp, AddDeny, NftOutcomes
  <2> QED BY <1>5, <2>1, <2>2 DEF KmsgWorks
<1>6. CASE World
  BY <1>6 DEF World, PublishFeed, EditAllowTxt
<1>7. CASE Timeout
  BY <1>7 DEF Timeout, Expire, DropDeny
<1>8. CASE UNCHANGED vars
  BY <1>8 DEF vars
<1> QED BY <1>1, <1>3, <1>4, <1>5, <1>6, <1>7, <1>8 DEF Next

(***************************************************************************)
(* What follows from the three layers.                                     *)
(***************************************************************************)

LEMMA FilesMirrored ==
    ASSUME ~IoMayFail
    PROVE  Spec => [](TypeOK /\ ThreadsInv /\ FilesInv)
<1>1. TypeOK /\ ThreadsInv /\ [Next]_vars => ThreadsInv'
  BY ThreadsStep
<1>2. TypeOK /\ ThreadsInv /\ FilesInv /\ [Next]_vars => FilesInv'
  BY FilesStep
<1> QED BY <1>1, <1>2, ThreadsInit, FilesInit, TypeCorrect, PTL DEF Spec

LEMMA KernelFollows ==
    ASSUME ~IoMayFail, ~NftMayFail
    PROVE  Spec => [](TypeOK /\ EnforcementInv)
<1>1. /\ TypeOK /\ ThreadsInv /\ FilesInv /\ KernelInv /\ [Next]_vars /\ ThreadsInv' /\ FilesInv'
      => KernelInv'
  BY KernelStep
<1>2. ThreadsInv /\ FilesInv /\ KernelInv => EnforcementInv
  BY DEF EnforcementInv
<1> QED BY <1>1, <1>2, FilesMirrored, KernelInit, PTL DEF Spec

(* An address whose exclusion was answered is in the kernel's allow set    *)
(* from the start-up to the shutdown, over reloads, scans, crashes and the *)
(* commands of other clients.                                              *)
THEOREM ExclusionsEnforced ==
    ASSUME ~IoMayFail, ~NftMayFail
    PROVE  Spec => []ExclusionEnforced
<1>1. EnforcementInv => ExclusionEnforced
  BY DEF EnforcementInv, KernelInv, ExclusionsIn, Seeded, ExclusionEnforced
<1> QED BY <1>1, KernelFollows, PTL

(* An address whose permanent block was answered stays in the deny set,    *)
(* over the same interleavings, and only an exclusion on the lists lifts   *)
(* it.                                                                     *)
THEOREM BlocksEnforced ==
    ASSUME ~IoMayFail, ~NftMayFail
    PROVE  Spec => []BlockEnforced
<1>1. ASSUME TypeOK, EnforcementInv PROVE BlockEnforced
  <2> SUFFICES ASSUME Enforcing, NEW ip \in Ips \ Timed, wish[ip] = "perm"
               PROVE  /\ deny[ip] = "perm"
                      /\ ip \in nftAllow \ Curated => ip \in allowIps \cup userAllowTxt
    BY DEF BlockEnforced
  <2>1. deny[ip] = "perm"
    BY <1>1 DEF EnforcementInv, KernelInv, BlocksIn, Seeded
  <2>2. ~Removing(ip) /\ installed
    BY <1>1 DEF EnforcementInv, ThreadsInv, CommandInv, PhaseInv, Removing, Working
  <2>3. ip \in nftAllow \ Curated => Excluded(ip)
    BY <1>1, <2>2 DEF EnforcementInv, KernelInv, AllowsListed, Own
  <2> QED BY <2>1, <2>3 DEF Excluded
<1> QED BY <1>1, KernelFollows, PTL

(* An address whose unblock was answered is on no list and in neither set: *)
(* no reload that was under way brings it back.                            *)
THEOREM UnblocksEffective ==
    ASSUME ~IoMayFail, ~NftMayFail
    PROVE  Spec => []UnblockEffective
<1>1. ASSUME TypeOK, EnforcementInv PROVE UnblockEffective
  <2> SUFFICES ASSUME Enforcing, NEW ip \in Clean, wish[ip] = "none"
               PROVE  ~Listed(ip) /\ deny[ip] = "no" /\ ip \notin nftAllow
    BY DEF UnblockEffective, Clean
  <2> USE <1>1 DEF EnforcementInv, ThreadsInv, FilesInv, KernelInv
  <2>1. installed
    BY DEF PhaseInv
  <2>2. deny[ip] = "no" /\ ip \notin nftAllow
    BY <2>1 DEF UnblocksOut
  <2>3. ~Listed(ip)
    <3>1. CASE \E t \in Threads : At(t, "fill")
      BY <3>1 DEF ListInv, Listed
    <3>2. CASE \A t \in Threads : ~At(t, "fill")
      <4>1. Loaded /\ ip \in Ips \ Saving
        BY <3>2 DEF Loaded, PhaseInv, CommandInv, Working, Saving, At, Clean
      <4>2. ip \in Own /\ ip \notin FeedIps
        BY DEF Clean, Own
      <4>3. ip \notin userBlockTxt /\ ip \notin userAllowTxt
        BY <4>2 DEF StoredInv, Said, Told, Own
      <4> QED BY <4>1, <4>2, <4>3 DEF MirrorInv, ListInv, Listed
    <3> QED BY <3>1, <3>2
  <2> QED BY <2>2, <2>3
<1> QED BY <1>1, KernelFollows, PTL

(* Only commands and the saving of an edit touch what a user was told or   *)
(* what the user's files hold.                                             *)
LEMMA StoreUntouched ==
    ASSUME [Next]_vars, ~(\E c \in Commands : Request(c)), ~Save, ~NftStep, ~NftStep2
    PROVE  UNCHANGED <<userBlockTxt, userAllowTxt, wish>>
<1> USE DEF blVars, nftVars, diskVars, userFiles, listVars, edges
<1>1. ASSUME NEW t \in {"main", "ipc"}, ReloadStep(t)
      PROVE  UNCHANGED <<userBlockTxt, userAllowTxt, wish>>
  BY <1>1 DEF ReloadStep, Load, LoadClear, Fill, LoadFill, Sync, ReadIps, AddDenied, ReadAllows,
              AddAllowed
<1>2. CASE MainWorks
  BY <1>1, <1>2 DEF MainWorks, StartIpc, InstallTable, StartKmsg, JoinKmsg, JoinIpc, Exit, BlForget
<1>3. CASE IpcWorks
  BY <1>1, <1>3 DEF IpcWorks, Edit, AddBlock, AddAllow, Remove
<1>4. CASE KmsgWorks
  BY <1>4 DEF KmsgWorks, CheckAllowed, Autoblock
<1>5. CASE NewWork
  BY <1>5 DEF NewWork, Boot, Sighup, Sigterm, Crash, RequestReload, Scan, BlForget
<1>6. CASE World \/ Timeout \/ UNCHANGED vars
  BY <1>6 DEF World, PublishFeed, EditAllowTxt, Timeout, vars
<1> QED BY <1>2, <1>3, <1>4, <1>5, <1>6 DEF Next

LEMMA StoreStep ==
    ASSUME ~IoMayFail, TypeOK, ThreadsInv, FilesInv, [Next]_vars
    PROVE  [Store!Next]_(<<[ip \in Own |-> StoredIn(ip)], [ip \in Own |-> Told(ip)]>>)
<1> DEFINE stored == [ip \in Own |-> StoredIn(ip)]
           told == [ip \in Own |-> Told(ip)]
<1> SUFFICES Store!Next \/ (stored' = stored /\ told' = told)
  OBVIOUS
<1>1. CASE UNCHANGED <<userBlockTxt, userAllowTxt, wish>>
  BY <1>1 DEF StoredIn, Told
<1>2. ASSUME NEW c \in Commands, Request(c)
      PROVE  Store!Next \/ (stored' = stored /\ told' = told)
  <2>1. c.ip \in Ips /\ wish' = [wish EXCEPT ![c.ip] = "pending"] /\ stored' = stored
    BY <1>2, TimedAssumption
    DEF Request, Commands, StoredIn, blVars, diskVars
  <2>2. CASE c.ip \in Own
    <3>1. told' = [told EXCEPT ![c.ip] = "pending"]
      BY <2>1, <2>2 DEF Told, Own, TypeOK
    <3> QED BY <2>1, <2>2, <3>1 DEF Store!Next, Store!Ask
  <2>3. CASE c.ip \notin Own
    BY <2>1, <2>3 DEF Told, Own, TypeOK
  <2> QED BY <2>2, <2>3
<1>3. CASE Save
  <2>1. /\ pc["ipc"] = "save" /\ wish' = wish /\ req' = req
        /\ \/ writer = Holding("ipc", "saveBlocks") /\ userBlockTxt' = userBlockIps
              /\ userAllowTxt' = userAllowTxt
           \/ writer = Holding("ipc", "saveAllows") /\ userAllowTxt' = allowIps
              /\ userBlockTxt' = userBlockTxt
    BY <1>3 DEF Save, SaveBlocks, SaveAllows, IoOutcomes, At, edges
  <2>2. Loaded /\ Saving = {req.ip} /\ wish[req.ip] = "pending" /\ req.ip \in Ips
    <3>1. \A t \in Threads : pc[t] # "fill"
      BY <2>1 DEF ThreadsInv, LockInv, Holding
    <3>2. req \in Commands /\ wish[req.ip] = "pending"
      BY <2>1 DEF ThreadsInv, CommandInv, Working
    <3>3. req.ip \in Ips
      BY <3>2, TimedAssumption DEF Commands
    <3> QED BY <2>1, <3>1, <3>2, <3>3 DEF Loaded, Saving, At
  <2>3. \A ip \in Own : ip # req.ip => StoredIn(ip)' = StoredIn(ip)
    BY <2>1, <2>2 DEF StoredIn, FilesInv, MirrorInv, Own
  <2>4. told' = told
    BY <2>1 DEF Told
  <2>5. CASE req.ip \in Own
    <3>1. stored' = [stored EXCEPT ![req.ip] = StoredIn(req.ip)']
      BY <2>1, <2>3
    <3>2. StoredIn(req.ip)' \in SUBSET {"block", "allow"}
      BY DEF StoredIn
    <3>3. told[req.ip] = "pending"
      BY <2>2, <2>5 DEF Told
    <3> QED BY <2>4, <2>5, <3>1, <3>2, <3>3 DEF Store!Next, Store!Settle
  <2>6. CASE req.ip \notin Own
    BY <2>3, <2>4, <2>6
  <2> QED BY <2>5, <2>6
<1>4. CASE NftStep \/ NftStep2
  <2>1. /\ pc["ipc"] \in {"nft", "nft2"} /\ req \in Commands /\ wish[req.ip] = "pending"
        /\ stored' = stored
    BY <1>4 DEF NftStep, NftStep2, At, ThreadsInv, CommandInv, Working, StoredIn, blVars, diskVars
  <2>2. req.ip \in Ips
    BY <2>1, TimedAssumption DEF Commands
  <2>3. CASE wish' = wish
    BY <2>1, <2>3 DEF Told
  <2>4. ASSUME NEW v \in {"block", "allow", "none"}, NEW w,
               Said(req.ip, v, req.cmd), wish' = [wish EXCEPT ![req.ip] = w],
               v = IF w \in {"perm", "ttl"} THEN "block" ELSE w,
               <<v, req.cmd>> \in {<<"block", "block">>, <<"allow", "exclude">>, <<"none", "unblock">>}
        PROVE  Store!Next \/ (stored' = stored /\ told' = told)
    <3>1. CASE req.ip \in Own
      <4>1. told' = [told EXCEPT ![req.ip] = v]
        BY <2>2, <2>4, <3>1 DEF Told, Own, TypeOK
      <4>2. told[req.ip] = "pending" /\ stored[req.ip] = StoredIn(req.ip)
        BY <2>1, <3>1 DEF Told
      <4>3. /\ v = "block" => "block" \in StoredIn(req.ip)
            /\ v = "allow" => StoredIn(req.ip) = {"allow"}
            /\ v = "none" => StoredIn(req.ip) = {}
        BY <2>2, <2>4, <3>1 DEF FilesInv, StoredInv, StoredIn
      <4>4. Store!Answer(req.ip, v)
        BY <2>1, <4>1, <4>2, <4>3 DEF Store!Answer, Store!Holds
      <4> QED BY <3>1, <4>4 DEF Store!Next
    <3>2. CASE req.ip \notin Own
      BY <2>1, <2>4, <3>2 DEF Told, Own, TypeOK
    <3> QED BY <3>1, <3>2
  <2>5. CASE NftStep /\ wish' # wish
    <3>1. req.cmd = "block" /\ wish' = [wish EXCEPT ![req.ip] = req.mode]
      BY <2>5 DEF NftStep, Reply
    <3>2. req.mode \in {"perm", "ttl"}
      BY <2>1, <3>1 DEF Commands
    <3> QED BY <2>1, <2>4, <3>1, <3>2 DEF Said
  <2>6. CASE NftStep2
    <3>1. \/ req.cmd = "exclude" /\ wish' = [wish EXCEPT ![req.ip] = "allow"]
          \/ req.cmd = "unblock" /\ wish' = [wish EXCEPT ![req.ip] = "none"]
      BY <2>6 DEF NftStep2, Reply
    <3> QED BY <2>1, <2>4, <3>1 DEF Said
  <2> QED BY <1>4, <2>3, <2>5, <2>6
<1> QED BY <1>1, <1>2, <1>3, <1>4, StoreUntouched

(* The files keep what the user was told: every step of the threads, the   *)
(* files and the kernel is a step of the abstract store, or none of it.    *)
THEOREM StoreRefined ==
    ASSUME ~IoMayFail
    PROVE  Spec => UserStoreSpec
<1>1. Init => Store!Init
  BY DEF Init, BlInit, Store!Init, StoredIn, Told, Own
<1>2. TypeOK /\ ThreadsInv /\ FilesInv /\ [Next]_vars
      => [Store!Next]_(<<[ip \in Own |-> StoredIn(ip)], [ip \in Own |-> Told(ip)]>>)
  BY StoreStep
<1> QED BY <1>1, <1>2, FilesMirrored, PTL DEF Spec, UserStoreSpec, Store!Spec
=============================================================================
