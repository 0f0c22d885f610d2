---------------------------- MODULE Enforcement ----------------------------
(***************************************************************************)
(* The enforcement core of backmasterd: the threads of Daemon.tla driving  *)
(* the lists (Blocklist) and the firewall sets (NftGuard).  Every command  *)
(* is a sequence of critical sections, on the list lock and on the nft     *)
(* lock, and the threads interleave between them.  The process can die at  *)
(* any step and is started again; the kernel table and the files survive.  *)
(***************************************************************************)
EXTENDS Blocklist, NftGuard

CONSTANTS
    Scanners,   \* the addresses a port scan may come from
    TtlIps      \* the addresses somebody may block with `block --ttl`

ASSUME TimedAssumption == Scanners \subseteq Ips /\ TtlIps \subseteq Ips

Timed == Scanners \cup TtlIps

VARIABLES
    pc,         \* pc[t]: the next step of thread t
    req,        \* the command "ipc" is working on
    suspect,    \* the source of the scan "kmsg" is working on, in a set
    snap,       \* the local copy of a list made by the holder of nftLock
    wish        \* history: the last answered edit of each address

vars == <<blVars, nftVars, pc, req, suspect, snap, wish>>

Wishes == {"none", "perm", "ttl", "allow", "pending"}
Commands == [cmd : {"block"}, ip : Ips, mode : {"perm"}]
            \cup [cmd : {"block"}, ip : TtlIps, mode : {"ttl"}]
            \cup [cmd : {"exclude", "unblock"}, ip : Ips, mode : {"none"}]
NoReq == [cmd |-> "none"]

ReloadSteps == {"load", "fill", "sync", "readIps", "addDeny", "readAllows", "addAllow"}
MainSteps == ReloadSteps \cup
             {"off", "serve", "install", "startKmsg", "idle", "stopKmsg", "stopIpc", "exit"}
IpcSteps == ReloadSteps \cup {"off", "idle", "edit", "save", "nft", "nft2"}
KmsgSteps == {"off", "idle", "check", "autoblock"}

(* Lists, sets, locks and threads are in their domains: each thread only   *)
(* ever reaches the steps of its own code, and one thread holds a lock.    *)
TypeOK ==
    /\ BlTypeOK /\ NftTypeOK
    /\ pc \in [Threads -> MainSteps \cup IpcSteps \cup KmsgSteps]
    /\ pc["main"] \in MainSteps /\ pc["ipc"] \in IpcSteps /\ pc["kmsg"] \in KmsgSteps
    /\ req \in Commands \cup {NoReq}
    /\ suspect \in SUBSET Scanners
    /\ snap \subseteq Ips
    /\ wish \in [Ips -> Wishes]

Init ==
    /\ BlInit /\ NftInit
    /\ pc = [t \in Threads |-> "off"]
    /\ req = NoReq /\ suspect = {} /\ snap = {}
    /\ wish = [ip \in Ips |-> "none"]

At(t, s) == pc[t] = s
Goto(t, s) == pc' = [pc EXCEPT ![t] = s]
Up == pc["main"] # "off"
edges == <<req, suspect, snap, wish>>

----------------------------------------------------------------------------
(* main: startup.  The lists are loaded, then commands are served, and     *)
(* only then is the table installed and seeded and the scan watch started. *)

Boot == /\ At("main", "off")
        /\ Goto("main", "load")
        /\ UNCHANGED <<blVars, nftVars, edges>>

StartIpc == /\ At("main", "serve")
            /\ pc' = [pc EXCEPT !["main"] = "install", !["ipc"] = "idle"]
            /\ UNCHANGED <<blVars, nftVars, edges>>

InstallTable ==
    /\ At("main", "install")
    /\ \E ok \in NftOutcomes : /\ Install(ok)
                               /\ Goto("main", IF ok THEN "sync" ELSE "idle")
    /\ UNCHANGED <<blVars, edges>>

StartKmsg == /\ At("main", "startKmsg")
             /\ pc' = [pc EXCEPT !["main"] = "idle", !["kmsg"] = "idle"]
             /\ UNCHANGED <<blVars, nftVars, edges>>

(* main: signals, and the shutdown, which joins the threads it stops.      *)
Sighup == /\ At("main", "idle")
          /\ Goto("main", "load")
          /\ UNCHANGED <<blVars, nftVars, edges>>

Sigterm == /\ At("main", "idle")
           /\ Goto("main", "stopKmsg")
           /\ UNCHANGED <<blVars, nftVars, edges>>

JoinKmsg == /\ At("main", "stopKmsg")
            /\ pc["kmsg"] \in {"idle", "off"}
            /\ pc' = [pc EXCEPT !["main"] = "stopIpc", !["kmsg"] = "off"]
            /\ UNCHANGED <<blVars, nftVars, edges>>

JoinIpc == /\ At("main", "stopIpc")
           /\ At("ipc", "idle")
           /\ pc' = [pc EXCEPT !["main"] = "exit", !["ipc"] = "off"]
           /\ UNCHANGED <<blVars, nftVars, edges>>

Exit == /\ At("main", "exit")
        /\ \E ok \in NftOutcomes : Teardown(ok)
        /\ BlForget
        /\ Goto("main", "off")
        /\ UNCHANGED edges

(* The process is killed: what it was doing is not resumed.                *)
Crash == /\ Up
         /\ BlForget /\ NftForget
         /\ pc' = [t \in Threads |-> "off"]
         /\ req' = NoReq /\ suspect' = {} /\ snap' = {}
         /\ UNCHANGED wish

----------------------------------------------------------------------------
(* A reload, run by "main" at startup and on SIGHUP and by "ipc" for the   *)
(* command: Blocklist::load, then NftGuard::sync_blocklist.                *)

Load(t) == /\ At(t, "load")
           /\ LoadClear(t)
           /\ Goto(t, "fill")
           /\ UNCHANGED <<nftVars, edges>>

(* Mutant: any reload goes on as the one of the startup does.              *)
FillThenServe(t) == /\ At(t, "fill")
                    /\ \E ok \in IoOutcomes : LoadFill(t, ok)
                    /\ Goto(t, "serve")
                    /\ UNCHANGED <<nftVars, edges>>

Fill(t) == /\ At(t, "fill")
           /\ \E ok \in IoOutcomes : LoadFill(t, ok)
           /\ Goto(t, IF t = "main" /\ At("ipc", "off") THEN "serve" ELSE "sync")
           /\ UNCHANGED <<nftVars, edges>>

Sync(t) == /\ At(t, "sync")
           /\ IF installed
              THEN SyncBegin(t) /\ Goto(t, "readIps")
              ELSE nftLock = {} /\ UNCHANGED nftVars /\ Goto(t, "idle")
           /\ UNCHANGED <<blVars, edges>>

ReadIps(t) == /\ At(t, "readIps")
              /\ CanRead
              /\ snap' = ips
              /\ Goto(t, "addDeny")
              /\ UNCHANGED <<blVars, nftVars, req, suspect, wish>>

AddDenied(t) == /\ At(t, "addDeny")
                /\ \E S \in Accepted(snap) : SyncDeny(t, S)
                /\ Goto(t, "readAllows")
                /\ snap' = {}
                /\ UNCHANGED <<blVars, req, suspect, wish>>

ReadAllows(t) == /\ At(t, "readAllows")
                 /\ CanRead
                 /\ snap' = allowIps
                 /\ Goto(t, "addAllow")
                 /\ UNCHANGED <<blVars, nftVars, req, suspect, wish>>

AddAllowed(t) ==
    /\ At(t, "addAllow")
    /\ \E S \in Accepted(snap) : SyncAllow(t, S)
    /\ Goto(t, IF t = "main" /\ At("kmsg", "off") THEN "startKmsg" ELSE "idle")
    /\ snap' = {}
    /\ UNCHANGED <<blVars, req, suspect, wish>>

----------------------------------------------------------------------------
(* ipc: Daemon::handle.                                                    *)

Request(c) ==
    /\ At("ipc", "idle")
    /\ req' = c
    /\ wish' = [wish EXCEPT ![c.ip] = "pending"]
    /\ Goto("ipc", "edit")
    /\ UNCHANGED <<blVars, nftVars, suspect, snap>>

RequestReload == /\ At("ipc", "idle")
                 /\ Goto("ipc", "load")
                 /\ UNCHANGED <<blVars, nftVars, edges>>

Edit ==
    /\ At("ipc", "edit")
    /\ \/ req.cmd = "block" /\ AddBlock("ipc", req.ip) /\ Goto("ipc", "save")
       \/ req.cmd = "exclude" /\ AddAllow("ipc", req.ip) /\ Goto("ipc", "save")
       \/ req.cmd = "unblock" /\ Remove("ipc", req.ip) /\ Goto("ipc", "save")
       \/ /\ req.cmd = "unblock" /\ CanRead /\ ~Listed(req.ip)
          /\ Goto("ipc", "nft") /\ UNCHANGED blVars
    /\ UNCHANGED <<nftVars, edges>>

Save ==
    /\ At("ipc", "save")
    /\ \E ok \in IoOutcomes : \/ SaveBlocks("ipc", ok) /\ UNCHANGED pc
                              \/ SaveAllows("ipc", ok) /\ Goto("ipc", "nft")
    /\ UNCHANGED <<nftVars, edges>>

(* The answer: what the client is told has happened.                       *)
Reply(w) == /\ wish' = [wish EXCEPT ![req.ip] = w]
            /\ req' = NoReq
            /\ Goto("ipc", "idle")

NftStep ==
    /\ At("ipc", "nft")
    /\ \E ok \in NftOutcomes :
          \/ req.cmd = "block" /\ BlockIp(req.ip, req.mode, ok) /\ Reply(req.mode)
          \/ /\ req.cmd \in {"exclude", "unblock"}
             /\ UnblockIp(req.ip, ok) /\ Goto("ipc", "nft2") /\ UNCHANGED <<wish, req>>
    /\ UNCHANGED <<blVars, suspect, snap>>

NftStep2 ==
    /\ At("ipc", "nft2")
    /\ \E ok \in NftOutcomes :
          \/ req.cmd = "exclude" /\ AllowAdd(req.ip, ok) /\ Reply("allow")
          \/ req.cmd = "unblock" /\ UnallowIp(req.ip, ok) /\ Reply("none")
    /\ UNCHANGED <<blVars, suspect, snap>>

----------------------------------------------------------------------------
(* kmsg: the scan threshold is crossed; the exclusions are consulted, and  *)
(* the source is blocked for a while unless the answer was yes.            *)

Scan(ip) == /\ At("kmsg", "idle")
            /\ suspect' = {ip}
            /\ Goto("kmsg", "check")
            /\ UNCHANGED <<blVars, nftVars, req, snap, wish>>

CheckAllowed ==
    /\ At("kmsg", "check")
    /\ \E ip \in suspect : \E allowed \in IpAllowedAnswers(ip) :
          /\ Goto("kmsg", IF allowed THEN "idle" ELSE "autoblock")
          /\ suspect' = IF allowed THEN {} ELSE suspect
    /\ UNCHANGED <<blVars, nftVars, req, snap, wish>>

Autoblock ==
    /\ At("kmsg", "autoblock")
    /\ \E ip \in suspect, ok \in NftOutcomes : BlockIp(ip, "ttl", ok)
    /\ suspect' = {}
    /\ Goto("kmsg", "idle")
    /\ UNCHANGED <<blVars, req, snap, wish>>

----------------------------------------------------------------------------
(* The world around the daemon.                                            *)

World == /\ PublishFeed \/ EditAllowTxt
         /\ UNCHANGED <<nftVars, pc, edges>>

Timeout == /\ \E ip \in Ips : Expire(ip)
           /\ UNCHANGED <<blVars, pc, edges>>

ReloadStep(t) == \/ Load(t) \/ Fill(t) \/ Sync(t)
                 \/ ReadIps(t) \/ AddDenied(t)
                 \/ ReadAllows(t) \/ AddAllowed(t)

(* The steps a thread takes by itself once it has something to do...       *)
MainWorks == \/ StartIpc \/ InstallTable \/ StartKmsg
             \/ JoinKmsg \/ JoinIpc \/ Exit \/ ReloadStep("main")
IpcWorks == Edit \/ Save \/ NftStep \/ NftStep2 \/ ReloadStep("ipc")
KmsgWorks == CheckAllowed \/ Autoblock

(* ...and what sets it to work.                                            *)
NewWork == \/ Boot \/ Sighup \/ Sigterm \/ Crash
           \/ RequestReload \/ \E c \in Commands : Request(c)
           \/ \E ip \in Scanners : Scan(ip)

Next == MainWorks \/ IpcWorks \/ KmsgWorks \/ NewWork \/ World \/ Timeout

Spec == Init /\ [][Next]_vars

(* A thread that can go on does: the scheduler and the locks are fair      *)
(* enough for that once nobody competes forever.                           *)
FairSpec == Spec /\ WF_vars(MainWorks) /\ WF_vars(IpcWorks) /\ WF_vars(KmsgWorks)

----------------------------------------------------------------------------
(* The table is installed and seeded from its start-up until the shutdown. *)
Enforcing == ~At("kmsg", "off")

(* An address whose exclusion was answered is in the kernel's allow set,   *)
(* whose rule comes first: whatever reload, scan, restart or other command *)
(* came in between, its traffic is accepted (main.cpp exclude, nftguard).  *)
ExclusionEnforced ==
    Enforcing => \A ip \in Ips : wish[ip] = "allow" => ip \in nftAllow

(* An address whose permanent block was answered stays in the deny set,    *)
(* over reloads and restarts, and is rescued by an exclusion only if the   *)
(* user or allow.txt made one.                                             *)
BlockEnforced ==
    Enforcing => \A ip \in Ips \ Timed :
        wish[ip] = "perm" => /\ deny[ip] = "perm"
                             /\ ip \in nftAllow \ Curated => ip \in allowIps \cup userAllowTxt

(* `unblock` removes an address from everything: once answered, no         *)
(* concurrent reload, and no restart, brings it back, unless a feed or     *)
(* allow.txt names it or it may be caught scanning again.                  *)
UnblockEffective ==
    Enforcing => \A ip \in Ips \ (FeedIps \cup Curated \cup Scanners) :
        wish[ip] = "none" => ~Listed(ip) /\ deny[ip] = "no" /\ ip \notin nftAllow

Resting == /\ pc["main"] \in {"off", "idle"}
           /\ pc["ipc"] \in {"off", "idle"}
           /\ pc["kmsg"] \in {"off", "idle"}
           /\ writer = Unlocked /\ nftLock = {}

(* Once no new work arrives, every thread comes to rest: the two locks are *)
(* always taken in the same order, nft before list.                        *)
ComesToRest == (<>[][~NewWork]_vars) => <>[]Resting

Own == Ips \ Curated
StoredIn(ip) == {v \in {"block", "allow"} :
                    ip \in IF v = "block" THEN userBlockTxt ELSE userAllowTxt}
Told(ip) == IF wish[ip] \in {"perm", "ttl"} THEN "block" ELSE wish[ip]
Store == INSTANCE UserStore WITH Ips <- Own,
                                 stored <- [ip \in Own |-> StoredIn(ip)],
                                 told <- [ip \in Own |-> Told(ip)]

(* The files keep exactly what the user was told, for every address the    *)
(* administrator does not also keep in allow.txt.                          *)
UserStoreSpec == Store!Spec

----------------------------------------------------------------------------
(* What the comments say and the interleavings and reloads do not keep.    *)

AtRest == Enforcing /\ Resting /\ At("main", "idle") /\ At("ipc", "idle")

(* "otherwise the allow rule and the deny rule would both be live"         *)
(* (nftguard.cpp:250).                                                     *)
NeverBothLive == AtRest => nftAllow \cap Denied = {}

(* "Run 'backmasterctl reload' to apply": at rest, with the lists as the   *)
(* files say, nothing is denied that no list denies.                       *)
DenyFollowsLists == AtRest => {ip \in Ips : deny[ip] = "perm"} \subseteq ips

(* `block --ttl`: a block that has run out does not come back by itself.   *)
TimedBlockEnds ==
    [][\A ip \in Ips \ FeedIps :
          wish[ip] = "ttl" /\ wish'[ip] = "ttl" /\ deny[ip] = "no" => deny'[ip] # "perm"]_vars

(* "User edits; persisted to ... user-allow.txt" (blocklist.hpp:31).       *)
UserFileHoldsUserEdits == \A ip \in userAllowTxt : wish[ip] # "none"

----------------------------------------------------------------------------
(* Why these hold: what is true between any two steps, in three layers.    *)
(* The threads, whatever fails: the locks, the phases, the command.        *)

SyncSteps == {"readIps", "addDeny", "readAllows", "addAllow"}
Working == pc["ipc"] \in {"edit", "save", "nft", "nft2"}

(* Each lock is held exactly by the thread whose next step says so.        *)
LockInv ==
    \A t \in Threads :
        /\ nftLock = {t} <=> pc[t] \in SyncSteps
        /\ writer = Holding(t, "fill") <=> pc[t] = "fill"
        /\ writer \in {Holding(t, "saveBlocks"), Holding(t, "saveAllows")}
              <=> t = "ipc" /\ pc[t] = "save"

(* Which threads run during which phase of main, and with which table.     *)
PhaseInv ==
    /\ Enforcing => /\ ~At("ipc", "off")
                    /\ pc["main"] \notin {"off", "serve", "install", "startKmsg",
                                          "stopIpc", "exit"}
    /\ pc["main"] \in {"off", "serve", "exit"} => At("ipc", "off")
    /\ At("ipc", "off") => pc["main"] \in {"off", "load", "fill", "serve", "exit"}
    /\ Enforcing \/ pc["main"] \in SyncSteps \cup {"startKmsg"} => installed

(* A command under way has taken back what was last said of its address.   *)
CommandInv == /\ Working => req \in Commands /\ wish[req.ip] = "pending"
              /\ At("ipc", "nft2") => req.cmd # "block"

ThreadsInv == LockInv /\ PhaseInv /\ CommandInv

(* The files and the lists, when writes succeed.                           *)

Loaded == (~At("ipc", "off") \/ At("main", "serve")) /\ \A t \in Threads : ~At(t, "fill")
Saving == {ip \in Ips : At("ipc", "save") /\ req.ip = ip}

(* Every denial in memory is the user's or a feed's; a load starts from    *)
(* nothing.                                                                *)
ListInv ==
    /\ userBlockIps \subseteq ips /\ ips \subseteq userBlockIps \cup FeedIps
    /\ (\E t \in Threads : At(t, "fill")) => ips = {} /\ allowIps = {}

(* An edit has changed the lists by the time it saves them.                *)
EditInv ==
    /\ At("ipc", "save") =>
          /\ req.cmd = "block" => req.ip \in userBlockIps
          /\ req.cmd = "exclude" => req.ip \in allowIps \ userBlockIps
          /\ req.cmd = "unblock" => req.ip \notin userBlockIps \cup allowIps
    /\ writer = Holding("ipc", "saveAllows") => userBlockTxt = userBlockIps

(* Loaded lists hold what the user's files hold, but for the address whose *)
(* edit is being saved and for what allow.txt adds.                        *)
MirrorInv ==
    Loaded => \A ip \in Ips \ Saving :
        /\ ip \in userBlockTxt <=> ip \in userBlockIps
        /\ ip \in userAllowTxt => ip \in allowIps
        /\ ip \in allowIps /\ ip \in Own => ip \in userAllowTxt

(* What was last said of an address, or is saved and about to be said.     *)
Said(ip, v, cmd) == \/ Told(ip) = v
                    \/ pc["ipc"] \in {"nft", "nft2"} /\ req.ip = ip /\ req.cmd = cmd

(* The files keep it.                                                      *)
StoredInv ==
    \A ip \in Ips :
        /\ Said(ip, "block", "block") => ip \in userBlockTxt
        /\ Said(ip, "allow", "exclude") => ip \in userAllowTxt \ userBlockTxt
        /\ Said(ip, "none", "unblock") => ip \notin userBlockTxt
                                         /\ ip \notin userAllowTxt \cap Own

FilesInv == ListInv /\ EditInv /\ MirrorInv /\ StoredInv

(* The kernel's sets, when nft invocations succeed too.                    *)

Seeded == Enforcing \/ At("main", "startKmsg")
Syncing(s) == \E t \in Threads : At(t, s)

(* Only what may be blocked for a while has a timeout.                     *)
TimeoutInv == \A ip \in Ips : deny[ip] = "ttl" => ip \in Timed

(* An answered exclusion is in the allow set, or about to be put there.    *)
ExclusionsIn ==
    \A ip \in Ips : wish[ip] = "allow" =>
        /\ Seeded => ip \in nftAllow
        /\ At("main", "addAllow") => ip \in nftAllow \cup snap

(* An answered block is in the deny set, or about to be put there.         *)
BlocksIn ==
    \A ip \in Ips \ Timed : wish[ip] = "perm" =>
        /\ Seeded \/ pc["main"] \in {"readAllows", "addAllow"} => deny[ip] = "perm"
        /\ At("main", "addDeny") => ip \in snap \/ deny[ip] = "perm"

(* What the kernel allows is on the list, or on the file while the list is *)
(* loaded, unless it is being unblocked.                                   *)
Excluded(ip) == ip \in (IF Loaded THEN allowIps ELSE userAllowTxt)
Removing(ip) == pc["ipc"] \in {"save", "nft", "nft2"} /\ req.cmd = "unblock" /\ req.ip = ip
AllowsListed ==
    \A ip \in Own :
        /\ installed /\ ip \in nftAllow => Excluded(ip) \/ Removing(ip)
        /\ Syncing("addAllow") /\ ip \in snap => Excluded(ip) \/ Removing(ip)

(* An address that was unblocked is out of the kernel, and in no copy that *)
(* is about to be added.                                                   *)
Clean == Ips \ (FeedIps \cup Curated \cup Scanners)
UnblocksOut ==
    \A ip \in Clean :
        /\ wish[ip] = "none" =>
              /\ installed => deny[ip] = "no" /\ ip \notin nftAllow
              /\ Syncing("addDeny") \/ Syncing("addAllow") => ip \notin snap
        /\ At("ipc", "nft2") /\ req.cmd = "unblock" /\ req.ip = ip =>
              /\ installed => deny[ip] = "no"
              /\ Syncing("addDeny") => ip \notin snap

KernelInv == TimeoutInv /\ ExclusionsIn /\ BlocksIn /\ AllowsListed /\ UnblocksOut

(* Inductive when writes and nft invocations succeed, and enough for       *)
(* ExclusionEnforced, BlockEnforced, UnblockEffective and UserStoreSpec.   *)
EnforcementInv == ThreadsInv /\ FilesInv /\ KernelInv
=============================================================================
