----------------------------- MODULE Blocklist -----------------------------
(***************************************************************************)
(* The deny and allow lists of backmasterd (class Blocklist) and the files *)
(* they are loaded from and persisted to.  Addresses stand for any entry:  *)
(* the domain containers are edited by the same statements.                *)
(*                                                                         *)
(* The module has no Next of its own: Enforcement composes its operations  *)
(* with the threads that call them.  An operation that the lock makes      *)
(* atomic for every reader is one step, except that                        *)
(*   - a persist is two file writes, and the process can die between them; *)
(*   - a load clears the lists first, and ip_allowed reads without a lock. *)
(***************************************************************************)
EXTENDS Daemon

CONSTANTS
    FeedIps,    \* the addresses a downloaded feed may carry
    Curated,    \* those the administrator may write into allow.txt by hand
    IoMayFail   \* whether a file write or the opendir of a load may fail

ASSUME ListAssumption ==
    /\ FeedIps \subseteq Ips
    /\ Curated \subseteq Ips
    /\ IoMayFail \in BOOLEAN

VARIABLES
    feedTxt, allowTxt,          \* files somebody else writes
    userBlockTxt, userAllowTxt, \* files only persist_user_files writes
    ips, allowIps, userBlockIps,\* the lists in memory
    writer                      \* holder of the unique lock, and its next step

diskVars == <<feedTxt, allowTxt, userBlockTxt, userAllowTxt>>
userFiles == <<userBlockTxt, userAllowTxt>>
listVars == <<ips, allowIps, userBlockIps>>
blVars == <<diskVars, listVars, writer>>

IoOutcomes == IF IoMayFail THEN BOOLEAN ELSE {TRUE}

Unlocked == [step |-> "none"]
Holding(t, s) == [by |-> t, step |-> s]
WriterSteps == {"saveBlocks", "saveAllows", "fill"}

BlTypeOK ==
    /\ feedTxt \subseteq FeedIps
    /\ allowTxt \subseteq Curated
    /\ userBlockTxt \subseteq Ips /\ userAllowTxt \subseteq Ips
    /\ ips \subseteq Ips /\ allowIps \subseteq Ips /\ userBlockIps \subseteq Ips
    /\ writer \in {Unlocked} \cup [by : Threads, step : WriterSteps]

BlInit ==
    /\ feedTxt \in SUBSET FeedIps
    /\ allowTxt \in SUBSET Curated
    /\ userBlockTxt = {} /\ userAllowTxt = {}
    /\ ips = {} /\ allowIps = {} /\ userBlockIps = {}
    /\ writer = Unlocked

----------------------------------------------------------------------------
(* Edits: change the memory under the lock, then persist before unlocking. *)

(* Mutant: the block is enforced but not remembered as the user's own.     *)
AddBlockForgotten(t, ip) ==
    /\ writer = Unlocked
    /\ ips' = ips \cup {ip}
    /\ writer' = Holding(t, "saveBlocks")
    /\ UNCHANGED <<userBlockIps, allowIps, diskVars>>

AddBlock(t, ip) ==
    /\ writer = Unlocked
    /\ ips' = ips \cup {ip}
    /\ userBlockIps' = userBlockIps \cup {ip}
    /\ writer' = Holding(t, "saveBlocks")
    /\ UNCHANGED <<allowIps, diskVars>>

AddAllow(t, ip) ==
    /\ writer = Unlocked
    /\ allowIps' = allowIps \cup {ip}
    /\ ips' = ips \ {ip}
    /\ userBlockIps' = userBlockIps \ {ip}
    /\ writer' = Holding(t, "saveBlocks")
    /\ UNCHANGED diskVars

Listed(ip) == ip \in ips \cup userBlockIps \cup allowIps

Remove(t, ip) ==
    /\ writer = Unlocked
    /\ Listed(ip)
    /\ ips' = ips \ {ip}
    /\ userBlockIps' = userBlockIps \ {ip}
    /\ allowIps' = allowIps \ {ip}
    /\ writer' = Holding(t, "saveBlocks")
    /\ UNCHANGED diskVars

(* Mutant: the file is appended to.                                        *)
SaveBlocksAppends(t, ok) ==
    /\ writer = Holding(t, "saveBlocks")
    /\ userBlockTxt' = IF ok THEN userBlockTxt \cup userBlockIps ELSE userBlockTxt
    /\ writer' = Holding(t, "saveAllows")
    /\ UNCHANGED <<feedTxt, allowTxt, userAllowTxt, listVars>>

(* persist_user_files: each file is replaced whole by a rename, or left    *)
(* alone; the second write is made whether or not the first succeeded.     *)
SaveBlocks(t, ok) ==
    /\ writer = Holding(t, "saveBlocks")
    /\ userBlockTxt' = IF ok THEN userBlockIps ELSE userBlockTxt
    /\ writer' = Holding(t, "saveAllows")
    /\ UNCHANGED <<feedTxt, allowTxt, userAllowTxt, listVars>>

SaveAllows(t, ok) ==
    /\ writer = Holding(t, "saveAllows")
    /\ userAllowTxt' = IF ok THEN allowIps ELSE userAllowTxt
    /\ writer' = Unlocked
    /\ UNCHANGED <<feedTxt, allowTxt, userBlockTxt, listVars>>

----------------------------------------------------------------------------
(* load: clear everything, then read every *.txt of the directory.         *)

LoadClear(t) ==
    /\ writer = Unlocked
    /\ ips' = {} /\ allowIps' = {} /\ userBlockIps' = {}
    /\ writer' = Holding(t, "fill")
    /\ UNCHANGED diskVars

(* Mutant: the early return of a load that cannot open the directory keeps *)
(* the lock.                                                               *)
LoadFillKeepsLock(t, ok) ==
    /\ writer = Holding(t, "fill")
    /\ writer' = IF ok THEN Unlocked ELSE writer
    /\ UNCHANGED <<listVars, diskVars>>

LoadFill(t, ok) ==
    /\ writer = Holding(t, "fill")
    /\ IF ok
       THEN /\ ips' = feedTxt \cup userBlockTxt
            /\ userBlockIps' = userBlockTxt
            /\ allowIps' = allowTxt \cup userAllowTxt
       ELSE UNCHANGED listVars
    /\ writer' = Unlocked
    /\ UNCHANGED diskVars

----------------------------------------------------------------------------
(* Readers.  list_ips and list_allows take the shared lock.  ip_allowed    *)
(* does not: while a writer is at work its answer can be anything.         *)

CanRead == writer = Unlocked

IpAllowedAnswers(ip) == IF CanRead THEN {ip \in allowIps} ELSE BOOLEAN

(* The files change under the daemon: update-blocklists.sh replaces feeds, *)
(* the administrator edits allow.txt.                                      *)
PublishFeed == /\ \E f \in SUBSET FeedIps : f # feedTxt /\ feedTxt' = f
               /\ UNCHANGED <<allowTxt, userFiles, listVars, writer>>

EditAllowTxt == /\ \E a \in SUBSET Curated : a # allowTxt /\ allowTxt' = a
                /\ UNCHANGED <<feedTxt, userFiles, listVars, writer>>

(* The process ends: the memory is gone, the files stay.                   *)
BlForget == /\ ips' = {} /\ allowIps' = {} /\ userBlockIps' = {}
            /\ writer' = Unlocked
            /\ UNCHANGED diskVars
=============================================================================
