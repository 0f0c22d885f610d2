------------------------------ MODULE NftGuard ------------------------------
(***************************************************************************)
(* class NftGuard: the deny and allow sets of the kernel's table           *)
(* "inet backmaster", each nft invocation made under the guard's mutex.    *)
(* The two address families are one: a set holds an address of either.     *)
(***************************************************************************)
EXTENDS Daemon

CONSTANTS
    NftMayFail  \* whether an nft invocation may fail for a reason of its own

ASSUME NftAssumption == NftMayFail \in BOOLEAN

VARIABLES
    installed,  \* installed_, the guard's own flag
    deny,       \* the kernel's deny sets: is an address in, and with a timeout
    nftAllow,   \* the kernel's allow sets
    nftLock     \* {} or the thread that holds mu_ across several steps

nftVars == <<installed, deny, nftAllow, nftLock>>

NftOutcomes == IF NftMayFail THEN BOOLEAN ELSE {TRUE}

Modes == {"no", "perm", "ttl"}
Denied == {ip \in Ips : deny[ip] # "no"}

NftTypeOK ==
    /\ installed \in BOOLEAN
    /\ deny \in [Ips -> Modes]
    /\ nftAllow \subseteq Ips
    /\ nftLock \in {{}} \cup {{t} : t \in Threads}

NftInit ==
    /\ installed = FALSE
    /\ deny = [ip \in Ips |-> "no"]
    /\ nftAllow = {}
    /\ nftLock = {}

----------------------------------------------------------------------------
(* The kernel.  Adding an element that is already there succeeds; whether  *)
(* an addition without a timeout clears the timeout of the element there   *)
(* depends on the kernel's version.                                        *)

AddDeny(S, mode) ==
    \E update \in BOOLEAN :
        deny' = [ip \in Ips |->
                    IF ip \in S /\ (deny[ip] = "no" \/ (update /\ mode = "perm"))
                    THEN mode ELSE deny[ip]]

DropDeny(S) == deny' = [ip \in Ips |-> IF ip \in S THEN "no" ELSE deny[ip]]

(* The timeout of an element runs out.                                     *)
Expire(ip) ==
    /\ deny[ip] = "ttl"
    /\ DropDeny({ip})
    /\ UNCHANGED <<installed, nftAllow, nftLock>>

----------------------------------------------------------------------------
(* Operations that are one nft invocation each.                            *)

(* install replaces the whole table in one transaction, so a failure       *)
(* leaves whatever table an earlier run of the daemon left behind.         *)
Install(ok) ==
    /\ nftLock = {}
    /\ installed' = ok
    /\ IF ok THEN DropDeny(Ips) /\ nftAllow' = {} ELSE UNCHANGED <<deny, nftAllow>>
    /\ UNCHANGED nftLock

Teardown(ok) ==
    /\ nftLock = {}
    /\ installed' = FALSE
    /\ IF installed /\ ok THEN DropDeny(Ips) /\ nftAllow' = {}
                          ELSE UNCHANGED <<deny, nftAllow>>
    /\ UNCHANGED nftLock

BlockIp(ip, mode, ok) ==
    /\ nftLock = {}
    /\ IF installed /\ ok THEN AddDeny({ip}, mode) ELSE UNCHANGED deny
    /\ UNCHANGED <<installed, nftAllow, nftLock>>

UnblockIp(ip, ok) ==
    /\ nftLock = {}
    /\ IF installed /\ ok THEN DropDeny({ip}) ELSE UNCHANGED deny
    /\ UNCHANGED <<installed, nftAllow, nftLock>>

(* allow_ip is UnblockIp, in a critical section of its own, then this.     *)
AllowAdd(ip, ok) ==
    /\ nftLock = {}
    /\ nftAllow' = IF installed /\ ok THEN nftAllow \cup {ip} ELSE nftAllow
    /\ UNCHANGED <<installed, deny, nftLock>>

(* Mutant: unblock leaves the allow set alone.                             *)
UnallowNothing(ip, ok) == ok \in BOOLEAN /\ nftLock = {} /\ UNCHANGED nftVars

UnallowIp(ip, ok) ==
    /\ nftLock = {}
    /\ nftAllow' = IF installed /\ ok THEN nftAllow \ {ip} ELSE nftAllow
    /\ UNCHANGED <<installed, deny, nftLock>>

----------------------------------------------------------------------------
(* sync_blocklist keeps mu_ through four steps: it reads the deny list,    *)
(* adds it in chunks, reads the allow list, adds that.  It only ever adds. *)

SyncBegin(t) ==
    /\ nftLock = {}
    /\ installed
    /\ nftLock' = {t}
    /\ UNCHANGED <<installed, deny, nftAllow>>

(* The addresses of the chunks nft accepted; a chunk that fails is only    *)
(* logged and the next one is tried.                                       *)
SyncDeny(t, S) ==
    /\ nftLock = {t}
    /\ AddDeny(S, "perm")
    /\ UNCHANGED <<installed, nftAllow, nftLock>>

(* Mutant: only the deny sets are seeded.                                  *)
SyncAllowNothing(t, S) ==
    /\ nftLock = {t}
    /\ nftLock' = {}
    /\ UNCHANGED <<installed, deny, nftAllow>>

SyncAllow(t, S) ==
    /\ nftLock = {t}
    /\ nftAllow' = nftAllow \cup S
    /\ nftLock' = {}
    /\ UNCHANGED <<installed, deny>>

(* The subsets of a list that nft may end up accepting.                    *)
Accepted(S) == IF NftMayFail THEN SUBSET S ELSE {S}

(* The process ends: the kernel keeps the table.                           *)
NftForget == /\ installed' = FALSE
             /\ nftLock' = {}
             /\ UNCHANGED <<deny, nftAllow>>
=============================================================================
