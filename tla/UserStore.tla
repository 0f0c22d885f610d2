----------------------------- MODULE UserStore -----------------------------
(***************************************************************************)
(* What the user's edits promise, without threads, locks, lists or files:  *)
(* each address has a stored verdict, which only an edit of that very      *)
(* address can change, and an answered edit is stored.  Reloads, crashes,  *)
(* restarts and edits of other addresses are all stuttering here.          *)
(***************************************************************************)
CONSTANT Ips

VARIABLES stored,   \* which of the user's two files name an address
          told      \* the last answer about it, "pending" under an edit

Init == /\ stored = [ip \in Ips |-> {}]
        /\ told = [ip \in Ips |-> "none"]

Ask(ip) == told' = [told EXCEPT ![ip] = "pending"] /\ UNCHANGED stored

Settle(ip) == /\ told[ip] = "pending"
              /\ \E v \in SUBSET {"block", "allow"} : stored' = [stored EXCEPT ![ip] = v]
              /\ UNCHANGED told

(* A block may find an exclusion, which it leaves and which wins.          *)
Holds(ip, v) == /\ v = "block" => "block" \in stored[ip]
                /\ v = "allow" => stored[ip] = {"allow"}
                /\ v = "none" => stored[ip] = {}

Answer(ip, v) == /\ told[ip] = "pending"
                 /\ Holds(ip, v)
                 /\ told' = [told EXCEPT ![ip] = v]
                 /\ UNCHANGED stored

Next == \E ip \in Ips : \/ Ask(ip) \/ Settle(ip)
                        \/ \E v \in {"block", "allow", "none"} : Answer(ip, v)

Spec == Init /\ [][Next]_<<stored, told>>
=============================================================================
