--------------------------- MODULE MCPersistWatch ---------------------------
(* Small instances of PersistWatch: /etc, a directory of startup entries,  *)
(* ~/.ssh and the home directory, in the order the code adds them.         *)
EXTENDS PersistWatch

CONSTANTS etc, autostart, ssh, home

UserTargets == <<autostart, home>>
AllTargets == <<etc, autostart, ssh, home>>

KindOf == (etc :> "etc") @@ (autostart :> "plain") @@ (ssh :> "ssh") @@ (home :> "home")
UserKinds == [p \in Range(UserTargets) |-> KindOf[p]]
=============================================================================
