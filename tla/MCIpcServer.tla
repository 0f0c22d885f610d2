---------------------------- MODULE MCIpcServer ----------------------------
(* Small instances of IpcServer.                                           *)
EXTENDS IpcServer

CONSTANTS p1, p2

(* One peer writes two lines in three pieces, one more than is taken at    *)
(* once, and shuts down its sending side.                                  *)
Talkative == p1 :> <<<<"subscribe", "part", "command">>, TheEnd>> @@ p2 :> <<<<"subscribe">>>>
=============================================================================
