------------------------------- MODULE Daemon -------------------------------
(***************************************************************************)
(* What the parts of backmasterd share: the addresses they talk about and  *)
(* the threads that change enforcement state.                              *)
(*   "main"  startup, then sigwait: SIGHUP reloads, SIGTERM stops          *)
(*   "ipc"   IpcServer::loop, which runs every command one after another   *)
(*   "kmsg"  KmsgWatch::loop, which may block the source of a port scan    *)
(***************************************************************************)
CONSTANT Ips

Threads == {"main", "ipc", "kmsg"}
=============================================================================
