----------------------------- MODULE IpcServer -----------------------------
(***************************************************************************)
(* The daemon's socket server: one epoll thread that accepts clients,      *)
(* answers their commands and streams alerts to the subscribed ones, and   *)
(* the other threads' broadcast, which fills an outbox and wakes it.       *)
(*                                                                         *)
(* epoll_wait returns a batch of events; each is then handled by its       *)
(* descriptor's number alone.  In between, peers write, read and hang up,  *)
(* and a descriptor closed by one event may be handed out again by another.*)
(* What goes to a peer is counted in lines: a socket holds SockBuf of      *)
(* them, and the write of a line is never split.  What comes from it is    *)
(* counted in pieces, a read (8 KiB) each: a "part" has no newline in it,  *)
(* and a piece that ends a line says which command the line is.            *)
(***************************************************************************)
EXTENDS Integers, SequencesExt, FiniteSetsExt

CONSTANTS
    Peers,      \* the processes that connect, each once
    Fds,        \* the descriptors the server can get, numbers
    MaxClients, \* 64 in the code
    OutboxMax,  \* 512 in the code
    PendingMax, \* 8 MiB in the code: output a client may be behind with
    InMax,      \* kMaxLine, 256 KiB in the code: input a client may be ahead with
    SockBuf,    \* what the kernel buffers for a peer
    MaxAlerts,  \* bound: broadcasts
    Script      \* bound: Script[p], what p writes, a write at a time, as far as it gets

Pieces == {"subscribe", "command", "part"}
TheEnd == <<>>   \* in a script: nothing more is going to be written

ASSUME ServerAssumption ==
    /\ Fds \subseteq Nat /\ IsFiniteSet(Fds)
    /\ MaxClients \in 1..Cardinality(Fds)
    /\ {OutboxMax, PendingMax, InMax, MaxAlerts} \subseteq Nat
    /\ SockBuf \in Nat \ {0}
    /\ Script \in [Peers -> Seq(Seq(Pieces))]

VARIABLES
    peer,       \* peer[p]: "new", "queued", "served", "left" or "cut"
    asked,      \* asked[p]: how far p has got with its script
    shut,       \* the peers that have shut down their sending side
    toServer,   \* toServer[p]: the pieces in the socket
    toPeer,     \* toPeer[p]: the lines in the socket
    got,        \* got[p]: the alerts p has read
    backlog,    \* peers waiting to be accepted
    clients,    \* clients_, and the peer at the other end of each
    subscribers,\* subscribers_
    stage,      \* "running", "stopping" or "stopped"
    batch,      \* the events of the last epoll_wait not handled yet
    draining,   \* the wake event was read, the outbox not yet taken
    outbox, wake, \* outbox_, and whether wake_fd_ is readable
    waking,     \* broadcasts that have queued but not woken the loop
    alerts,     \* history: number of broadcasts
    drained,    \* history: the alerts ever taken from the outbox
    causes      \* history: why the server closed a connection

peerVars == <<peer, asked, shut, toServer, toPeer, got, backlog>>
srvVars == <<clients, subscribers, batch, draining, stage>>
outVars == <<outbox, wake, waking, alerts>>
vars == <<peerVars, srvVars, outVars, drained, causes>>

Hello == <<"hello", 0>>
Reply == <<"reply", 0>>
Alert(n) == <<"alert", n>>
Lines == {Hello, Reply} \cup {Alert(n) : n \in 1..MaxAlerts}

Listen == [fd |-> "listen"]
Wakeup == [fd |-> "wake"]
Event == [fd : Fds, in : BOOLEAN, out : BOOLEAN, hup : BOOLEAN, for : Peers]
NoClient == [peer |-> "none"]
Client == [peer : Peers, subscribed : BOOLEAN, held : Nat, out : Seq(Lines), armed : BOOLEAN,
           since : Nat]

Open == {fd \in Fds : clients[fd] # NoClient}
Subscribed == {fd \in Open : clients[fd].subscribed}

(* Clients, buffers and events are in their domains, and subscribers_ is   *)
(* the number of clients that are subscribed, until stop drops them all.   *)
TypeOK ==
    /\ peer \in [Peers -> {"new", "queued", "served", "left", "cut"}]
    /\ asked \in [Peers -> Nat]
    /\ shut \subseteq Peers
    /\ toServer \in [Peers -> Seq(Pieces)]
    /\ toPeer \in [Peers -> Seq(Lines)]
    /\ got \in [Peers -> Seq(1..MaxAlerts)]
    /\ backlog \in Seq(Peers)
    /\ clients \in [Fds -> Client \cup {NoClient}]
    /\ stage # "stopped" => subscribers = Cardinality(Subscribed)
    /\ batch \subseteq Event \cup {Listen, Wakeup}
    /\ draining \in BOOLEAN /\ wake \in BOOLEAN
    /\ stage \in {"running", "stopping", "stopped"}
    /\ outbox \in Seq(1..MaxAlerts) /\ drained \in Seq(1..MaxAlerts)
    /\ waking \in 0..MaxAlerts /\ alerts \in 0..MaxAlerts
    /\ causes \subseteq Peers \X {"hung up", "slow", "flood", "ended", "stale event", "refused",
                               "stopped", "none"}

Init ==
    /\ peer = [p \in Peers |-> "new"]
    /\ asked = [p \in Peers |-> 0]
    /\ shut = {}
    /\ toServer = [p \in Peers |-> <<>>]
    /\ toPeer = [p \in Peers |-> <<>>]
    /\ got = [p \in Peers |-> <<>>]
    /\ backlog = <<>>
    /\ clients = [fd \in Fds |-> NoClient]
    /\ subscribers = 0
    /\ batch = {} /\ draining = FALSE /\ stage = "running"
    /\ outbox = <<>> /\ wake = FALSE /\ waking = 0 /\ alerts = 0
    /\ drained = <<>> /\ causes = {}

----------------------------------------------------------------------------
(* The peers.                                                              *)

Connect(p) == /\ peer[p] = "new" /\ stage # "stopped"
              /\ peer' = [peer EXCEPT ![p] = "queued"]
              /\ backlog' = Append(backlog, p)
              /\ UNCHANGED <<asked, shut, toServer, toPeer, got, srvVars, outVars, drained, causes>>

(* The next write of p, and that it comes to it.                           *)
Write(p) == Script[p][asked[p] + 1]

Say(p) == /\ peer[p] \in {"queued", "served"} /\ p \notin shut
          /\ asked[p] < Len(Script[p])
          /\ asked' = [asked EXCEPT ![p] = @ + 1]

Send(p) == /\ Say(p) /\ Write(p) # TheEnd
           /\ toServer' = [toServer EXCEPT ![p] = @ \o Write(p)]
           /\ UNCHANGED <<peer, shut, toPeer, got, backlog, srvVars, outVars, drained, causes>>

(* shutdown(SHUT_WR): the peer has no more to say, and goes on reading.    *)
Shut(p) == /\ Say(p) /\ Write(p) = TheEnd
           /\ shut' = shut \cup {p}
           /\ UNCHANGED <<peer, toServer, toPeer, got, backlog, srvVars, outVars, drained, causes>>

Read(p) == /\ peer[p] \in {"served", "cut"}
           /\ toPeer[p] # <<>>
           /\ LET line == Head(toPeer[p])
              IN got' = IF line[1] = "alert" THEN [got EXCEPT ![p] = Append(@, line[2])] ELSE got
           /\ toPeer' = [toPeer EXCEPT ![p] = Tail(@)]
           /\ UNCHANGED <<peer, asked, shut, toServer, backlog, srvVars, outVars, drained, causes>>

HangUp(p) == /\ peer[p] \in {"queued", "served"}
             /\ peer' = [peer EXCEPT ![p] = "left"]
             /\ toPeer' = [toPeer EXCEPT ![p] = <<>>]
             /\ UNCHANGED <<asked, shut, toServer, got, backlog, srvVars, outVars, drained, causes>>

----------------------------------------------------------------------------
(* broadcast, from any thread: queue under out_mu_, then wake the loop.    *)
(* "size > 512" is tested before the push.                                 *)

Trimmed(q) == SubSeq(q, Max({1, Len(q) - OutboxMax + 1}), Len(q))

(* Mutant: a full outbox takes nothing more.                               *)
QueueRefuses == /\ stage = "running" /\ alerts < MaxAlerts
                /\ alerts' = alerts + 1
                /\ outbox' = IF Len(outbox) > OutboxMax THEN outbox
                             ELSE Append(outbox, alerts + 1)
                /\ waking' = waking + 1
                /\ UNCHANGED <<peerVars, srvVars, wake, drained, causes>>

Queue == /\ stage = "running" /\ alerts < MaxAlerts
         /\ alerts' = alerts + 1
         /\ outbox' = Append(Trimmed(outbox), alerts + 1)
         /\ waking' = waking + 1
         /\ UNCHANGED <<peerVars, srvVars, wake, drained, causes>>

WakeLoop == /\ waking > 0
            /\ waking' = waking - 1
            /\ wake' = TRUE
            /\ UNCHANGED <<peerVars, srvVars, outbox, alerts, drained, causes>>

----------------------------------------------------------------------------
(* LineConn: a connection as a pending buffer and the socket behind it.    *)

Conn(c) == [out |-> c.out, sock |-> toPeer[c.peer], open |-> peer[c.peer] # "left", ok |-> TRUE]

(* Mutant: one line too many is taken off the pending ones.                *)
FlushSkips(w) ==
    LET n == Min({SockBuf - Len(w.sock), Len(w.out)})
    IN IF w.out # <<>> /\ ~w.open
       THEN [w EXCEPT !.ok = FALSE]
       ELSE [w EXCEPT !.sock = @ \o SubSeq(w.out, 1, n),
                      !.out = SubSeq(@, n + 2, Len(@))]

Flush(w) ==
    LET n == Min({SockBuf - Len(w.sock), Len(w.out)})
    IN IF w.out # <<>> /\ ~w.open
       THEN [w EXCEPT !.ok = FALSE]
       ELSE [w EXCEPT !.sock = @ \o SubSeq(w.out, 1, n), !.out = SubSeq(@, n + 1, Len(@))]

(* Mutant: a client is given up while it may still be behind.              *)
WriteLineImpatient(w, line) ==
    IF ~w.ok \/ Len(w.out) >= PendingMax
    THEN [w EXCEPT !.ok = FALSE]
    ELSE Flush([w EXCEPT !.out = Append(@, line)])

(* A client that is too far behind, or gone, makes the write fail; the     *)
(* caller stops at the first failure.                                      *)
WriteLine(w, line) ==
    IF ~w.ok \/ Len(w.out) > PendingMax
    THEN [w EXCEPT !.ok = FALSE]
    ELSE Flush([w EXCEPT !.out = Append(@, line)])

WriteAll(w, lines) ==
    LET after[i \in 0..Len(lines)] == IF i = 0 THEN w ELSE WriteLine(after[i - 1], lines[i])
    IN after[Len(lines)]

(* Mutant: the interest is left as it was.                                 *)
KeptUnarmed(c, w) == [c EXCEPT !.out = w.out]

(* update_interest: ask for EPOLLOUT exactly while output is pending.      *)
Kept(c, w) == [c EXCEPT !.out = w.out, !.armed = w.out # <<>>]

(* What there is to say for closing a connection, as things stand: the     *)
(* peer has left, it is too far behind with the output out, the event that *)
(* made the server close it was about a peer that had the descriptor       *)
(* before, it has sent more than is taken without a look at it, or it has  *)
(* nothing more to send and is owed nothing.                               *)
Cause(fd, out, for) ==
    LET p == clients[fd].peer
    IN IF peer[p] = "left" THEN "hung up"
       ELSE IF Len(out) > PendingMax THEN "slow"
       ELSE IF p # for THEN "stale event"
       ELSE IF clients[fd].held + Len(toServer[p]) > InMax + 1 THEN "flood"
       ELSE IF p \in shut /\ toServer[p] = <<>> /\ out = <<>> THEN "ended" ELSE "none"

DropAll(fds, cause) ==
    /\ subscribers' = subscribers - Cardinality(fds \cap Subscribed)
    /\ causes' = causes \cup {<<clients[fd].peer, cause[fd]>> : fd \in fds}
    /\ peer' = [p \in Peers |->
                   IF peer[p] = "served" /\ \E fd \in fds : clients[fd].peer = p
                   THEN "cut" ELSE peer[p]]

----------------------------------------------------------------------------
(* The epoll loop.                                                         *)

ReadyFor(fd) ==
    LET c == clients[fd]
        gone == peer[c.peer] = "left"
    IN [fd |-> fd, for |-> c.peer, hup |-> gone,
        in |-> gone \/ c.peer \in shut \/ toServer[c.peer] # <<>>,
        out |-> c.armed /\ (gone \/ Len(toPeer[c.peer]) < SockBuf)]

Ready == {e \in {ReadyFor(fd) : fd \in Open} : e.in \/ e.out \/ e.hup}
         \cup {e \in {Listen} : backlog # <<>>} \cup {e \in {Wakeup} : wake}

EpollWait == /\ batch = {} /\ ~draining /\ stage = "running"
             /\ Ready # {}
             /\ batch' = Ready
             /\ UNCHANGED <<peerVars, clients, subscribers, draining, stage, outVars, drained, causes>>

Handle(e) == e \in batch /\ ~draining /\ batch' = batch \ {e}

(* accept_new takes the whole backlog; the kernel hands out the lowest     *)
(* free descriptor, and a client beyond the limit is closed at once.       *)
AcceptOne(acc, p) ==
    LET free == {fd \in Fds : acc[fd] = NoClient}
    IN IF Cardinality(Fds \ free) >= MaxClients THEN acc
       ELSE [acc EXCEPT ![Min(free)] =
                [peer |-> p, subscribed |-> FALSE, held |-> 0, since |-> 0,
                 out |-> IF peer[p] = "left" THEN <<Hello>> ELSE <<>>,
                 armed |-> peer[p] = "left"]]

AcceptAll ==
    LET acc[i \in 0..Len(backlog)] == IF i = 0 THEN clients ELSE AcceptOne(acc[i - 1], backlog[i])
    IN acc[Len(backlog)]

Accept ==
    /\ Handle(Listen)
    /\ LET accepted == AcceptAll
           served == {accepted[fd].peer : fd \in {f \in Fds : accepted[f] # NoClient}}
           waiting == Range(backlog)
       IN /\ clients' = accepted
          /\ peer' = [p \in Peers |-> IF p \in waiting /\ peer[p] = "queued"
                                      THEN IF p \in served THEN "served" ELSE "cut"
                                      ELSE peer[p]]
          /\ toPeer' = [p \in Peers |-> IF p \in waiting \cap served /\ peer[p] = "queued"
                                        THEN <<Hello>> ELSE toPeer[p]]
          /\ causes' = causes \cup ((waiting \ served) \X {"refused"})
    /\ backlog' = <<>>
    /\ UNCHANGED <<asked, shut, toServer, got, subscribers, draining, stage, outVars, drained>>

TakeWake == /\ Handle(Wakeup)
            /\ wake' = FALSE
            /\ draining' = TRUE
            /\ UNCHANGED <<peerVars, clients, subscribers, stage, outbox, waking, alerts, drained,
                           causes>>

Drain ==
    /\ draining
    /\ draining' = FALSE
    /\ outbox' = <<>>
    /\ drained' = drained \o outbox
    /\ LET lines == [i \in DOMAIN outbox |-> Alert(outbox[i])]
           after == [fd \in Subscribed |-> WriteAll(Conn(clients[fd]), lines)]
           dead == {fd \in Subscribed : ~after[fd].ok}
       IN /\ clients' = [fd \in Fds |->
                            IF fd \in dead THEN NoClient
                            ELSE IF fd \in Subscribed THEN Kept(clients[fd], after[fd])
                            ELSE clients[fd]]
          /\ toPeer' = [p \in Peers |->
                           IF \E fd \in Subscribed : clients[fd].peer = p
                           THEN after[CHOOSE fd \in Subscribed : clients[fd].peer = p].sock
                           ELSE toPeer[p]]
          /\ DropAll(dead, [fd \in dead |-> Cause(fd, after[fd].out, clients[fd].peer)])
    /\ UNCHANGED <<asked, shut, toServer, got, backlog, batch, stage, wake, waking, alerts>>

(* Mutant: every connection that hangs up is discounted as a subscriber.   *)
HupDiscounts(e) ==
    /\ Handle(e) /\ e.hup
    /\ e.fd \in Open
    /\ subscribers' = subscribers - 1
    /\ clients' = [clients EXCEPT ![e.fd] = NoClient]
    /\ UNCHANGED <<peerVars, draining, stage, outVars, drained, causes>>

(* EPOLLHUP closes whoever holds the descriptor now.                       *)
HupEvent(e) ==
    /\ Handle(e) /\ e.hup
    /\ LET hit == {e.fd} \cap Open
       IN /\ DropAll(hit, [fd \in hit |-> Cause(fd, clients[fd].out, e.for)])
          /\ clients' = [fd \in Fds |-> IF fd \in hit THEN NoClient ELSE clients[fd]]
    /\ UNCHANGED <<asked, shut, toServer, toPeer, got, backlog, draining, stage, outVars, drained>>

(* LineConn::fill reads on, piece by piece, until the socket is empty or   *)
(* there is more than InMax in its buffer: what it reads then is lost, and *)
(* the rest stays in the socket.  A line with such a hole in it is         *)
(* answered like any other.                                                *)
Fill(c) == SubSeq(toServer[c.peer], 1, Min({Len(toServer[c.peer]), InMax + 1 - c.held}))
AfterFill(c) == LET n == Len(Fill(c)) IN SubSeq(toServer[c.peer], n + 2, Len(toServer[c.peer]))

(* It fails when it has lost something, and at the end of the stream if    *)
(* there was nothing before it.  (The error it can meet, a reset, comes    *)
(* from a peer that has left, behind what that peer had sent.)             *)
Alive(c) == /\ Len(Fill(c)) = Len(toServer[c.peer])
            /\ c.peer \in shut \/ peer[c.peer] = "left" => Fill(c) # <<>>

(* The lines among the pieces read, and how much of the next one is there. *)
Ends(pieces) == {i \in DOMAIN pieces : pieces[i] # "part"}
Rest(held, pieces) == IF Ends(pieces) = {} THEN held + Len(pieces)
                      ELSE Len(pieces) - Max(Ends(pieces))

(* EPOLLOUT flushes, then EPOLLIN reads what there is, answers each line,  *)
(* and closes the connection if reading failed and no output is pending.   *)
IoEvent(e) ==
    /\ Handle(e) /\ ~e.hup
    /\ e.fd \in Open
    /\ LET c == clients[e.fd]
           p == c.peer
           flushed == IF e.out THEN Flush(Conn(c)) ELSE Conn(c)
           reads == e.in /\ flushed.ok
           pieces == IF reads THEN Fill(c) ELSE <<>>
           wrote == WriteAll(flushed, [i \in 1..Cardinality(Ends(pieces)) |-> Reply])
           over == reads /\ ~Alive(c) /\ wrote.out = <<>>
           joins == "subscribe" \in Range(pieces) /\ ~c.subscribed
           d == [c EXCEPT !.subscribed = @ \/ joins,
                          !.held = Rest(@, pieces),
                          !.since = IF joins THEN Len(drained) ELSE @]
       IN /\ toServer' = [toServer EXCEPT ![p] = IF reads THEN AfterFill(c) ELSE @]
          /\ toPeer' = [toPeer EXCEPT ![p] = wrote.sock]
          /\ IF wrote.ok /\ ~over
             THEN /\ clients' = [clients EXCEPT ![e.fd] = Kept(d, wrote)]
                  /\ subscribers' = subscribers + (IF joins THEN 1 ELSE 0)
                  /\ UNCHANGED <<peer, causes>>
             ELSE /\ clients' = [clients EXCEPT ![e.fd] = NoClient]
                  /\ DropAll({e.fd}, [fd \in {e.fd} |-> Cause(fd, wrote.out, p)])
    /\ UNCHANGED <<asked, shut, got, backlog, draining, stage, outVars, drained>>

(* An event for a descriptor that was closed meanwhile.                    *)
DeadEvent(e) == /\ Handle(e) /\ ~e.hup
                /\ e.fd \notin Open
                /\ UNCHANGED <<peerVars, clients, subscribers, draining, stage, outVars, drained, causes>>

ClientEvent(e) == HupEvent(e) \/ IoEvent(e) \/ DeadEvent(e)

(* stop, on the main thread, which has ended the threads that broadcast:   *)
(* the flag and the wake-up, then the join.  The loop ends with the batch  *)
(* it has; what is left in the outbox and in the buffers of the clients    *)
(* goes with them.                                                         *)
Stop == /\ stage = "running" /\ waking = 0
        /\ stage' = "stopping"
        /\ wake' = TRUE
        /\ UNCHANGED <<peerVars, clients, subscribers, batch, draining, outbox, waking, alerts,
                       drained, causes>>

Join == /\ stage = "stopping" /\ batch = {} /\ ~draining
        /\ stage' = "stopped"
        /\ clients' = [fd \in Fds |-> NoClient]
        /\ backlog' = <<>>
        /\ LET left == {clients[fd].peer : fd \in Open} \cup Range(backlog)
           IN /\ peer' = [p \in Peers |-> IF p \in left /\ peer[p] # "left" THEN "cut" ELSE peer[p]]
              /\ causes' = causes \cup (left \X {"stopped"})
        /\ UNCHANGED <<asked, shut, toServer, toPeer, got, subscribers, batch, draining, outVars, drained>>

Loop == \/ EpollWait \/ Accept \/ TakeWake \/ Drain
        \/ \E e \in batch \ {Listen, Wakeup} : ClientEvent(e)
        \/ Join

Next == \/ Loop \/ Queue \/ WakeLoop \/ Stop
        \/ \E p \in Peers : Connect(p) \/ Send(p) \/ Shut(p) \/ Read(p) \/ HangUp(p)

Spec == Init /\ [][Next]_vars
FairSpec == /\ Spec
            /\ WF_vars(Loop) /\ WF_vars(WakeLoop)
            /\ \A p \in Peers : WF_vars(Read(p))

----------------------------------------------------------------------------
(* The alerts among the first lines, and among all.                        *)
Numbers(lines) ==
    LET first[i \in 0..Len(lines)] ==
            IF i = 0 THEN <<>>
            ELSE IF lines[i][1] = "alert" THEN Append(first[i - 1], lines[i][2]) ELSE first[i - 1]
    IN first[Len(lines)]

(* A subscriber gets, in order and without a gap or a repeat, everything   *)
(* taken from the outbox after its subscription, up to what is still in    *)
(* its buffers.                                                            *)
StreamIsExact ==
    \A fd \in Subscribed :
        LET c == clients[fd]
        IN peer[c.peer] # "left" =>
              got[c.peer] \o Numbers(toPeer[c.peer] \o c.out)
                  = SubSeq(drained, c.since + 1, Len(drained))

(* What the outbox loses to its bound is old: an alert is gone only behind *)
(* more than OutboxMax newer ones, and what is left keeps its order, with  *)
(* what was taken before.                                                  *)
OutboxKeepsNewest ==
    LET kept == drained \o outbox
    IN /\ Len(outbox) <= OutboxMax + 1
       /\ \A i, j \in DOMAIN kept : i < j => kept[i] < kept[j]
       /\ \A n \in 1..alerts : alerts - n <= OutboxMax => n \in Range(kept)

(* The server cuts off a peer that is still there only when it is too far  *)
(* behind, has sent too much at a time, is one too many, or has shut down  *)
(* its sending side and had all it sent read and answered.  The exception: *)
(* a hang-up event of an earlier peer may hit the one that has got its     *)
(* descriptor, only after that earlier peer was found gone by a write in   *)
(* the same batch.                                                         *)
CutForCause ==
    \A p \in Peers :
        /\ <<p, "none">> \notin causes
        /\ <<p, "ended">> \in causes => p \in shut /\ toServer[p] = <<>>
        /\ <<p, "stale event">> \in causes => \E q \in Peers \ {p} : <<q, "hung up">> \in causes

Owed(p, n) == /\ n \in Range(outbox) \/ n \in Range(Numbers(toPeer[p]))
                 \/ \E fd \in Open : clients[fd].peer = p /\ n \in Range(Numbers(clients[fd].out))
              /\ \E fd \in Subscribed : clients[fd].peer = p
Settled(p, n) == n \in Range(got[p]) \/ peer[p] # "served"

(* The last broadcast, which no later one helps to wake the loop for, is   *)
(* delivered to every subscriber that goes on reading, unless its          *)
(* connection ends: it always comes to it again that nobody is owed it.    *)
AlertsArrive == []<>(\A p \in Peers : Owed(p, MaxAlerts) => Settled(p, MaxAlerts))

----------------------------------------------------------------------------
(* Why the outbox keeps the newest: what is in it is a run of consecutive  *)
(* alerts that ends with the last one, behind everything taken before.     *)
OutboxInv ==
    /\ alerts \in Nat /\ outbox \in Seq(Nat) /\ drained \in Seq(Nat)
    /\ Len(outbox) <= OutboxMax + 1
    /\ \A i \in DOMAIN outbox : outbox[i] = alerts - Len(outbox) + i
    /\ \A i \in DOMAIN drained : drained[i] <= alerts - Len(outbox)
    /\ \A i, j \in DOMAIN drained : i < j => drained[i] < drained[j]
    /\ \A n \in 1..(alerts - Len(outbox)) :
          alerts - n <= OutboxMax => \E i \in DOMAIN drained : drained[i] = n

(* Where things are: a peer is in the backlog, at one descriptor or        *)
(* nowhere; a socket never holds more than the kernel takes, so that what  *)
(* a flush takes off the pending lines is what it adds to the socket; and  *)
(* a loop that has ended holds nothing.                                    *)
PlacesInv ==
    /\ waking <= alerts
    /\ \A p \in Peers : Len(toPeer[p]) <= SockBuf
    /\ \A fd \in Open : /\ peer[clients[fd].peer] \in {"served", "left"}
                        /\ \A g \in Open : clients[g].peer = clients[fd].peer => g = fd
                        /\ \A i \in DOMAIN backlog : backlog[i] # clients[fd].peer
    /\ \A i \in DOMAIN backlog : /\ peer[backlog[i]] \in {"queued", "left"}
                                 /\ \A j \in DOMAIN backlog : backlog[j] = backlog[i] => j = i
    /\ stage = "stopped" => Open = {} /\ batch = {} /\ ~draining

(* Why the streams are exact: a client that has not subscribed is sent no  *)
(* alert, so what a peer has read or will read from its buffers is exactly *)
(* what was drained since its subscription.                                *)
Stream(fd) ==
    LET c == clients[fd]
    IN peer[c.peer] # "left" =>
          got[c.peer] \o Numbers(toPeer[c.peer] \o c.out)
              = IF c.subscribed THEN SubSeq(drained, c.since + 1, Len(drained)) ELSE <<>>

StreamInv ==
    /\ \A p \in Peers : peer[p] \in {"new", "queued"} => got[p] = <<>>
    /\ \A fd \in Open : clients[fd].since <= Len(drained) /\ Stream(fd)

(* Why the connections end for a cause: a hang-up event is about a peer    *)
(* that has left, and that still has the descriptor or has been dropped    *)
(* for having left.                                                        *)
HangUpInv ==
    \A e \in batch \ {Listen, Wakeup} : e.hup =>
        /\ peer[e.for] = "left"
        /\ \/ e.fd \in Open /\ clients[e.fd].peer = e.for
           \/ <<e.for, "hung up">> \in causes

ServerInv == TypeOK /\ OutboxInv /\ PlacesInv /\ StreamInv /\ HangUpInv /\ CutForCause
=============================================================================
