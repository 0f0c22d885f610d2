-------------------------------- MODULE Ctl --------------------------------
(***************************************************************************)
(* backmasterctl: one connection, the greeting read, one request written,  *)
(* lines read until one is the answer, every wait limited.  `watch` reads  *)
(* alerts without a limit instead.  Between any two steps the daemon may   *)
(* accept, work, write, be slow or go away.                                *)
(***************************************************************************)
EXTENDS LineConn, FiniteSets

CONSTANTS
    SockBuf,    \* bytes the socket holds
    Size,       \* [kind of line -> its bytes]
    MaxAlerts   \* bound: broadcasts

LineKinds == {"hello", "done", "refusal", "listing", "alert"}

(* block, exclude; unblock; reload, test; list, ruleset; status, alerts.   *)
Changes == {"edit", "unblock", "reload"}
Commands == Changes \cup {"list", "status", "watch"}

ASSUME CtlAssumption ==
    /\ SockBuf \in Nat \ {0}
    /\ Size \in [LineKinds -> Nat \ {0}]
    /\ MaxAlerts \in Nat

VARIABLES
    \* the client
    cmd,        \* what it was called for
    pc,         \* "start", "hello", "request", "answer", "watch", "exit"
    reading,    \* where read_line is: "line", "poll", "fill", "last"
    rbuf, eof,  \* rbuf_ and eof_
    got,        \* the local of fill: something was read
    exit,       \* "none", "ok", "refused", "failed"
    \* the daemon and the socket
    daemon,     \* whether it is up
    link,       \* "none", "queued", "open" or "closed"
    privileged, \* whether the client may change anything
    asked,      \* the request: "none", "sent", "working", "answered"
    verdict,    \* the answer it will be given, "none" before it is handled
    pending,    \* wbuf_: bytes the daemon could not write yet
    sock,       \* bytes on their way to the client
    subscribed,
    \* history
    wrote,      \* the lines the daemon wrote, by kind
    took,       \* the lines next_line returned
    executed,   \* how often the change was made: lists edited, reloaded, alert raised
    firewall,   \* "same", or "told" once nft was called on to change the rules
    cause       \* why a read failed

clientVars == <<pc, reading, rbuf, eof, got, exit, took, cause>>
decided == <<verdict, executed, firewall>>
daemonVars == <<daemon, link, asked, pending, subscribed, wrote, decided>>
fixed == <<cmd, privileged>>
vars == <<clientVars, daemonVars, fixed, sock>>

Causes == {"none", "unreachable", "closed", "timeout", "too long"}

(* Buffers, lines and the client are in their domains, and the buffer      *)
(* never holds more than one read beyond the limit.                        *)
TypeOK ==
    /\ cmd \in Commands /\ privileged \in BOOLEAN
    /\ pc \in {"start", "hello", "request", "answer", "watch", "exit"}
    /\ reading \in {"line", "poll", "fill", "last"}
    /\ Len(rbuf) <= LineMax + ReadMax
    /\ eof \in BOOLEAN /\ got \in BOOLEAN
    /\ exit \in {"none", "ok", "refused", "failed"}
    /\ daemon \in BOOLEAN /\ link \in {"none", "queued", "open", "closed"}
    /\ asked \in {"none", "sent", "working", "answered"}
    /\ Len(sock) <= SockBuf
    /\ subscribed \in BOOLEAN
    /\ wrote \in Seq(LineKinds)
    /\ verdict \in {"none", "done", "refusal", "listing"}
    /\ executed \in Nat /\ firewall \in {"same", "told"}
    /\ cause \in Causes

Init ==
    /\ cmd \in Commands /\ privileged \in BOOLEAN
    /\ pc = "start" /\ reading = "line" /\ rbuf = <<>> /\ eof = FALSE /\ got = FALSE
    /\ exit = "none" /\ cause = "none"
    /\ daemon \in BOOLEAN /\ link = "none"
    /\ asked = "none" /\ pending = <<>> /\ sock = <<>> /\ subscribed = FALSE
    /\ wrote = <<>> /\ took = <<>>
    /\ verdict = "none" /\ executed = 0 /\ firewall = "same"

----------------------------------------------------------------------------
(* The client.                                                             *)

Exit(with, why) == pc' = "exit" /\ exit' = with /\ cause' = why
Go(to) == pc' = to /\ UNCHANGED <<exit, cause>>

(* ipc_connect.                                                            *)
Connect == /\ pc = "start"
           /\ IF daemon THEN link' = "queued" /\ Go("hello")
                        ELSE UNCHANGED link /\ Exit("failed", "unreachable")
           /\ UNCHANGED <<reading, rbuf, eof, got, took, daemon, asked, pending, subscribed,
                          wrote, decided, fixed, sock>>

(* Mutant: the answer's "ok" is not looked at.                             *)
TakenForOk(line) ==
    LET kind == wrote[line[1].of]
    IN \/ pc = "hello" /\ Go("request")
       \/ pc = "answer" /\ kind # "alert" /\ Exit("ok", "none")
       \/ pc = "answer" /\ kind = "alert" /\ Go("answer")
       \/ pc = "watch" /\ Go("watch")

(* What is done with a line: the greeting is read past, alerts that come   *)
(* before the answer are skipped, watch prints them all.                   *)
Taken(line) ==
    LET kind == wrote[line[1].of]
    IN \/ pc = "hello" /\ Go("request")
       \/ pc = "answer" /\ kind = "refusal" /\ Exit("refused", "none")
       \/ pc = "answer" /\ kind \notin {"refusal", "alert"} /\ Exit("ok", "none")
       \/ pc = "answer" /\ kind = "alert" /\ Go("answer")
       \/ pc = "watch" /\ Go("watch")

TakeLine == /\ HasLine(rbuf)
            /\ took' = Append(took, FirstLine(rbuf))
            /\ rbuf' = AfterLine(rbuf)
            /\ Taken(FirstLine(rbuf))
            /\ reading' = "line"
            /\ UNCHANGED <<eof, got, daemonVars, fixed, sock>>

(* A read that fails ends the client: watch takes it for the end.          *)
GiveUp(why) == /\ Exit(IF pc = "watch" THEN "ok" ELSE "failed", why)
               /\ UNCHANGED <<reading, rbuf, eof, got, took, daemonVars, fixed, sock>>

Reading(at) == pc \in {"hello", "answer", "watch"} /\ reading = at
WhyEof == IF cause = "none" THEN "closed" ELSE cause

(* read_line: a buffered line first, then the end, then a wait.            *)
NextLine ==
    /\ Reading("line")
    /\ \/ TakeLine
       \/ ~HasLine(rbuf) /\ eof /\ GiveUp(WhyEof)
       \/ /\ ~HasLine(rbuf) /\ ~eof
          /\ reading' = "poll"
          /\ UNCHANGED <<pc, rbuf, eof, got, exit, took, cause, daemonVars, fixed, sock>>

Readable == sock # <<>> \/ link = "closed"

Poll == /\ Reading("poll")
        /\ Readable
        /\ reading' = "fill" /\ got' = FALSE
        /\ UNCHANGED <<pc, rbuf, eof, exit, took, cause, daemonVars, fixed, sock>>

(* Mutant: the greeting is waited for without a limit.                     *)
AnswerTimesOut == /\ Reading("poll")
                  /\ ~Readable
                  /\ pc = "answer"
                  /\ GiveUp("timeout")

TimeOut == /\ Reading("poll")
           /\ ~Readable
           /\ pc # "watch"
           /\ GiveUp("timeout")

(* Mutant: a read that follows another overwrites what it brought.         *)
ReadOver(k) == /\ rbuf' = SubSeq(sock, 1, k)
               /\ got' = TRUE
               /\ UNCHANGED <<eof, reading, cause>>

(* Mutant: the size is not looked at.                                      *)
ReadAnyway(k) == /\ rbuf' = rbuf \o SubSeq(sock, 1, k)
                 /\ got' = TRUE
                 /\ UNCHANGED <<eof, reading, cause>>

ReadInto(k) == IF TooLong(rbuf)
               THEN /\ eof' = TRUE /\ reading' = "last" /\ cause' = "too long"
                    /\ UNCHANGED <<rbuf, got>>
               ELSE /\ rbuf' = rbuf \o SubSeq(sock, 1, k)
                    /\ got' = TRUE
                    /\ UNCHANGED <<eof, reading, cause>>

(* fill: reads until nothing is left, so that the daemon may go on writing *)
(* meanwhile.                                                              *)
FillRead == /\ Reading("fill")
            /\ sock # <<>>
            /\ \E k \in 1..ReadMax :
                  /\ k = ReadMax \/ k = Len(sock)
                  /\ k <= Len(sock)
                  /\ ReadInto(k)
                  /\ sock' = SubSeq(sock, k + 1, Len(sock))
            /\ UNCHANGED <<pc, exit, took, daemonVars, fixed>>

FillEnd == /\ Reading("fill")
           /\ sock = <<>>
           /\ eof' = (link = "closed")
           /\ reading' = IF link = "closed" /\ ~got THEN "last" ELSE "line"
           /\ UNCHANGED <<pc, rbuf, got, exit, took, cause, daemonVars, fixed, sock>>

(* fill failed: one line may still be buffered.                            *)
LastLine == /\ Reading("last")
            /\ \/ TakeLine
               \/ ~HasLine(rbuf) /\ GiveUp(WhyEof)

(* write_line: fails once the daemon has closed the connection.            *)
SendRequest ==
    /\ pc = "request"
    /\ IF link = "closed"
       THEN Exit("failed", "closed") /\ UNCHANGED asked
       ELSE Go(IF cmd = "watch" THEN "watch" ELSE "answer") /\ asked' = "sent"
    /\ UNCHANGED <<reading, rbuf, eof, got, took, daemon, link, pending, subscribed, wrote,
                   decided, fixed, sock>>

Client == \/ Connect \/ SendRequest \/ NextLine \/ Poll
          \/ FillRead \/ FillEnd \/ LastLine

----------------------------------------------------------------------------
(* The daemon at the other end, as this one client sees it.                *)

Write(kind) == /\ wrote' = Append(wrote, kind)
               /\ pending' = pending \o LineBytes(Len(wrote) + 1, Size[kind])

(* Accepted and greeted, or turned away by the limit on clients.           *)
Accept == /\ link = "queued"
          /\ \/ link' = "open" /\ Write("hello")
             \/ link' = "closed" /\ UNCHANGED <<pending, wrote>>
          /\ UNCHANGED <<clientVars, daemon, asked, subscribed, decided, fixed, sock>>

(* What Daemon::handle makes of the request.  Who may not change anything  *)
(* is refused all but status and alerts.  Who may is still refused a block *)
(* or an exclusion of something that is no address or domain, an unblock   *)
(* of what is in no list, and a list that there is not; only the unblock   *)
(* has by then taken the address out of the firewall's sets.               *)
Refused == verdict' = "refusal" /\ UNCHANGED executed
Made == verdict' = "done" /\ executed' = executed + 1
May == privileged \/ cmd \in {"status", "watch"}

Decide ==
    \/ ~May /\ Refused /\ UNCHANGED firewall
    \/ May /\ cmd \in {"status", "watch"} /\ verdict' = "done" /\ UNCHANGED <<executed, firewall>>
    \/ May /\ cmd = "list" /\ verdict' \in {"listing", "refusal"} /\ UNCHANGED <<executed, firewall>>
    \/ May /\ cmd \in {"edit", "reload"} /\ Made /\ firewall' \in {"same", "told"}
    \/ May /\ cmd = "edit" /\ Refused /\ UNCHANGED firewall
    \/ May /\ cmd = "unblock" /\ (Made \/ Refused) /\ firewall' \in {"same", "told"}

(* The request is handled, then answered: a step each, the daemon can die  *)
(* between them.                                                           *)
Handle == /\ link = "open" /\ asked = "sent"
          /\ asked' = "working"
          /\ Decide
          /\ subscribed' = (cmd = "watch")
          /\ UNCHANGED <<clientVars, daemon, link, pending, wrote, fixed, sock>>

Answer == /\ link = "open" /\ asked = "working"
          /\ asked' = "answered"
          /\ Write(verdict)
          /\ UNCHANGED <<clientVars, daemon, link, subscribed, decided, fixed, sock>>

Alerts == SelectSeq(wrote, LAMBDA kind : kind = "alert")

Broadcast == /\ link = "open" /\ subscribed
             /\ Len(Alerts) < MaxAlerts
             /\ asked = "answered"
             /\ Write("alert")
             /\ UNCHANGED <<clientVars, daemon, link, asked, subscribed, decided, fixed, sock>>

(* flush: as much as the socket takes.                                     *)
Flush == LET room == SockBuf - Len(sock)
             k == IF Len(pending) < room THEN Len(pending) ELSE room
         IN /\ link = "open" /\ k > 0
            /\ sock' = sock \o SubSeq(pending, 1, k)
            /\ pending' = SubSeq(pending, k + 1, Len(pending))
            /\ UNCHANGED <<clientVars, daemon, link, asked, subscribed, wrote, decided, fixed>>

(* It stops, or cuts the client off; what it had not written is gone.      *)
Close == /\ link \in {"queued", "open"}
         /\ link' = "closed" /\ pending' = <<>>
         /\ daemon' \in BOOLEAN
         /\ UNCHANGED <<clientVars, asked, subscribed, wrote, decided, fixed, sock>>

Server == Accept \/ Handle \/ Answer \/ Flush

Next == Client \/ TimeOut \/ Server \/ Broadcast \/ Close

Spec == Init /\ [][Next]_vars

(* The client runs and its timer runs out; the daemon may be slow.         *)
FairSpec == Spec /\ WF_vars(Client) /\ WF_vars(TimeOut)

----------------------------------------------------------------------------
(* However the bytes were cut up, limited or ended, a line that next_line  *)
(* returned is one the daemon wrote, whole, and they come in order with    *)
(* none left out.                                                          *)
LinesAreExact ==
    /\ Len(took) <= Len(wrote)
    /\ \A n \in DOMAIN took : took[n] = LineBytes(n, Size[wrote[n]])

(* What the client ends with, after a command that changes something: ok   *)
(* that the change was made, once; a refusal that it was not.  (Its exit   *)
(* status is 1 for a refusal and a failure alike; what it prints differs.) *)
(* The exception is the firewall: an unblock by somebody who may, of an    *)
(* address that is in no list, is refused after nft was told to forget the *)
(* address.                                                                *)
ExitTellsTruth ==
    /\ executed <= 1
    /\ exit = "ok" /\ cmd \in Changes => executed = 1
    /\ exit = "refused" => executed = 0 /\ (firewall = "told" => privileged /\ cmd = "unblock")

(* The greeting or the answer alone is more than the buffer takes.         *)
LongOwn == \E kind \in {"hello", verdict} \cap LineKinds : Size[kind] > LineMax

(* A command fails for a reason outside: no daemon, a connection closed, a *)
(* wait that ran out; and for no other if what it reads fits the buffer.   *)
FailureHasCause ==
    exit = "failed" =>
        \/ cause = "unreachable" /\ ~daemon
        \/ cause = "closed" /\ link = "closed"
        \/ cause = "timeout"
        \/ cause = "too long" /\ LongOwn

(* "short enough that a wedged daemon does not hang the terminal"          *)
(* (ctl/main.cpp:40): every command but watch comes back.                  *)
CommandEnds == (pc # "start" /\ cmd # "watch") ~> pc = "exit"

(* "Reading: ... list ... ruleset" against "Changing (needs root or        *)
(* membership of the admin group)" (ctl/main.cpp:224-231).                 *)
OnlyChangesRefused == exit = "refused" /\ ~privileged => cmd \in Changes

(* "-n, --limit N  row limit for alerts and list" (ctl/main.cpp:240): a    *)
(* listing that was sent is read.                                          *)
ListingIsRead == cmd = "list" /\ exit = "failed" => cause # "too long"

(* "A peer that never sends a newline must not grow the buffer forever"    *)
(* (ipc.cpp:61) is all the limit is for: it ends no stream of short lines. *)
OnlyLongLinesCut == pc = "exit" /\ cause = "too long" => \E n \in DOMAIN wrote : Size[wrote[n]] > LineMax

----------------------------------------------------------------------------
(* Why these hold.  The bytes on their way are whole lines in order, from  *)
(* the first one not taken on, up to where the stream was cut: at[n] is    *)
(* the place of the first byte of line n.                                  *)

Byte == [of : Nat, nl : BOOLEAN]

Laid(buf, first, kinds, whole) ==
    \E at \in [first..(Len(kinds) + 1) -> Int] :
        /\ at[first] = 1
        /\ \A n \in first..Len(kinds) :
              /\ at[n + 1] = at[n] + Size[kinds[n]]
              /\ at[n + 1] <= at[Len(kinds) + 1]
              /\ \A i \in DOMAIN buf :
                    at[n] <= i /\ i < at[n + 1] => buf[i] = [of |-> n, nl |-> i = at[n + 1] - 1]
        /\ Len(buf) < at[Len(kinds) + 1]
        /\ whole => Len(buf) + 1 = at[Len(kinds) + 1]

(* A read that is refused for its size drops what it has read.             *)
Stream == IF cause = "too long" THEN rbuf ELSE rbuf \o (sock \o pending)

Whole == link = "open" /\ cause # "too long"

StreamInv ==
    /\ rbuf \in Seq(Byte) /\ sock \in Seq(Byte) /\ pending \in Seq(Byte)
    /\ took \in Seq(Seq(Byte))
    /\ Len(took) <= Len(wrote)
    /\ pc # "exit" =>
          Laid(Stream, Len(took) + 1, wrote, Whole)

(* The conversation: a greeting, one request, one answer, then only alerts *)
(* and these only for a subscriber.                                        *)
Executed == IF verdict = "done" /\ cmd \in Changes THEN 1 ELSE 0

ConversationInv ==
    /\ pc = "start" => link = "none"
    /\ link = "none" => pc \in {"start", "exit"}
    /\ link \in {"none", "queued"} => Len(wrote) = 0
    /\ link = "open" => Len(wrote) >= 1
    /\ Len(wrote) >= 1 => wrote[1] = "hello"
    /\ asked # "answered" => Len(wrote) <= 1
    /\ asked = "answered" => /\ Len(wrote) >= 2 /\ wrote[2] = verdict
                             /\ cmd # "watch" => Len(wrote) = 2
    /\ asked \in {"none", "sent"} <=> verdict = "none"
    /\ verdict = "listing" => cmd = "list"
    /\ executed = Executed
    /\ firewall = "told" => /\ privileged /\ cmd \in Changes
                            /\ verdict = "done" \/ (verdict = "refusal" /\ cmd = "unblock")
    /\ subscribed => cmd = "watch"
    /\ pc \in {"start", "hello"} => Len(took) = 0 /\ asked = "none"
    /\ pc = "request" => Len(took) = 1 /\ asked = "none"
    /\ pc = "answer" => Len(took) = 1 /\ asked # "none" /\ cmd # "watch"
    /\ pc = "watch" => cmd = "watch"
    /\ pc # "exit" => exit = "none"
    /\ exit = "ok" /\ cmd # "watch" => asked = "answered" /\ verdict # "refusal"
    /\ exit = "refused" => asked = "answered" /\ verdict = "refusal"

(* The reader: the end is real or the buffer is full, and a wait is begun  *)
(* before either.  Only a line beyond the limit fills the buffer of a      *)
(* client that is not watching: it never has more than one to read.        *)
ReaderInv ==
    /\ pc # "exit" => /\ cause \in {"none", "too long"}
                      /\ eof => link = "closed" \/ cause = "too long"
                      /\ cause = "too long" => eof
                      /\ reading \in {"poll", "fill"} => ~eof
                      /\ reading = "last" => eof
    /\ cause = "too long" => pc = "watch" \/ exit = "ok" \/ LongOwn
    /\ cause = "unreachable" => link = "none" /\ ~daemon
    /\ cause = "closed" => link = "closed"
    /\ exit = "failed" => cause # "none"

CtlInv == TypeOK /\ StreamInv /\ LinesAreExact /\ ConversationInv /\ ReaderInv

=============================================================================
