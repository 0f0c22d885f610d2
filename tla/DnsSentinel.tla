---------------------------- MODULE DnsSentinel ----------------------------
(***************************************************************************)
(* DnsSentinel: the resolver thread that refuses blocked names, relays the *)
(* other queries over one socket each, refuses answers with a blocked      *)
(* address, and remembers in the ResolveCache which name an address was    *)
(* the answer to.  Time is counted in sweeps, a second each.               *)
(***************************************************************************)
EXTENDS Integers, SequencesExt, FiniteSetsExt

CONSTANTS
    Names,      \* domains, as sequences of labels
    Ips,
    Fds,        \* the descriptors the process can get, numbers
    MaxPending, \* 512 in the code
    Timeout,    \* kQueryTimeoutMs, in sweeps
    CacheMax,   \* kMaxEntries, 50000 in the code
    CacheTtl,   \* kTtlMs, in sweeps
    Feed,       \* the names and addresses denied from the start
    MaxQueries, \* bound: queries of all clients
    MaxEdits,   \* bound: edits of the lists
    MaxLag      \* bound: the time from one sweep to the next

Sock == 0     \* the descriptor of sock_

ASSUME NamesAssumption ==
    Names \subseteq Seq(STRING) \ {<<>>} /\ Ips \cap Seq(STRING) = {}

ASSUME DnsAssumption ==
    /\ Fds \subseteq Nat \ {Sock} /\ IsFiniteSet(Fds) /\ IsFiniteSet(Ips)
    /\ MaxPending \in 1..Cardinality(Fds)
    /\ Feed \subseteq Names \cup Ips
    /\ {Timeout, CacheTtl, MaxQueries, MaxEdits, MaxLag} \subseteq Nat
    /\ CacheMax \in Nat \ {0}

VARIABLES
    lists,      \* the Blocklist: what is denied and what is allowed
    edits,      \* number of edits
    asked,      \* the names queried so far, by number
    sock,       \* the queries in sock_
    phase,      \* "wait", "batch", "serve" or "tidy"
    batch,      \* the sockets epoll_wait reported, not handled yet
    pending,    \* pending_
    upstream,   \* upstream[fd]: what has come in on the socket
    cache,      \* the ResolveCache
    sinceSweep, \* time since last_sweep
    answers,    \* history: answers[n]: what was sent to client n
    resolved    \* history: the addresses that came in on a socket of each name

vars == <<lists, edits, asked, sock, phase, batch, pending, upstream, cache,
          sinceSweep, answers, resolved>>
clientVars == <<asked, sock>>
listVars == <<lists, edits>>

Queries == 1..MaxQueries
Free == [query |-> 0]
Nothing == [what |-> "nothing"]
Error == [what |-> "error"]
Reply == [what : {"reply"}, ips : SUBSET Ips]
NoEntry == [name |-> "none"]
Refused == {"refused"}
Open == {fd \in Fds : pending[fd] # Free}

(* Queries, sockets, answers and the cache are in their domains.           *)
TypeOK ==
    /\ lists \in [deny : SUBSET (Names \cup Ips), allow : SUBSET (Names \cup Ips)]
    /\ edits \in 0..MaxEdits
    /\ asked \in Seq(Names) /\ sock \in Seq(Queries)
    /\ phase \in {"wait", "batch", "serve", "tidy"}
    /\ batch \subseteq Fds \cup {Sock}
    /\ pending \in [Fds -> [query : Queries, age : Nat] \cup {Free}]
    /\ upstream \in [Fds -> {Nothing, Error} \cup Reply]
    /\ cache \in [Ips -> [name : Names, age : Nat] \cup {NoEntry}]
    /\ sinceSweep \in Nat
    /\ answers \in [Queries -> Seq({Refused} \cup SUBSET Ips)]
    /\ resolved \subseteq Ips \X Names

Init ==
    /\ lists = [deny |-> Feed, allow |-> {}]
    /\ edits = 0
    /\ asked = <<>> /\ sock = <<>>
    /\ phase = "wait" /\ batch = {}
    /\ pending = [fd \in Fds |-> Free]
    /\ upstream = [fd \in Fds |-> Nothing]
    /\ cache = [ip \in Ips |-> NoEntry]
    /\ sinceSweep = 0
    /\ answers = [n \in Queries |-> <<>>] /\ resolved = {}

(* How the Blocklist matches a domain, the sequence of its labels with the *)
(* most specific first: the closest entry at or above d, <<>> if there is  *)
(* none.  d loses its first label until the rest is in the list.  (The one *)
(* trailing dot that is taken off first is never there: names come from    *)
(* the wire, where there is none.)                                         *)
Matched(list, d) ==
    LET rest(n) == SubSeq(d, Len(d) - n + 1, Len(d))
        walk[n \in 0..Len(d)] == IF n = 0 \/ rest(n) \in list THEN rest(n) ELSE walk[n - 1]
    IN walk[Len(d)]

(* Mutant: the closer of the two entries decides.                          *)
BlockedByCloser(deny, allow, d) == Len(Matched(deny, d)) > Len(Matched(allow, d))

DomainAllowed(allow, d) == Matched(allow, d) # <<>>

(* An entry of the allow list wins wherever the walk finds it.             *)
DomainBlocked(deny, allow, d) == ~DomainAllowed(allow, d) /\ Matched(deny, d) # <<>>

(* domain_blocked and ip_blocked, one critical section each.               *)
NameBlocked(d) == DomainBlocked(lists.deny, lists.allow, d)
IpBlocked(ip) == ip \in lists.deny \ lists.allow

----------------------------------------------------------------------------
(* Clients, the upstream resolvers, the lists and the clock.               *)

Ask(name) == /\ Len(asked) < MaxQueries
             /\ asked' = Append(asked, name)
             /\ sock' = Append(sock, Len(asked) + 1)
             /\ UNCHANGED <<listVars, phase, batch, pending, upstream, cache,
                            sinceSweep, answers, resolved>>

NameOf(fd) == asked[pending[fd].query]

(* A datagram comes in on the socket of a query, or an error does.  Nobody *)
(* looks at who sent it, at its id or at its question: whatever comes in   *)
(* on the socket is what upstream says of the name.                        *)
Resolve(fd) ==
    /\ fd \in Open /\ upstream[fd] = Nothing
    /\ \/ /\ upstream' = [upstream EXCEPT ![fd] = Error]
          /\ UNCHANGED resolved
       \/ \E S \in SUBSET Ips :
             /\ upstream' = [upstream EXCEPT ![fd] = [what |-> "reply", ips |-> S]]
             /\ resolved' = resolved \cup (S \X {NameOf(fd)})
    /\ UNCHANGED <<listVars, clientVars, phase, batch, pending, cache, sinceSweep, answers>>

(* add_block, add_allow and remove, of a name or an address, and load,     *)
(* which brings back what the feeds have and the user's files keep.        *)
Block(x) == lists' = [lists EXCEPT !.deny = @ \cup {x}]
Exclude(x) == lists' = [deny |-> lists.deny \ {x}, allow |-> lists.allow \cup {x}]
Unblock(x) == lists' = [deny |-> lists.deny \ {x}, allow |-> lists.allow \ {x}]
Reload == lists' = [lists EXCEPT !.deny = @ \cup Feed]

Edit == /\ edits < MaxEdits
        /\ edits' = edits + 1
        /\ \/ \E x \in Names \cup Ips : Block(x) \/ Exclude(x) \/ Unblock(x)
           \/ Reload
        /\ UNCHANGED <<clientVars, phase, batch, pending, upstream, cache,
                       sinceSweep, answers, resolved>>

Older(r) == [r EXCEPT !.age = @ + 1]

Tick == /\ sinceSweep < MaxLag
        /\ sinceSweep' = sinceSweep + 1
        /\ pending' = [fd \in Fds |-> IF fd \in Open THEN Older(pending[fd]) ELSE Free]
        /\ cache' = [ip \in Ips |-> IF cache[ip] = NoEntry THEN NoEntry ELSE Older(cache[ip])]
        /\ UNCHANGED <<listVars, clientVars, phase, batch, upstream, answers, resolved>>

----------------------------------------------------------------------------
(* The epoll loop; a wait that times out goes straight to the housework.   *)

(* Mutant: a wait that times out is followed by the next one.              *)
EpollWaitAgain == /\ phase = "wait"
                  /\ batch' = {fd \in Open : upstream[fd] # Nothing}
                              \cup {s \in {Sock} : sock # <<>>}
                  /\ batch' # {}
                  /\ phase' = "batch"
                  /\ UNCHANGED <<listVars, clientVars, pending, upstream, cache,
                                 sinceSweep, answers, resolved>>

EpollWait == /\ phase = "wait"
             /\ batch' = {fd \in Open : upstream[fd] # Nothing}
                         \cup {s \in {Sock} : sock # <<>>}
             /\ phase' = IF batch' = {} THEN "tidy" ELSE "batch"
             /\ UNCHANGED <<listVars, clientVars, pending, upstream, cache,
                            sinceSweep, answers, resolved>>

(* Mutant: the housework is done between two events of a batch.            *)
DoneEach(e) == batch' = batch \ {e} /\ phase' = "tidy"

(* The batch without e; the last event is followed by the housework.       *)
Done(e) == /\ batch' = batch \ {e}
           /\ phase' = IF batch' = {} THEN "tidy" ELSE "batch"

StartServing == /\ phase = "batch" /\ Sock \in batch
                /\ phase' = "serve"
                /\ UNCHANGED <<listVars, clientVars, batch, pending, upstream, cache,
                               sinceSweep, answers, resolved>>

(* on_client_query: one turn of its loop for one query.                    *)
Taken == phase = "serve" /\ sock # <<>> /\ sock' = Tail(sock)
query == Head(sock)

Refuse ==
    /\ Taken
    /\ NameBlocked(asked[query])
    /\ answers' = [answers EXCEPT ![query] = Append(@, Refused)]
    /\ UNCHANGED <<listVars, asked, phase, batch, pending, upstream, cache,
                   sinceSweep, resolved>>

HasRoom == Cardinality(Open) < MaxPending

(* No room, no socket, or the upstream cannot be reached.                  *)
Drop == /\ Taken
        /\ ~NameBlocked(asked[query])
        /\ UNCHANGED <<listVars, asked, phase, batch, pending, upstream, cache,
                       sinceSweep, answers, resolved>>

Forward ==
    /\ Taken
    /\ ~NameBlocked(asked[query])
    /\ HasRoom
    /\ LET fd == Min(Fds \ Open)
       IN /\ pending' = [pending EXCEPT ![fd] = [query |-> query, age |-> 0]]
          /\ upstream' = [upstream EXCEPT ![fd] = Nothing]
    /\ UNCHANGED <<listVars, asked, phase, batch, cache, sinceSweep, answers, resolved>>

ServedAll == /\ phase = "serve" /\ sock = <<>>
             /\ Done(Sock)
             /\ UNCHANGED <<listVars, clientVars, pending, upstream, cache,
                            sinceSweep, answers, resolved>>

(* Mutant: a full table is pruned, and used whether or not that helped.    *)
NoteOverfull(c, ip, name) ==
    LET young == [i \in Ips |-> IF c[i] # NoEntry /\ c[i].age > CacheTtl THEN NoEntry ELSE c[i]]
    IN [young EXCEPT ![ip] = [name |-> name, age |-> 0]]

(* ResolveCache::note, for each address of an answer.                      *)
Note(c, ip, name) ==
    LET held(d) == {i \in Ips : d[i] # NoEntry}
        young == [i \in Ips |-> IF c[i] # NoEntry /\ c[i].age > CacheTtl THEN NoEntry ELSE c[i]]
        room == IF Cardinality(held(c)) < CacheMax THEN c
                ELSE IF Cardinality(held(young)) < CacheMax THEN young
                ELSE [i \in Ips |-> NoEntry]
    IN [room EXCEPT ![ip] = [name |-> name, age |-> 0]]

NoteAll(c, ips, name) ==
    LET noted[i \in 0..Len(ips)] == IF i = 0 THEN c ELSE Note(noted[i - 1], ips[i], name)
    IN noted[Len(ips)]

(* What the client gets: the answer, or a refusal if an address in it is   *)
(* blocked.                                                                *)
Answer(ips) == IF \E ip \in ips : IpBlocked(ip) THEN Refused ELSE ips

(* Mutant: the query stays pending after its answer.                       *)
ReplyStaysPending(fd) ==
    /\ phase = "batch" /\ fd \in batch
    /\ Done(fd)
    /\ upstream[fd] # Error
    /\ answers' = [answers EXCEPT ![pending[fd].query] = Append(@, Answer(upstream[fd].ips))]
    /\ UNCHANGED <<listVars, clientVars, pending, upstream, cache, sinceSweep, resolved>>

OnUpstreamReply(fd) ==
    /\ phase = "batch" /\ fd \in batch
    /\ Done(fd)
    /\ pending' = [pending EXCEPT ![fd] = Free]
    /\ LET n == pending[fd].query
           reply == upstream[fd]
       IN IF reply = Error THEN UNCHANGED <<answers, cache>>
          ELSE /\ answers' = [answers EXCEPT ![n] = Append(@, Answer(reply.ips))]
               /\ \E order \in SetToSeqs(reply.ips) : cache' = NoteAll(cache, order, asked[n])
    /\ upstream' = [upstream EXCEPT ![fd] = Nothing]
    /\ UNCHANGED <<listVars, clientVars, sinceSweep, resolved>>

Expired(fd) == fd \in Open /\ pending[fd].age > Timeout

(* Mutant: the cache is not swept.                                         *)
TooOldNever(ip) == ip \notin Ips

TooOld(ip) == cache[ip] # NoEntry /\ cache[ip].age > CacheTtl

(* expire and sweep, when the last time is long enough ago.                *)
Tidy ==
    /\ phase = "tidy"
    /\ phase' = "wait"
    /\ IF sinceSweep <= 1 THEN UNCHANGED <<pending, upstream, cache, sinceSweep>>
       ELSE /\ sinceSweep' = 0
            /\ pending' = [fd \in Fds |-> IF Expired(fd) THEN Free ELSE pending[fd]]
            /\ upstream' = [fd \in Fds |-> IF Expired(fd) THEN Nothing ELSE upstream[fd]]
            /\ cache' = [ip \in Ips |-> IF TooOld(ip) THEN NoEntry ELSE cache[ip]]
    /\ UNCHANGED <<listVars, clientVars, batch, answers, resolved>>

Loop == \/ EpollWait \/ StartServing \/ Refuse \/ Drop \/ Forward \/ ServedAll \/ Tidy
        \/ \E fd \in Fds : OnUpstreamReply(fd)
World == \/ Edit
         \/ \E name \in Names : Ask(name)
         \/ \E fd \in Fds : Resolve(fd)

Next == Loop \/ World \/ Tick

Spec == Init /\ [][Next]_vars

(* The thread runs and time passes; upstream may never answer.             *)
FairSpec == Spec /\ WF_vars(Loop) /\ WF_vars(Tick)

----------------------------------------------------------------------------
(* Every socket epoll reported is still the socket of a query when its     *)
(* turn comes.  Otherwise on_upstream_reply would close a descriptor that  *)
(* is not its own, which may by then be some other thread's.               *)
BatchIsPending == batch \subseteq Open \cup {Sock}

(* A client is answered at most once, and what it is told are addresses    *)
(* that came in on the socket of a query for its own name, though          *)
(* descriptors are used again.                                             *)
AnswersAreOwn ==
    \A n \in DOMAIN asked :
        /\ Len(answers[n]) <= 1
        /\ \A i \in DOMAIN answers[n] :
              answers[n][i] # Refused => answers[n][i] \X {asked[n]} \subseteq resolved

(* The name that the cache has for an address is one that the address came *)
(* in for, on the socket of a query for it, and the cache keeps to its     *)
(* limit.                                                                  *)
CacheIsTrue ==
    LET held == {ip \in Ips : cache[ip] # NoEntry}
    IN /\ \A ip \in held : <<ip, cache[ip].name>> \in resolved
       /\ Cardinality(held) <= CacheMax

(* Nothing outlives its time by more than has passed since the last sweep, *)
(* in the table of queries and in the cache, however late the sweep is and *)
(* whatever came and went between two of them.                             *)
SweptInTime ==
    /\ \A fd \in Open : pending[fd].age <= Timeout + sinceSweep
    /\ \A ip \in Ips : cache[ip] # NoEntry => cache[ip].age <= CacheTtl + sinceSweep

Under(d, list) == \E e \in list \cap Names : IsSuffix(e, d)

(* An entry stands for everything below its name: what is sent upstream is *)
(* not at or below a denied name, unless it is at or below an allowed one; *)
(* a query that is refused before it is sent is.                           *)
Settled(n) ==
    LET denied == Under(asked[n], lists.deny) /\ ~Under(asked[n], lists.allow)
    IN n \in Range(sock) /\ n \notin Range(sock') =>
          answers'[n] = IF denied THEN <<Refused>> ELSE <<>>

SubtreesFollow == [][\A n \in DOMAIN asked : Settled(n)]_vars

Relayed(n) == \E fd \in Open : pending[fd].query = n

(* A query that upstream never answers does not keep its socket.           *)
QueriesEnd == \A n \in Queries : Relayed(n) ~> ~Relayed(n)

(* "An entry here always wins over every blocklist, including the feeds"   *)
(* (allow.txt:3): while the lists stay as they are, a client that asks for *)
(* an excluded name is not refused.                                        *)
ExcludedNamesResolve ==
    [][\A n \in DOMAIN asked :
          asked[n] \in lists.allow /\ answers[n] = <<>> => answers'[n] # <<Refused>>]_vars

----------------------------------------------------------------------------
(* Why these hold.                                                         *)

(* A query is in one place only: in sock_, with one of the sockets, or     *)
(* answered; and only what has been asked is anywhere.                     *)
QueryInv ==
    /\ \A i \in DOMAIN sock : sock[i] \in DOMAIN asked /\ answers[sock[i]] = <<>>
    /\ \A i, j \in DOMAIN sock : sock[i] = sock[j] => i = j
    /\ \A fd \in Open :
          /\ pending[fd].query \in DOMAIN asked /\ answers[pending[fd].query] = <<>>
          /\ \A i \in DOMAIN sock : sock[i] # pending[fd].query
          /\ \A g \in Open : pending[g].query = pending[fd].query => g = fd
    /\ \A n \in Queries \ DOMAIN asked : answers[n] = <<>>

(* What the kernel reported is still there when its turn comes.            *)
BatchInv ==
    /\ \A fd \in batch \ {Sock} : fd \in Open /\ upstream[fd] # Nothing
    /\ phase \in {"wait", "tidy"} => batch = {}
    /\ phase = "serve" => Sock \in batch

(* A reply on a socket is to the query that has the socket now.            *)
ReplyInv ==
    \A fd \in Open : upstream[fd] \in Reply =>
        upstream[fd].ips \X {NameOf(fd)} \subseteq resolved

DnsInv == /\ TypeOK /\ QueryInv /\ BatchInv /\ ReplyInv /\ AnswersAreOwn /\ CacheIsTrue
          /\ SweptInTime
=============================================================================
