------------------------- MODULE DnsSentinelProofs -------------------------
(***************************************************************************)
(* Theorems about DnsSentinel, for any names, addresses, sockets, times    *)
(* and limits.                                                             *)
(***************************************************************************)
EXTENDS DnsSentinel, FiniteSetTheorems, SequenceTheorems, WellFoundedInduction, TLAPS

(***************************************************************************)
(* Induction, for a set of numbers.                                        *)
(***************************************************************************)

LEMMA Leasts ==
    ASSUME NEW S, S \subseteq Nat, S # {}
    PROVE  \E x \in S : \A y \in S : x <= y
<1>1. PICK x \in S : \A y \in S : <<y, x>> \notin OpToRel(<, Nat)
  BY NatLessThanWellFounded, WFMin, Zenon
<1>2. \A y \in S : ~(y < x)
  BY <1>1, Zenon DEF OpToRel
<1> QED BY <1>2

LEMMA Inductive ==
    ASSUME NEW n \in Nat, NEW S, 0 \in S,
           \A i \in 0..n : i \in S /\ i < n => i + 1 \in S
    PROVE  0..n \subseteq S
<1> SUFFICES ASSUME (0..n) \ S # {}
             PROVE  FALSE
  OBVIOUS
<1>1. PICK m \in (0..n) \ S : \A y \in (0..n) \ S : m <= y
  <2> DEFINE rest == (0..n) \ S
  <2>1. rest \subseteq Nat /\ rest # {}
    OBVIOUS
  <2> HIDE DEF rest
  <2>2. \E m \in rest : \A y \in rest : m <= y
    BY <2>1, Leasts
  <2> QED BY <2>2 DEF rest
<1>2. m # 0 /\ m - 1 \in 0..n /\ m - 1 < n /\ ~(m <= m - 1) /\ (m - 1) + 1 = m
  BY <1>1
<1>3. m - 1 \in S
  BY <1>1, <1>2
<1> QED BY <1>1, <1>2, <1>3

(***************************************************************************)
(* The cache.                                                              *)
(***************************************************************************)

Entry == [name : Names, age : Nat]
Cache == [Ips -> Entry \cup {NoEntry}]
Held(c) == {ip \in Ips : c[ip] # NoEntry}

LEMMA EntriesCount ==
    ASSUME DnsAssumption, NEW c
    PROVE  IsFiniteSet(Held(c)) /\ Cardinality(Held(c)) \in Nat
<1>1. Held(c) \subseteq Ips /\ IsFiniteSet(Ips)
  BY DEF Held, DnsAssumption
<1> QED BY <1>1, FS_Subset, FS_CardinalityType

(* Noting one address: it has the name, any other entry is an old one, and *)
(* the limit is kept.                                                      *)
LEMMA NoteIs ==
    ASSUME DnsAssumption, NEW c \in Cache, NEW ip \in Ips, NEW name \in Names
    PROVE  /\ Note(c, ip, name) \in Cache
           /\ \A j \in Held(Note(c, ip, name)) :
                 \/ j = ip /\ Note(c, ip, name)[j].name = name /\ Note(c, ip, name)[j].age = 0
                 \/ j \in Held(c) /\ Note(c, ip, name)[j] = c[j]
           /\ Cardinality(Held(Note(c, ip, name))) <= CacheMax
<1> DEFINE young == [i \in Ips |-> IF c[i] # NoEntry /\ c[i].age > CacheTtl THEN NoEntry ELSE c[i]]
           none == [i \in Ips |-> NoEntry]
           room == IF Cardinality(Held(c)) < CacheMax THEN c
                   ELSE IF Cardinality(Held(young)) < CacheMax THEN young ELSE none
           e == [name |-> name, age |-> 0]
           d == [room EXCEPT ![ip] = e]
<1>1. Note(c, ip, name) = d
  BY DEF Note, Held
<1>2. young \in Cache /\ none \in Cache
  BY DEF Cache
<1>3. \A j \in Held(young) : j \in Held(c) /\ young[j] = c[j]
  BY DEF Held
<1>4. Held(none) = {}
  BY DEF Held
<1> HIDE DEF young, none
<1>5. CacheMax \in Nat \ {0}
  BY DEF DnsAssumption
<1>6. Cardinality(Held(none)) < CacheMax
  BY <1>4, <1>5, FS_EmptySet
<1>7. /\ room \in Cache
      /\ \A j \in Held(room) : j \in Held(c) /\ room[j] = c[j]
      /\ Cardinality(Held(room)) < CacheMax
  BY <1>2, <1>3, <1>4, <1>6
<1> HIDE DEF room
<1>8. e \in Entry /\ e.name = name /\ e.age = 0
  BY DEF Entry
<1> HIDE DEF e
<1>9. d \in Cache /\ d[ip] = e /\ \A j \in Ips : j # ip => d[j] = room[j]
  BY <1>7, <1>8 DEF Cache
<1> HIDE DEF d
<1>10. \A j \in Held(d) : \/ j = ip /\ d[j].name = name /\ d[j].age = 0
                          \/ j \in Held(room) /\ d[j] = room[j]
  BY <1>8, <1>9 DEF Held
<1>11. Cardinality(Held(d)) <= CacheMax
  <2>1. Held(d) \subseteq Held(room) \cup {ip}
    BY <1>10
  <2>2. IsFiniteSet(Held(room)) /\ Cardinality(Held(room)) \in Nat
    BY EntriesCount
  <2>3. /\ IsFiniteSet(Held(room) \cup {ip})
        /\ Cardinality(Held(room) \cup {ip}) <= Cardinality(Held(room)) + 1
    <3> DEFINE H == Held(room)
    <3>1. IsFiniteSet(H) /\ Cardinality(H) \in Nat
      BY <2>2
    <3> HIDE DEF H
    <3>2. /\ IsFiniteSet(H \cup {ip})
          /\ Cardinality(H \cup {ip}) <= Cardinality(H) + 1
      <4>1. /\ IsFiniteSet(H \cup {ip})
            /\ \/ Cardinality(H \cup {ip}) = Cardinality(H)
               \/ Cardinality(H \cup {ip}) = Cardinality(H) + 1
        BY <3>1, FS_AddElement
      <4> QED BY <3>1, <4>1
    <3> QED BY <3>2 DEF H
  <2>4. Cardinality(Held(room) \cup {ip}) \in Nat /\ Cardinality(Held(d)) \in Nat
    BY <2>3, FS_CardinalityType, EntriesCount
  <2>5. Cardinality(Held(d)) <= Cardinality(Held(room) \cup {ip})
    BY <2>1, <2>3, FS_Subset
  <2> QED BY <1>5, <1>7, <2>2, <2>3, <2>4, <2>5
<1>12. \A j \in Held(d) : \/ j = ip /\ d[j].name = name /\ d[j].age = 0
                          \/ j \in Held(c) /\ d[j] = c[j]
  BY <1>7, <1>10
<1> QED BY <1>1, <1>9, <1>11, <1>12

(* The caches on the way through the addresses of an answer exist.         *)
Noted(d, c, ips, name, n) ==
    d = [i \in 0..n |-> IF i = 0 THEN c ELSE Note(d[i - 1], ips[i], name)]

LEMMA NotedExists ==
    ASSUME NEW c, NEW ips, NEW name, NEW n \in Nat
    PROVE  \E d : Noted(d, c, ips, name, n)
<1> DEFINE S == {i \in 0..n : \E d : Noted(d, c, ips, name, i)}
<1>1. 0 \in S
  <2> DEFINE d == [i \in 0..0 |-> c]
  <2>1. d = [i \in 0..0 |-> IF i = 0 THEN c ELSE Note(d[i - 1], ips[i], name)]
    OBVIOUS
  <2> HIDE DEF d
  <2>2. Noted(d, c, ips, name, 0)
    BY <2>1 DEF Noted
  <2> QED BY <2>2
<1>2. ASSUME NEW i \in 0..n, i \in S, i < n
      PROVE  i + 1 \in S
  <2>1. PICK d : Noted(d, c, ips, name, i)
    BY <1>2
  <2> DEFINE b == [j \in 0..(i + 1) |-> IF j = 0 THEN c ELSE Note(d[j - 1], ips[j], name)]
  <2>2. \A j \in 0..i : b[j] = d[j]
    BY <2>1 DEF Noted
  <2>3. \A j \in 0..(i + 1) : j # 0 => j - 1 \in 0..i
    OBVIOUS
  <2>4. b = [j \in 0..(i + 1) |-> IF j = 0 THEN c ELSE Note(b[j - 1], ips[j], name)]
    BY <2>2, <2>3
  <2> HIDE DEF b
  <2>5. Noted(b, c, ips, name, i + 1)
    BY <2>4 DEF Noted
  <2>6. i + 1 \in 0..n
    BY <1>2
  <2> QED BY <2>5, <2>6
<1> HIDE DEF S
<1>3. n \in S
  BY <1>1, <1>2, Inductive
<1> QED BY <1>3 DEF S

(* What noting them all does.                                              *)
LEMMA NoteAllIs ==
    ASSUME DnsAssumption, NEW c \in Cache, Cardinality(Held(c)) <= CacheMax,
           NEW ips \in Seq(Ips), NEW name \in Names
    PROVE  /\ NoteAll(c, ips, name) \in Cache
           /\ \A j \in Held(NoteAll(c, ips, name)) :
                 \/ /\ j \in Range(ips)
                    /\ NoteAll(c, ips, name)[j].name = name /\ NoteAll(c, ips, name)[j].age = 0
                 \/ j \in Held(c) /\ NoteAll(c, ips, name)[j] = c[j]
           /\ Cardinality(Held(NoteAll(c, ips, name))) <= CacheMax
<1> DEFINE n == Len(ips)
           d == CHOOSE b : Noted(b, c, ips, name, n)
           Good(b) == /\ b \in Cache
                      /\ \A j \in Held(b) : \/ j \in Range(ips) /\ b[j].name = name /\ b[j].age = 0
                                            \/ j \in Held(c) /\ b[j] = c[j]
                      /\ Cardinality(Held(b)) <= CacheMax
           S == {i \in 0..n : Good(d[i])}
<1>1. NoteAll(c, ips, name) = d[n]
  BY DEF NoteAll, Noted
<1>2. n \in Nat
  OBVIOUS
<1>3. Noted(d, c, ips, name, n)
  BY <1>2, NotedExists
<1> HIDE DEF d
<1>4. /\ d[0] = c
      /\ \A i \in 0..n : i < n => d[i + 1] = Note(d[i], ips[i + 1], name)
  <2>1. d = [i \in 0..n |-> IF i = 0 THEN c ELSE Note(d[i - 1], ips[i], name)]
    BY <1>3 DEF Noted
  <2>2. \A i \in 0..n : d[i] = IF i = 0 THEN c ELSE Note(d[i - 1], ips[i], name)
    BY <2>1
  <2>3. 0 \in 0..n
    BY <1>2
  <2>4. \A i \in 0..n : i < n => i + 1 \in 0..n /\ i + 1 # 0 /\ (i + 1) - 1 = i
    BY <1>2
  <2> HIDE DEF n
  <2> QED BY <2>2, <2>3, <2>4
<1>5. \A i \in 0..n : i < n => ips[i + 1] \in Ips /\ ips[i + 1] \in Range(ips)
  BY DEF Range
<1> HIDE DEF n
<1>6. 0 \in S
  BY <1>2, <1>4
<1>7. ASSUME NEW i \in 0..n, i \in S, i < n
      PROVE  i + 1 \in S
  <2>1. i + 1 \in 0..n
    BY <1>2, <1>7
  <2>2. /\ d[i + 1] \in Cache /\ Cardinality(Held(d[i + 1])) <= CacheMax
        /\ \A j \in Held(d[i + 1]) :
              \/ j = ips[i + 1] /\ d[i + 1][j].name = name /\ d[i + 1][j].age = 0
              \/ j \in Held(d[i]) /\ d[i + 1][j] = d[i][j]
    <3>1. d[i] \in Cache /\ ips[i + 1] \in Ips /\ d[i + 1] = Note(d[i], ips[i + 1], name)
      BY <1>4, <1>5, <1>7
    <3> DEFINE a == d[i]  x == ips[i + 1]
    <3>2. /\ Note(a, x, name) \in Cache /\ Cardinality(Held(Note(a, x, name))) <= CacheMax
          /\ \A j \in Held(Note(a, x, name)) :
                \/ j = x /\ Note(a, x, name)[j].name = name /\ Note(a, x, name)[j].age = 0
                \/ j \in Held(a) /\ Note(a, x, name)[j] = a[j]
      <4>1. a \in Cache /\ x \in Ips
        BY <3>1
      <4> HIDE DEF a, x
      <4> QED BY <4>1, NoteIs, Zenon
    <3>3. d[i + 1] = Note(a, x, name)
      BY <3>1
    <3> QED BY <3>2, <3>3, Zenon
  <2>3. Good(d[i + 1])
    BY <1>5, <1>7, <2>2
  <2> QED BY <2>1, <2>3
<1>8. n \in S
  <2> HIDE DEF S
  <2> QED BY <1>2, <1>6, <1>7, Inductive
<1> QED BY <1>1, <1>8

(***************************************************************************)
(* Records, sockets and queries.                                           *)
(***************************************************************************)

Pend == [query : Queries, age : Nat]

LEMMA RecordsDiffer == /\ \A r \in Pend : r # Free
                       /\ \A r \in Entry : r # NoEntry
                       /\ \A r \in Reply : r # Nothing /\ r # Error
                       /\ Nothing # Error
<1>1. /\ \A r \in Pend : "age" \in DOMAIN r
      /\ \A r \in Entry : "age" \in DOMAIN r
      /\ "age" \notin DOMAIN Free /\ "age" \notin DOMAIN NoEntry
  BY DEF Pend, Entry, Free, NoEntry
<1>2. \A r \in Reply : r.what = "reply"
  BY DEF Reply
<1>3. Nothing.what = "nothing" /\ Error.what = "error"
  BY DEF Nothing, Error
<1> QED BY <1>1, <1>2, <1>3

LEMMA OlderIs == /\ \A r \in Pend : /\ Older(r) \in Pend
                                    /\ Older(r).query = r.query /\ Older(r).age = r.age + 1
                 /\ \A r \in Entry : /\ Older(r) \in Entry
                                     /\ Older(r).name = r.name /\ Older(r).age = r.age + 1
<1>1. ASSUME NEW r \in Pend
      PROVE  Older(r) \in Pend /\ Older(r).query = r.query /\ Older(r).age = r.age + 1
  BY DEF Older, Pend
<1>2. ASSUME NEW r \in Entry
      PROVE  Older(r) \in Entry /\ Older(r).name = r.name /\ Older(r).age = r.age + 1
  BY DEF Older, Entry
<1> QED BY <1>1, <1>2

(* The socket of a query that is taken.                                    *)
LEMMA FreeSocket ==
    ASSUME DnsAssumption, TypeOK, HasRoom
    PROVE  Min(Fds \ Open) \in Fds \ Open
<1>1. Open \subseteq Fds /\ IsFiniteSet(Fds) /\ Fds \subseteq Nat
  BY DEF Open, DnsAssumption
<1>2. Fds \ Open # {}
  <2>1. IsFiniteSet(Open) /\ Cardinality(Open) \in Nat /\ Cardinality(Fds) \in Nat
    BY <1>1, FS_Subset, FS_CardinalityType
  <2>2. MaxPending <= Cardinality(Fds) /\ MaxPending \in Nat
    BY <2>1 DEF DnsAssumption
  <2>3. Open # Fds
    BY <2>1, <2>2 DEF HasRoom
  <2> QED BY <1>1, <2>3
<1> DEFINE S == Fds \ Open
<1>3. S \subseteq Nat /\ S # {}
  BY <1>1, <1>2
<1> HIDE DEF S
<1>4. \E x \in S : \A y \in S : x <= y
  BY <1>3, Leasts
<1>5. Min(S) \in S
  BY <1>4 DEF Min
<1> QED BY <1>5 DEF S

LEMMA TakenIs ==
    ASSUME TypeOK, Taken
    PROVE  /\ query = sock[1] /\ 1 \in DOMAIN sock /\ query \in Queries
           /\ sock' \in Seq(Queries)
           /\ \A i \in DOMAIN sock' : i + 1 \in DOMAIN sock /\ sock'[i] = sock[i + 1] /\ 1 # i + 1
           /\ \A i, j \in DOMAIN sock' : i + 1 = j + 1 => i = j
<1>1. sock \in Seq(Queries) /\ sock # <<>> /\ sock' = Tail(sock) /\ Len(sock) \in Nat
  BY DEF TypeOK, Taken
<1>2. /\ sock' \in Seq(Queries) /\ Len(sock') = Len(sock) - 1 /\ Len(sock) > 0
      /\ \A i \in 1..(Len(sock) - 1) : sock'[i] = sock[i + 1]
      /\ Head(sock) = sock[1] /\ sock[1] \in Queries
  BY <1>1
<1>3. DOMAIN sock = 1..Len(sock) /\ DOMAIN sock' = 1..(Len(sock) - 1)
  BY <1>1, <1>2
<1> QED BY <1>2, <1>3 DEF query

(***************************************************************************)
(* The types.                                                              *)
(***************************************************************************)

Lists == [deny : SUBSET (Names \cup Ips), allow : SUBSET (Names \cup Ips)]
Told == Seq({Refused} \cup SUBSET Ips)

LEMMA TypeIs ==
    TypeOK <=> /\ lists \in Lists /\ edits \in 0..MaxEdits
               /\ asked \in Seq(Names) /\ sock \in Seq(Queries)
               /\ phase \in {"wait", "batch", "serve", "tidy"}
               /\ batch \subseteq Fds \cup {Sock}
               /\ pending \in [Fds -> Pend \cup {Free}]
               /\ upstream \in [Fds -> {Nothing, Error} \cup Reply]
               /\ cache \in Cache
               /\ sinceSweep \in Nat
               /\ answers \in [Queries -> Told]
               /\ resolved \subseteq Ips \X Names
BY DEF TypeOK, Lists, Pend, Cache, Entry, Told

(* What an open socket is.                                                 *)
LEMMA OpenIs ==
    ASSUME TypeOK
    PROVE  /\ Open \subseteq Fds
           /\ \A fd \in Open : pending[fd] \in Pend /\ pending[fd].query \in Queries
BY DEF TypeOK, Open, Pend

(* What an answer from upstream does.                                      *)
LEMMA ReplyIs ==
    ASSUME DnsAssumption, TypeOK, QueryInv, BatchInv, CacheIsTrue,
           NEW fd \in Fds, OnUpstreamReply(fd)
    PROVE  LET n == pending[fd].query
               ips == upstream[fd].ips
           IN /\ phase = "batch" /\ fd \in Open /\ Done(fd)
              /\ n \in Queries /\ n \in DOMAIN asked /\ asked[n] \in Names
              /\ pending' = [pending EXCEPT ![fd] = Free]
              /\ upstream' = [upstream EXCEPT ![fd] = Nothing]
              /\ UNCHANGED <<listVars, clientVars, sinceSweep, resolved>>
              /\ \/ UNCHANGED <<answers, cache>>
                 \/ /\ upstream[fd] \in Reply /\ ips \subseteq Ips
                    /\ Answer(ips) \in {Refused, ips}
                    /\ answers' = [answers EXCEPT ![n] = Append(answers[n], Answer(ips))]
                    /\ cache' \in Cache /\ Cardinality(Held(cache')) <= CacheMax
                    /\ \A j \in Held(cache') :
                          \/ j \in ips /\ cache'[j].name = asked[n] /\ cache'[j].age = 0
                          \/ j \in Held(cache) /\ cache'[j] = cache[j]
<1> DEFINE n == pending[fd].query
           ips == upstream[fd].ips
<1>1. /\ phase = "batch" /\ fd \in batch /\ Done(fd)
      /\ pending' = [pending EXCEPT ![fd] = Free]
      /\ upstream' = [upstream EXCEPT ![fd] = Nothing]
      /\ UNCHANGED <<listVars, clientVars, sinceSweep, resolved>>
  BY DEF OnUpstreamReply
<1>2. fd \in Open /\ upstream[fd] # Nothing
  <2>1. fd # Sock
    BY DEF DnsAssumption
  <2> QED BY <1>1, <2>1 DEF BatchInv
<1>3. n \in Queries /\ n \in DOMAIN asked /\ asked[n] \in Names
  BY <1>2, OpenIs, SMTT(20) DEF QueryInv, TypeOK
<1>4. CASE upstream[fd] = Error
  <2>1. UNCHANGED <<answers, cache>>
    BY <1>4 DEF OnUpstreamReply
  <2> QED BY <1>1, <1>2, <1>3, <2>1
<1>5. CASE upstream[fd] # Error
  <2>1. upstream[fd] \in Reply /\ ips \in SUBSET Ips
    BY <1>2, <1>5 DEF TypeOK, Reply
  <2>2. /\ answers' = [answers EXCEPT ![n] = Append(answers[n], Answer(ips))]
        /\ \E order \in SetToSeqs(ips) : cache' = NoteAll(cache, order, asked[n])
    BY <1>5 DEF OnUpstreamReply
  <2>3. PICK order \in SetToSeqs(ips) : cache' = NoteAll(cache, order, asked[n])
    BY <2>2
  <2>4. order \in Seq(Ips) /\ Range(order) \subseteq ips
    <3>1. Cardinality(ips) \in Nat
      BY <2>1, FS_Subset, FS_CardinalityType DEF DnsAssumption
    <3>2. order \in [1..Cardinality(ips) -> ips]
      BY <2>3 DEF SetToSeqs
    <3>3. order \in Seq(Ips)
      BY <2>1, <3>1, <3>2
    <3> QED BY <3>2, <3>3 DEF Range
  <2>5. cache \in Cache /\ Cardinality(Held(cache)) <= CacheMax
    BY TypeIs DEF CacheIsTrue, Held
  <2> HIDE DEF ips, n
  <2>6. /\ cache' \in Cache /\ Cardinality(Held(cache')) <= CacheMax
        /\ \A j \in Held(cache') :
              \/ j \in ips /\ cache'[j].name = asked[n] /\ cache'[j].age = 0
              \/ j \in Held(cache) /\ cache'[j] = cache[j]
    BY <1>3, <2>3, <2>4, <2>5, NoteAllIs
  <2>7. Answer(ips) \in {Refused, ips}
    BY DEF Answer
  <2> QED BY <1>1, <1>2, <1>3, <2>1, <2>2, <2>6, <2>7 DEF ips, n
<1> QED BY <1>4, <1>5

LEMMA TypeKept ==
    ASSUME DnsAssumption, TypeOK, QueryInv, BatchInv, CacheIsTrue, Next
    PROVE  TypeOK'
<1> USE DEF listVars, clientVars
<1>1. ASSUME NEW name \in Names, Ask(name)
      PROVE  TypeOK'
  <2>1. /\ asked \in Seq(Names) /\ sock \in Seq(Queries) /\ Len(asked) \in Nat
        /\ MaxQueries \in Nat
    BY DEF TypeOK, DnsAssumption
  <2>2. Len(asked) + 1 \in Queries
    BY <1>1, <2>1 DEF Ask, Queries
  <2>3. asked' \in Seq(Names) /\ sock' \in Seq(Queries)
    BY <1>1, <2>1, <2>2 DEF Ask
  <2> QED BY <1>1, <2>3 DEF Ask, TypeOK
<1>2. ASSUME NEW fd \in Fds, Resolve(fd)
      PROVE  TypeOK'
  <2>1. NameOf(fd) \in Names
    BY <1>2 DEF Resolve, NameOf, QueryInv, TypeOK
  <2>2. /\ UNCHANGED <<listVars, clientVars, phase, batch, pending, cache, sinceSweep, answers>>
        /\ \/ upstream' = [upstream EXCEPT ![fd] = Error] /\ resolved' = resolved
           \/ \E S \in SUBSET Ips :
                 /\ upstream' = [upstream EXCEPT ![fd] = [what |-> "reply", ips |-> S]]
                 /\ resolved' = resolved \cup (S \X {NameOf(fd)})
    BY <1>2 DEF Resolve
  <2>3. \A S \in SUBSET Ips : [what |-> "reply", ips |-> S] \in Reply
    BY DEF Reply
  <2>4. upstream' \in [Fds -> {Nothing, Error} \cup Reply]
    <3>1. upstream \in [Fds -> {Nothing, Error} \cup Reply]
      BY DEF TypeOK
    <3>2. \E v \in {Nothing, Error} \cup Reply : upstream' = [upstream EXCEPT ![fd] = v]
      BY <2>2, <2>3
    <3> QED BY <3>1, <3>2
  <2>5. resolved' \subseteq Ips \X Names
    BY <2>1, <2>2 DEF TypeOK
  <2> QED BY <2>2, <2>4, <2>5 DEF TypeOK
<1>3. ASSUME Edit
      PROVE  TypeOK'
  <2>1. edits' \in 0..MaxEdits
    BY <1>3 DEF Edit, TypeOK, DnsAssumption
  <2>2. lists' \in Lists
    <3>1. lists \in Lists
      BY TypeIs
    <3>2. ASSUME NEW x \in Names \cup Ips, Block(x) \/ Exclude(x) \/ Unblock(x)
          PROVE  lists' \in Lists
      BY <3>1, <3>2 DEF Lists, Block, Exclude, Unblock
    <3>3. CASE Reload
      <4>1. Feed \subseteq Names \cup Ips
        BY DEF DnsAssumption
      <4> QED BY <3>1, <3>3, <4>1 DEF Lists, Reload
    <3> QED BY <1>3, <3>2, <3>3 DEF Edit
  <2> QED BY <1>3, <2>1, <2>2 DEF Edit, TypeOK, Lists
<1>4. ASSUME Tick
      PROVE  TypeOK'
  <2>1. sinceSweep' \in Nat
    BY <1>4 DEF Tick, TypeOK
  <2>2. pending' \in [Fds -> Pend \cup {Free}]
    BY <1>4, OpenIs, OlderIs DEF Tick
  <2>3. cache' \in Cache
    BY <1>4, OlderIs, TypeIs DEF Tick, Cache
  <2>4. UNCHANGED <<listVars, clientVars, phase, batch, upstream, answers, resolved>>
    BY <1>4 DEF Tick
  <2> QED BY <2>1, <2>2, <2>3, <2>4 DEF TypeOK, Pend, Cache, Entry
<1>5. ASSUME EpollWait
      PROVE  TypeOK'
  <2>1. batch' \subseteq Fds \cup {Sock} /\ phase' \in {"tidy", "batch"}
    BY <1>5 DEF EpollWait, Open
  <2> QED BY <1>5, <2>1 DEF EpollWait, TypeOK
<1>6. ASSUME StartServing
      PROVE  TypeOK'
  BY <1>6 DEF StartServing, TypeOK
<1>7. ASSUME Refuse
      PROVE  TypeOK'
  <2>1. answers' = [answers EXCEPT ![query] = Append(answers[query], Refused)]
    BY <1>7 DEF Refuse
  <2>2. answers' \in [Queries -> Told]
    BY <1>7, <2>1, TakenIs, SMTT(20) DEF Refuse, TypeOK, Told
  <2>3. sock' \in Seq(Queries)
    BY <1>7, TakenIs DEF Refuse
  <2> QED BY <1>7, <2>2, <2>3 DEF Refuse, TypeOK, Told
<1>8. ASSUME Drop
      PROVE  TypeOK'
  <2>1. sock' \in Seq(Queries)
    BY <1>8, TakenIs DEF Drop
  <2> QED BY <1>8, <2>1 DEF Drop, TypeOK
<1>9. ASSUME Forward
      PROVE  TypeOK'
  <2> DEFINE fd == Min(Fds \ Open)
  <2>1. fd \in Fds \ Open /\ query \in Queries /\ sock' \in Seq(Queries)
    BY <1>9, FreeSocket, TakenIs DEF Forward
  <2>2. /\ pending' = [pending EXCEPT ![fd] = [query |-> query, age |-> 0]]
        /\ upstream' = [upstream EXCEPT ![fd] = Nothing]
        /\ UNCHANGED <<listVars, asked, phase, batch, cache, sinceSweep, answers, resolved>>
    BY <1>9 DEF Forward
  <2>3. [query |-> query, age |-> 0] \in Pend
    BY <2>1 DEF Pend, DnsAssumption
  <2> HIDE DEF fd
  <2>4. pending' \in [Fds -> Pend \cup {Free}] /\ upstream' \in [Fds -> {Nothing, Error} \cup Reply]
    BY <2>1, <2>2, <2>3 DEF TypeOK, Pend
  <2> QED BY <2>1, <2>2, <2>4 DEF TypeOK, Pend
<1>10. ASSUME ServedAll
       PROVE  TypeOK'
  BY <1>10 DEF ServedAll, Done, TypeOK
<1>11. ASSUME NEW fd \in Fds, OnUpstreamReply(fd)
       PROVE  TypeOK'
  <2> DEFINE n == pending[fd].query
             ips == upstream[fd].ips
  <2>1. /\ phase' \in {"tidy", "batch"} /\ batch' \subseteq batch
        /\ pending' = [pending EXCEPT ![fd] = Free]
        /\ upstream' = [upstream EXCEPT ![fd] = Nothing]
        /\ UNCHANGED <<listVars, clientVars, sinceSweep, resolved>>
        /\ n \in Queries
    BY <1>11, ReplyIs DEF Done
  <2>2. cache' \in Cache
    BY <1>11, ReplyIs, TypeIs
  <2>3. answers' \in [Queries -> Told]
    <3>1. \/ answers' = answers
          \/ /\ ips \subseteq Ips /\ Answer(ips) \in {Refused, ips}
             /\ answers' = [answers EXCEPT ![n] = Append(answers[n], Answer(ips))]
      BY <1>11, ReplyIs
    <3>2. answers \in [Queries -> Told]
      BY TypeIs
    <3> HIDE DEF n, ips
    <3>3. ASSUME ips \subseteq Ips, Answer(ips) \in {Refused, ips}
          PROVE  Append(answers[n], Answer(ips)) \in Told
      BY <2>1, <3>2, <3>3 DEF Told
    <3> QED BY <2>1, <3>1, <3>2, <3>3
  <2>4. pending' \in [Fds -> Pend \cup {Free}] /\ upstream' \in [Fds -> {Nothing, Error} \cup Reply]
    BY <2>1, TypeIs
  <2> QED BY <2>1, <2>2, <2>3, <2>4 DEF TypeOK, Pend, Cache, Entry, Told
<1>12. ASSUME Tidy
       PROVE  TypeOK'
  <2>1. CASE sinceSweep <= 1
    BY <1>12, <2>1 DEF Tidy, TypeOK
  <2>2. CASE ~(sinceSweep <= 1)
    <3>1. /\ sinceSweep' = 0
          /\ pending' = [fd \in Fds |-> IF Expired(fd) THEN Free ELSE pending[fd]]
          /\ upstream' = [fd \in Fds |-> IF Expired(fd) THEN Nothing ELSE upstream[fd]]
          /\ cache' = [ip \in Ips |-> IF TooOld(ip) THEN NoEntry ELSE cache[ip]]
          /\ UNCHANGED <<listVars, clientVars, batch, answers, resolved>>
          /\ phase' = "wait"
      BY <1>12, <2>2 DEF Tidy
    <3>2. pending' \in [Fds -> Pend \cup {Free}] /\ upstream' \in [Fds -> {Nothing, Error} \cup Reply]
      BY <3>1 DEF TypeOK, Pend
    <3>3. cache' \in Cache
      BY <3>1, TypeIs DEF Cache
    <3> QED BY <3>1, <3>2, <3>3, SMTT(20) DEF TypeOK, Pend, Cache, Entry
  <2> QED BY <2>1, <2>2
<1> QED BY <1>1, <1>2, <1>3, <1>4, <1>5, <1>6, <1>7, <1>8, <1>9, <1>10, <1>11, <1>12
        DEF Next, Loop, World

(***************************************************************************)
(* The queries.                                                            *)
(***************************************************************************)

(* No query is added, and the sockets that are left keep theirs.           *)
SockShrinks == \E k \in Nat : \A i \in DOMAIN sock' :
                  i \in Nat /\ i + k \in DOMAIN sock /\ sock'[i] = sock[i + k]
SocketsKept == /\ Open' \subseteq Open
               /\ \A fd \in Open' : pending'[fd].query = pending[fd].query

(* Only the queries of M are answered, and these are nowhere any more.     *)
AnsweredOnly(M) == /\ M \subseteq DOMAIN asked
                   /\ \A n \in Queries \ M : answers'[n] = answers[n]
                   /\ \A i \in DOMAIN sock' : sock'[i] \notin M
                   /\ \A fd \in Open' : pending[fd].query \notin M

LEMMA QueriesMove ==
    ASSUME TypeOK, QueryInv, asked' = asked, SockShrinks, SocketsKept,
           NEW M, AnsweredOnly(M)
    PROVE  QueryInv'
<1>1. PICK k \in Nat : \A i \in DOMAIN sock' :
                  i \in Nat /\ i + k \in DOMAIN sock /\ sock'[i] = sock[i + k]
  BY DEF SockShrinks
<1>2. \A i \in DOMAIN sock : sock[i] \in Queries
  BY DEF TypeOK
<1>3. \A fd \in Open : pending[fd].query \in Queries
  BY OpenIs
<1>4. \A i \in DOMAIN sock' : sock'[i] \in DOMAIN asked' /\ answers'[sock'[i]] = <<>>
  BY <1>1, <1>2 DEF QueryInv, AnsweredOnly
<1>5. \A i, j \in DOMAIN sock' : sock'[i] = sock'[j] => i = j
  <2> SUFFICES ASSUME NEW i \in DOMAIN sock', NEW j \in DOMAIN sock', sock'[i] = sock'[j]
               PROVE  i = j
    OBVIOUS
  <2>1. i + k = j + k
    BY <1>1 DEF QueryInv
  <2>2. i \in Nat /\ j \in Nat
    BY <1>1
  <2> QED BY <2>1, <2>2
<1>6. ASSUME NEW fd \in Open'
      PROVE  /\ pending'[fd].query \in DOMAIN asked' /\ answers'[pending'[fd].query] = <<>>
             /\ \A i \in DOMAIN sock' : sock'[i] # pending'[fd].query
             /\ \A g \in Open' : pending'[g].query = pending'[fd].query => g = fd
  <2>1. fd \in Open /\ pending'[fd].query = pending[fd].query
    BY <1>6 DEF SocketsKept
  <2>2. answers'[pending[fd].query] = answers[pending[fd].query]
    BY <1>3, <1>6, <2>1 DEF AnsweredOnly
  <2>3. \A i \in DOMAIN sock' : sock'[i] # pending[fd].query
    BY <1>1, <2>1 DEF QueryInv
  <2>4. \A g \in Open' : pending'[g].query = pending[fd].query => g = fd
    BY <2>1 DEF QueryInv, SocketsKept
  <2> QED BY <2>1, <2>2, <2>3, <2>4 DEF QueryInv
<1>7. \A n \in Queries \ DOMAIN asked' : answers'[n] = <<>>
  BY DEF QueryInv, AnsweredOnly
<1> QED BY <1>4, <1>5, <1>6, <1>7 DEF QueryInv

LEMMA SockSame ==
    ASSUME TypeOK, sock' = sock
    PROVE  SockShrinks
<1>1. \A i \in DOMAIN sock' : i \in Nat /\ i + 0 \in DOMAIN sock /\ sock'[i] = sock[i + 0]
  BY DEF TypeOK
<1> QED BY <1>1 DEF SockShrinks

LEMMA SockTail ==
    ASSUME TypeOK, QueryInv, Taken
    PROVE  SockShrinks /\ query \in DOMAIN asked /\ \A i \in DOMAIN sock' : sock'[i] # query
<1>1. /\ query = sock[1] /\ 1 \in DOMAIN sock
      /\ sock' \in Seq(Queries)
      /\ \A i \in DOMAIN sock' : i + 1 \in DOMAIN sock /\ sock'[i] = sock[i + 1] /\ 1 # i + 1
  BY TakenIs
<1>2. \A i \in DOMAIN sock' : i \in Nat
  BY <1>1
<1>3. SockShrinks
  BY <1>1, <1>2 DEF SockShrinks
<1> QED BY <1>1, <1>3 DEF QueryInv

(* The sockets after each kind of step.                                    *)
LEMMA PendingSame ==
    ASSUME pending' = pending
    PROVE  Open' = Open /\ SocketsKept
BY DEF Open, SocketsKept

LEMMA TickSockets ==
    ASSUME DnsAssumption, TypeOK, Tick
    PROVE  Open' = Open /\ SocketsKept
<1>1. /\ \A fd \in Open : /\ pending'[fd] # Free
                          /\ pending'[fd].query = pending[fd].query
      /\ \A fd \in Fds \ Open : pending'[fd] = Free
  BY OpenIs, OlderIs, RecordsDiffer DEF Tick
<1>2. Open' = Open
  BY <1>1 DEF Open
<1> QED BY <1>1, <1>2 DEF SocketsKept

LEMMA TidySockets ==
    ASSUME TypeOK, Tidy
    PROVE  /\ Open' \subseteq Open /\ SocketsKept
           /\ \A fd \in Open' : upstream'[fd] = upstream[fd]
<1>1. ASSUME pending' = pending, upstream' = upstream
      PROVE  /\ Open' \subseteq Open /\ SocketsKept
             /\ \A fd \in Open' : upstream'[fd] = upstream[fd]
  BY <1>1 DEF Open, SocketsKept
<1>2. ASSUME pending' = [fd \in Fds |-> IF Expired(fd) THEN Free ELSE pending[fd]],
             upstream' = [fd \in Fds |-> IF Expired(fd) THEN Nothing ELSE upstream[fd]]
      PROVE  /\ Open' \subseteq Open /\ SocketsKept
             /\ \A fd \in Open' : upstream'[fd] = upstream[fd]
  BY <1>2 DEF Open, SocketsKept
<1> QED BY <1>1, <1>2 DEF Tidy

LEMMA ForwardSockets ==
    ASSUME DnsAssumption, TypeOK, Forward
    PROVE  \E fd \in Fds \ Open :
              /\ Open' = Open \cup {fd}
              /\ pending'[fd].query = query /\ pending'[fd].age = 0 /\ upstream'[fd] = Nothing
              /\ \A g \in Open : pending'[g] = pending[g] /\ upstream'[g] = upstream[g]
<1> DEFINE fd == Min(Fds \ Open)
           r == [query |-> query, age |-> 0]
<1>1. fd \in Fds \ Open /\ query \in Queries
  BY FreeSocket, TakenIs DEF Forward
<1>2. r \in Pend /\ r.query = query /\ r.age = 0
  BY <1>1 DEF Pend
<1>3. pending' = [pending EXCEPT ![fd] = r] /\ upstream' = [upstream EXCEPT ![fd] = Nothing]
  BY DEF Forward
<1> HIDE DEF fd, r
<1>4. /\ pending'[fd] = r /\ upstream'[fd] = Nothing
      /\ \A g \in Fds : g # fd => pending'[g] = pending[g] /\ upstream'[g] = upstream[g]
  BY <1>1, <1>3 DEF TypeOK
<1>5. r # Free
  BY <1>2, RecordsDiffer
<1>6. Open' = Open \cup {fd}
  BY <1>1, <1>4, <1>5 DEF Open
<1> QED BY <1>1, <1>2, <1>4, <1>6, OpenIs

LEMMA ReplySockets ==
    ASSUME TypeOK, NEW fd \in Fds,
           pending' = [pending EXCEPT ![fd] = Free], upstream' = [upstream EXCEPT ![fd] = Nothing]
    PROVE  /\ Open' = Open \ {fd} /\ SocketsKept
           /\ \A g \in Open' : upstream'[g] = upstream[g]
BY DEF TypeOK, Open, SocketsKept

LEMMA QueryKept ==
    ASSUME DnsAssumption, TypeOK, QueryInv, BatchInv, CacheIsTrue, Next
    PROVE  QueryInv'
<1> USE DEF listVars, clientVars
<1>0. ASSUME UNCHANGED <<asked, sock, answers>>, SocketsKept
      PROVE  QueryInv'
  <2>1. AnsweredOnly({})
    BY <1>0 DEF AnsweredOnly
  <2> QED BY <1>0, <2>1, SockSame, QueriesMove
<1>1. ASSUME NEW name \in Names, Ask(name)
      PROVE  QueryInv'
  <2> DEFINE n == Len(asked) + 1
  <2>1. /\ asked' = Append(asked, name) /\ sock' = Append(sock, n)
        /\ UNCHANGED <<pending, answers>> /\ Len(asked) < MaxQueries
    BY <1>1 DEF Ask
  <2>2. asked \in Seq(Names) /\ sock \in Seq(Queries) /\ MaxQueries \in Nat
    BY DEF TypeOK, DnsAssumption
  <2>3. n \in Queries /\ n \notin DOMAIN asked /\ DOMAIN asked' = DOMAIN asked \cup {n}
    BY <2>1, <2>2 DEF Queries
  <2>4. /\ DOMAIN sock' = DOMAIN sock \cup {Len(sock) + 1} /\ sock'[Len(sock) + 1] = n
        /\ \A i \in DOMAIN sock : sock'[i] = sock[i]
    BY <2>2, <2>1, <2>3, AppendProperties
  <2>5. answers[n] = <<>>
    BY <2>3 DEF QueryInv
  <2>6. Open' = Open
    BY <2>1, PendingSame
  <2> HIDE DEF n
  <2>7. \A i \in DOMAIN sock : sock[i] # n
    BY <2>3 DEF QueryInv
  <2>8. \A fd \in Open : pending[fd].query # n
    BY <2>3 DEF QueryInv
  <2> QED BY <2>1, <2>3, <2>4, <2>5, <2>6, <2>7, <2>8, SMTT(20) DEF QueryInv
<1>2. ASSUME NEW fd \in Fds, Resolve(fd)
      PROVE  QueryInv'
  BY <1>0, <1>2, PendingSame DEF Resolve
<1>3. ASSUME Edit \/ EpollWait \/ StartServing \/ ServedAll
      PROVE  QueryInv'
  BY <1>0, <1>3, PendingSame DEF Edit, EpollWait, StartServing, ServedAll
<1>4. ASSUME Tick
      PROVE  QueryInv'
  BY <1>0, <1>4, TickSockets DEF Tick
<1>5. ASSUME Tidy
      PROVE  QueryInv'
  BY <1>0, <1>5, TidySockets DEF Tidy
<1>6. ASSUME Refuse
      PROVE  QueryInv'
  <2>1. /\ answers' = [answers EXCEPT ![query] = Append(@, Refused)]
        /\ asked' = asked /\ pending' = pending /\ Taken
    BY <1>6 DEF Refuse
  <2>2. /\ SockShrinks /\ query \in DOMAIN asked /\ \A i \in DOMAIN sock' : sock'[i] # query
        /\ query = sock[1] /\ 1 \in DOMAIN sock
    BY <2>1, SockTail, TakenIs
  <2>3. \A fd \in Open : pending[fd].query # query
    BY <2>2 DEF QueryInv
  <2>4. \A n \in Queries : n # query => answers'[n] = answers[n]
    BY <2>1 DEF TypeOK
  <2>5. AnsweredOnly({query})
    BY <2>1, <2>2, <2>3, <2>4, PendingSame DEF AnsweredOnly
  <2> QED BY <2>1, <2>2, <2>5, PendingSame, QueriesMove
<1>7. ASSUME Drop
      PROVE  QueryInv'
  <2>1. UNCHANGED <<asked, answers, pending>> /\ Taken
    BY <1>7 DEF Drop
  <2>2. AnsweredOnly({})
    BY <2>1 DEF AnsweredOnly
  <2> QED BY <2>1, <2>2, SockTail, PendingSame, QueriesMove
<1>8. ASSUME Forward
      PROVE  QueryInv'
  <2>1. UNCHANGED <<asked, answers>> /\ Taken
    BY <1>8 DEF Forward
  <2>2. /\ query = sock[1] /\ 1 \in DOMAIN sock /\ query \in DOMAIN asked
        /\ \A i \in DOMAIN sock' : sock'[i] # query
        /\ \A i \in DOMAIN sock' : i + 1 \in DOMAIN sock /\ sock'[i] = sock[i + 1]
        /\ \A i, j \in DOMAIN sock' : i + 1 = j + 1 => i = j
    BY <2>1, SockTail, TakenIs
  <2>3. PICK fd \in Fds \ Open :
              /\ Open' = Open \cup {fd}
              /\ pending'[fd].query = query
              /\ \A g \in Open : pending'[g] = pending[g]
    BY <1>8, ForwardSockets
  <2>4. /\ answers[query] = <<>>
        /\ \A g \in Open : pending[g].query # query
    BY <2>2 DEF QueryInv
  <2>5. \A i \in DOMAIN sock' : sock'[i] \in DOMAIN asked' /\ answers'[sock'[i]] = <<>>
    BY <2>1, <2>2 DEF QueryInv
  <2>6. \A i, j \in DOMAIN sock' : sock'[i] = sock'[j] => i = j
    BY <2>2 DEF QueryInv
  <2>7. \A g \in Open' :
          /\ pending'[g].query \in DOMAIN asked' /\ answers'[pending'[g].query] = <<>>
          /\ \A i \in DOMAIN sock' : sock'[i] # pending'[g].query
          /\ \A h \in Open' : pending'[h].query = pending'[g].query => h = g
    BY <2>1, <2>2, <2>3, <2>4 DEF QueryInv
  <2> QED BY <2>1, <2>5, <2>6, <2>7 DEF QueryInv
<1>9. ASSUME NEW fd \in Fds, OnUpstreamReply(fd)
      PROVE  QueryInv'
  <2> DEFINE n == pending[fd].query
  <2>1. /\ fd \in Open /\ n \in DOMAIN asked /\ UNCHANGED <<asked, sock>>
        /\ pending' = [pending EXCEPT ![fd] = Free]
        /\ upstream' = [upstream EXCEPT ![fd] = Nothing]
    BY <1>9, ReplyIs
  <2>2. \A m \in Queries : m # n => answers'[m] = answers[m]
    BY <1>9, ReplyIs, SMTT(20) DEF TypeOK
  <2>3. Open' = Open \ {fd} /\ SocketsKept
    BY <2>1, ReplySockets
  <2>4. AnsweredOnly({n})
    BY <2>1, <2>2, <2>3 DEF AnsweredOnly, QueryInv
  <2> QED BY <2>1, <2>3, <2>4, SockSame, QueriesMove
<1> QED BY <1>1, <1>2, <1>3, <1>4, <1>5, <1>6, <1>7, <1>8, <1>9 DEF Next, Loop, World

(***************************************************************************)
(* What the kernel reported, and the replies.                              *)
(***************************************************************************)

(* Sockets with something to read keep it while they stay.                 *)
LEMMA BatchKept ==
    ASSUME DnsAssumption, TypeOK, QueryInv, BatchInv, CacheIsTrue, Next
    PROVE  BatchInv'
<1> USE DEF listVars, clientVars
<1>0. ASSUME phase' = phase, batch' = batch, Open \subseteq Open',
             \A fd \in Open : upstream[fd] # Nothing => upstream'[fd] # Nothing
      PROVE  BatchInv'
  BY <1>0 DEF BatchInv
<1>1. ASSUME NEW name \in Names, Ask(name)
      PROVE  BatchInv'
  BY <1>0, <1>1, PendingSame DEF Ask
<1>2. ASSUME NEW fd \in Fds, Resolve(fd)
      PROVE  BatchInv'
  <2>1. /\ UNCHANGED <<phase, batch, pending>>
        /\ \/ upstream' = [upstream EXCEPT ![fd] = Error]
           \/ \E S \in SUBSET Ips : upstream' = [upstream EXCEPT ![fd] = [what |-> "reply", ips |-> S]]
    BY <1>2 DEF Resolve
  <2>2. \A S \in SUBSET Ips : [what |-> "reply", ips |-> S] \in Reply
    BY DEF Reply
  <2>3. \A g \in Open : upstream[g] # Nothing => upstream'[g] # Nothing
    BY <2>1, <2>2, RecordsDiffer, OpenIs DEF TypeOK
  <2> QED BY <1>0, <2>1, <2>3, PendingSame
<1>3. ASSUME Edit \/ Refuse \/ Drop
      PROVE  BatchInv'
  BY <1>0, <1>3, PendingSame DEF Edit, Refuse, Drop
<1>4. ASSUME Tick
      PROVE  BatchInv'
  BY <1>0, <1>4, TickSockets DEF Tick
<1>5. ASSUME EpollWait
      PROVE  BatchInv'
  <2>1. /\ batch' = {fd \in Open : upstream[fd] # Nothing} \cup {s \in {Sock} : sock # <<>>}
        /\ phase' = IF batch' = {} THEN "tidy" ELSE "batch"
        /\ UNCHANGED <<pending, upstream>>
    BY <1>5 DEF EpollWait
  <2>2. Open' = Open
    BY <2>1, PendingSame
  <2>3. /\ \A fd \in batch' \ {Sock} : fd \in Open' /\ upstream'[fd] # Nothing
        /\ phase' \in {"wait", "tidy"} => batch' = {}
        /\ phase' # "serve"
    BY <2>1, <2>2
  <2> QED BY <2>3 DEF BatchInv
<1>6. ASSUME StartServing
      PROVE  BatchInv'
  BY <1>6, PendingSame DEF StartServing, BatchInv
<1>7. ASSUME Forward
      PROVE  BatchInv'
  BY <1>0, <1>7, ForwardSockets DEF Forward
<1>8. ASSUME NEW e, Done(e), \A fd \in Open : fd # e => fd \in Open' /\ upstream'[fd] = upstream[fd]
      PROVE  BatchInv'
  BY <1>8 DEF Done, BatchInv
<1>9. ASSUME ServedAll
      PROVE  BatchInv'
  BY <1>8, <1>9, PendingSame DEF ServedAll
<1>10. ASSUME NEW fd \in Fds, OnUpstreamReply(fd)
       PROVE  BatchInv'
  <2>1. /\ Done(fd) /\ pending' = [pending EXCEPT ![fd] = Free]
        /\ upstream' = [upstream EXCEPT ![fd] = Nothing]
    BY <1>10, ReplyIs
  <2>2. Open' = Open \ {fd} /\ \A g \in Open' : upstream'[g] = upstream[g]
    BY <2>1, ReplySockets
  <2> QED BY <1>8, <2>1, <2>2
<1>11. ASSUME Tidy
       PROVE  BatchInv'
  BY <1>11 DEF Tidy, BatchInv
<1> QED BY <1>1, <1>2, <1>3, <1>4, <1>5, <1>6, <1>7, <1>9, <1>10, <1>11 DEF Next, Loop, World

LEMMA ReplyKept ==
    ASSUME DnsAssumption, TypeOK, QueryInv, BatchInv, ReplyInv, CacheIsTrue, Next
    PROVE  ReplyInv'
<1> USE DEF listVars, clientVars
<1>0. ASSUME SocketsKept, \A fd \in Open' : upstream'[fd] = upstream[fd],
             \A n \in DOMAIN asked : asked'[n] = asked[n], resolved \subseteq resolved'
      PROVE  ReplyInv'
  <2> SUFFICES ASSUME NEW fd \in Open', upstream'[fd] \in Reply
               PROVE  upstream'[fd].ips \X {asked'[pending'[fd].query]} \subseteq resolved'
    BY DEF ReplyInv, NameOf
  <2>1. fd \in Open /\ pending'[fd].query = pending[fd].query /\ upstream'[fd] = upstream[fd]
    BY <1>0 DEF SocketsKept
  <2>2. asked'[pending[fd].query] = asked[pending[fd].query]
    BY <1>0, <2>1 DEF QueryInv
  <2> QED BY <1>0, <2>1, <2>2 DEF ReplyInv, NameOf
<1>1. ASSUME NEW name \in Names, Ask(name)
      PROVE  ReplyInv'
  <2>1. \A n \in DOMAIN asked : asked'[n] = asked[n]
    BY <1>1 DEF Ask, TypeOK
  <2> QED BY <1>0, <1>1, <2>1, PendingSame DEF Ask
<1>2. ASSUME NEW fd \in Fds, Resolve(fd)
      PROVE  ReplyInv'
  <2>1. /\ UNCHANGED <<asked, pending>>
        /\ \/ upstream' = [upstream EXCEPT ![fd] = Error] /\ resolved' = resolved
           \/ \E S \in SUBSET Ips :
                 /\ upstream' = [upstream EXCEPT ![fd] = [what |-> "reply", ips |-> S]]
                 /\ resolved' = resolved \cup (S \X {NameOf(fd)})
    BY <1>2 DEF Resolve
  <2>2. \A g \in Open : g # fd => upstream'[g] = upstream[g]
    BY <2>1, OpenIs DEF TypeOK
  <2>3. upstream'[fd] \in Reply => upstream'[fd].ips \X {NameOf(fd)} \subseteq resolved'
    BY <2>1, RecordsDiffer DEF TypeOK
  <2>4. Open' = Open /\ resolved \subseteq resolved' /\ \A g \in Fds : NameOf(g)' = NameOf(g)
    BY <2>1 DEF Open, NameOf
  <2> QED BY <2>2, <2>3, <2>4, OpenIs DEF ReplyInv
<1>3. ASSUME Edit \/ EpollWait \/ StartServing \/ Refuse \/ Drop \/ ServedAll
      PROVE  ReplyInv'
  BY <1>0, <1>3, PendingSame DEF Edit, EpollWait, StartServing, Refuse, Drop, ServedAll
<1>4. ASSUME Tick
      PROVE  ReplyInv'
  BY <1>0, <1>4, TickSockets DEF Tick
<1>5. ASSUME Forward
      PROVE  ReplyInv'
  <2>1. PICK fd \in Fds \ Open :
              /\ Open' = Open \cup {fd} /\ upstream'[fd] = Nothing
              /\ \A g \in Open : pending'[g] = pending[g] /\ upstream'[g] = upstream[g]
    BY <1>5, ForwardSockets
  <2>2. UNCHANGED <<asked, resolved>>
    BY <1>5 DEF Forward
  <2>3. \A g \in Open : NameOf(g)' = NameOf(g)
    BY <2>1, <2>2 DEF NameOf
  <2> QED BY <2>1, <2>2, <2>3, RecordsDiffer DEF ReplyInv
<1>6. ASSUME NEW fd \in Fds, OnUpstreamReply(fd)
      PROVE  ReplyInv'
  <2>1. /\ UNCHANGED <<asked, resolved>> /\ pending' = [pending EXCEPT ![fd] = Free]
        /\ upstream' = [upstream EXCEPT ![fd] = Nothing]
    BY <1>6, ReplyIs
  <2> QED BY <1>0, <2>1, ReplySockets
<1>7. ASSUME Tidy
      PROVE  ReplyInv'
  BY <1>0, <1>7, TidySockets DEF Tidy
<1> QED BY <1>1, <1>2, <1>3, <1>4, <1>5, <1>6, <1>7 DEF Next, Loop, World

(***************************************************************************)
(* The answers and the cache.                                              *)
(***************************************************************************)

Own(told, name, known) ==
    /\ Len(told) <= 1
    /\ \A i \in DOMAIN told : told[i] # Refused => told[i] \X {name} \subseteq known

LEMMA FirstAnswer ==
    ASSUME NEW a, NEW name, NEW known, a # Refused => a \X {name} \subseteq known
    PROVE  Own(Append(<<>>, a), name, known)
<1>1. Append(<<>>, a) = <<a>>
  OBVIOUS
<1>2. Len(<<a>>) = 1 /\ DOMAIN <<a>> = {1} /\ <<a>>[1] = a
  OBVIOUS
<1> QED BY <1>1, <1>2 DEF Own

LEMMA AnswersKept ==
    ASSUME DnsAssumption, TypeOK, QueryInv, BatchInv, ReplyInv, AnswersAreOwn, CacheIsTrue, Next
    PROVE  AnswersAreOwn'
<1> USE DEF listVars, clientVars
<1>1. \A n \in DOMAIN asked : Own(answers[n], asked[n], resolved)
  BY DEF AnswersAreOwn, Own
<1>2. SUFFICES \A n \in DOMAIN asked' : Own(answers'[n], asked'[n], resolved')
  BY DEF AnswersAreOwn, Own
<1>3. ASSUME UNCHANGED <<asked, answers>>, resolved \subseteq resolved'
      PROVE  \A n \in DOMAIN asked' : Own(answers'[n], asked'[n], resolved')
  BY <1>1, <1>3 DEF Own
<1>4. ASSUME NEW name \in Names, Ask(name)
      PROVE  \A n \in DOMAIN asked' : Own(answers'[n], asked'[n], resolved')
  <2> DEFINE n == Len(asked) + 1
  <2>1. /\ asked' = Append(asked, name) /\ asked \in Seq(Names)
        /\ UNCHANGED <<answers, resolved>> /\ Len(asked) < MaxQueries /\ MaxQueries \in Nat
    BY <1>4 DEF Ask, TypeOK, DnsAssumption
  <2>2. /\ n \in Queries /\ n \notin DOMAIN asked /\ DOMAIN asked' = DOMAIN asked \cup {n}
        /\ \A m \in DOMAIN asked : asked'[m] = asked[m]
    BY <2>1 DEF Queries
  <2>3. answers'[n] = <<>>
    BY <2>1, <2>2 DEF QueryInv
  <2>4. Own(<<>>, asked'[n], resolved')
    BY DEF Own
  <2> HIDE DEF n
  <2> QED BY <1>1, <2>1, <2>2, <2>3, <2>4
<1>5. ASSUME NEW fd \in Fds, Resolve(fd)
      PROVE  \A n \in DOMAIN asked' : Own(answers'[n], asked'[n], resolved')
  BY <1>3, <1>5 DEF Resolve
<1>6. ASSUME \/ Edit \/ Tick \/ EpollWait \/ StartServing \/ Drop \/ Forward \/ ServedAll \/ Tidy
      PROVE  \A n \in DOMAIN asked' : Own(answers'[n], asked'[n], resolved')
  BY <1>3, <1>6 DEF Edit, Tick, EpollWait, StartServing, Drop, Forward, ServedAll, Tidy
<1>7. ASSUME NEW m \in Queries, NEW a, answers[m] = <<>>, UNCHANGED <<asked, resolved>>,
             answers' = [answers EXCEPT ![m] = Append(answers[m], a)],
             a # Refused => a \X {asked[m]} \subseteq resolved
      PROVE  \A n \in DOMAIN asked' : Own(answers'[n], asked'[n], resolved')
  <2>1. answers'[m] = Append(<<>>, a) /\ \A n \in Queries : n # m => answers'[n] = answers[n]
    BY <1>7 DEF TypeOK
  <2>2. \A n \in DOMAIN asked : n # m => answers'[n] = answers[n]
    BY <1>7 DEF TypeOK
  <2> QED BY <1>1, <1>7, <2>1, <2>2, FirstAnswer
<1>8. ASSUME Refuse
      PROVE  \A n \in DOMAIN asked' : Own(answers'[n], asked'[n], resolved')
  <2>1. query = sock[1] /\ 1 \in DOMAIN sock /\ query \in Queries
    BY <1>8, TakenIs DEF Refuse
  <2>2. answers[query] = <<>>
    BY <2>1 DEF QueryInv
  <2>3. /\ UNCHANGED <<asked, resolved>>
        /\ answers' = [answers EXCEPT ![query] = Append(answers[query], Refused)]
    BY <1>8 DEF Refuse
  <2> QED BY <1>7, <2>1, <2>2, <2>3
<1>9. ASSUME NEW fd \in Fds, OnUpstreamReply(fd)
      PROVE  \A n \in DOMAIN asked' : Own(answers'[n], asked'[n], resolved')
  <2> DEFINE m == pending[fd].query
             ips == upstream[fd].ips
  <2>1. /\ fd \in Open /\ m \in Queries /\ UNCHANGED <<asked, resolved>>
        /\ \/ answers' = answers
           \/ /\ upstream[fd] \in Reply /\ Answer(ips) \in {Refused, ips}
              /\ answers' = [answers EXCEPT ![m] = Append(answers[m], Answer(ips))]
    BY <1>9, ReplyIs
  <2>2. answers[m] = <<>>
    BY <2>1 DEF QueryInv
  <2>3. upstream[fd] \in Reply => ips \X {asked[m]} \subseteq resolved
    BY <2>1 DEF ReplyInv, NameOf
  <2> HIDE DEF m, ips
  <2> QED BY <1>3, <1>7, <2>1, <2>2, <2>3
<1> QED BY <1>4, <1>5, <1>6, <1>8, <1>9 DEF Next, Loop, World

True(c, known) == /\ \A ip \in Held(c) : <<ip, c[ip].name>> \in known
                  /\ Cardinality(Held(c)) <= CacheMax

LEMMA CacheKept ==
    ASSUME DnsAssumption, TypeOK, QueryInv, BatchInv, ReplyInv, CacheIsTrue, Next
    PROVE  CacheIsTrue'
<1> USE DEF listVars, clientVars
<1>1. True(cache, resolved)
  BY DEF CacheIsTrue, True, Held
<1>2. SUFFICES True(cache', resolved')
  BY DEF CacheIsTrue, True, Held
<1>3. ASSUME Held(cache') \subseteq Held(cache), \A ip \in Held(cache') : cache'[ip].name = cache[ip].name,
             resolved \subseteq resolved'
      PROVE  True(cache', resolved')
  <2>1. IsFiniteSet(Held(cache)) /\ Cardinality(Held(cache)) \in Nat /\ Cardinality(Held(cache')) \in Nat
    BY EntriesCount
  <2>2. Cardinality(Held(cache')) <= Cardinality(Held(cache))
    BY <1>3, <2>1, FS_Subset
  <2>3. Cardinality(Held(cache')) <= CacheMax
    BY <1>1, <2>1, <2>2 DEF True, DnsAssumption
  <2> QED BY <1>1, <1>3, <2>3 DEF True
<1>4. ASSUME cache' = cache, resolved \subseteq resolved'
      PROVE  True(cache', resolved')
  BY <1>3, <1>4
<1>5. ASSUME \/ \E name \in Names : Ask(name)
             \/ \E fd \in Fds : Resolve(fd)
             \/ Edit \/ EpollWait \/ StartServing \/ Refuse \/ Drop \/ Forward \/ ServedAll
      PROVE  True(cache', resolved')
  BY <1>4, <1>5 DEF Ask, Resolve, Edit, EpollWait, StartServing, Refuse, Drop, Forward, ServedAll
<1>6. ASSUME Tick
      PROVE  True(cache', resolved')
  <2>1. /\ cache' = [ip \in Ips |-> IF cache[ip] = NoEntry THEN NoEntry ELSE Older(cache[ip])]
        /\ resolved' = resolved
    BY <1>6 DEF Tick
  <2>2. \A ip \in Held(cache) : cache[ip] \in Entry
    BY TypeIs DEF Held, Cache
  <2>3. \A ip \in Held(cache') : ip \in Held(cache) /\ cache'[ip].name = cache[ip].name
    BY <2>1, <2>2, OlderIs DEF Held
  <2> QED BY <1>3, <2>1, <2>3
<1>7. ASSUME Tidy
      PROVE  True(cache', resolved')
  <2>1. /\ resolved' = resolved
        /\ \/ cache' = cache
           \/ cache' = [ip \in Ips |-> IF TooOld(ip) THEN NoEntry ELSE cache[ip]]
    BY <1>7 DEF Tidy
  <2>2. \A ip \in Held(cache') : ip \in Held(cache) /\ cache'[ip].name = cache[ip].name
    BY <2>1 DEF Held
  <2> QED BY <1>3, <2>1, <2>2
<1>8. ASSUME NEW fd \in Fds, OnUpstreamReply(fd)
      PROVE  True(cache', resolved')
  <2> DEFINE m == pending[fd].query
             ips == upstream[fd].ips
  <2>1. /\ fd \in Open /\ resolved' = resolved
        /\ \/ cache' = cache
           \/ /\ upstream[fd] \in Reply
              /\ Cardinality(Held(cache')) <= CacheMax
              /\ \A j \in Held(cache') :
                    \/ j \in ips /\ cache'[j].name = asked[m]
                    \/ j \in Held(cache) /\ cache'[j].name = cache[j].name
    BY <1>8, ReplyIs
  <2>2. upstream[fd] \in Reply => ips \X {asked[m]} \subseteq resolved
    BY <2>1 DEF ReplyInv, NameOf
  <2> HIDE DEF m, ips
  <2> QED BY <1>1, <1>4, <2>1, <2>2 DEF True
<1> QED BY <1>5, <1>6, <1>7, <1>8 DEF Next, Loop, World

(* How old things are.                                                     *)
LEMMA SweptKept ==
    ASSUME DnsAssumption, TypeOK, QueryInv, BatchInv, CacheIsTrue, SweptInTime, Next
    PROVE  SweptInTime'
<1>1. /\ sinceSweep \in Nat /\ Timeout \in Nat /\ CacheTtl \in Nat
      /\ \A fd \in Open : pending[fd] \in Pend /\ pending[fd].age <= Timeout + sinceSweep
      /\ \A ip \in Held(cache) : cache[ip] \in Entry /\ cache[ip].age <= CacheTtl + sinceSweep
  BY OpenIs, TypeIs DEF SweptInTime, DnsAssumption, Held, Cache
<1>2. SUFFICES /\ \A fd \in Open' : pending'[fd].age <= Timeout + sinceSweep'
               /\ \A ip \in Held(cache') : cache'[ip].age <= CacheTtl + sinceSweep'
  BY DEF SweptInTime, Held
<1>3. ASSUME \/ \E name \in Names : Ask(name)
             \/ \E fd \in Fds : Resolve(fd)
             \/ Edit \/ EpollWait \/ StartServing \/ Refuse \/ Drop \/ ServedAll
      PROVE  UNCHANGED <<pending, cache, sinceSweep>>
  BY <1>3 DEF Ask, Resolve, Edit, EpollWait, StartServing, Refuse, Drop, ServedAll
<1>4. CASE UNCHANGED <<pending, cache, sinceSweep>>
  BY <1>1, <1>4 DEF Open
<1>5. CASE Tick
  <2>1. /\ sinceSweep' = sinceSweep + 1
        /\ pending' = [fd \in Fds |-> IF fd \in Open THEN Older(pending[fd]) ELSE Free]
        /\ cache' = [ip \in Ips |-> IF cache[ip] = NoEntry THEN NoEntry ELSE Older(cache[ip])]
    BY <1>5 DEF Tick
  <2>2. \A fd \in Open' : fd \in Open /\ pending'[fd].age = pending[fd].age + 1 /\ pending[fd].age \in Nat
    BY <1>1, <2>1, OlderIs DEF Open, Pend
  <2>3. \A ip \in Held(cache') :
           ip \in Held(cache) /\ cache'[ip].age = cache[ip].age + 1 /\ cache[ip].age \in Nat
    BY <1>1, <2>1, OlderIs DEF Held, Entry
  <2> QED BY <1>1, <2>1, <2>2, <2>3
<1>6. CASE Tidy
  <2>1. CASE sinceSweep <= 1
    BY <1>4, <1>6, <2>1 DEF Tidy
  <2>2. CASE ~(sinceSweep <= 1)
    <3>1. /\ sinceSweep' = 0
          /\ pending' = [fd \in Fds |-> IF Expired(fd) THEN Free ELSE pending[fd]]
          /\ cache' = [ip \in Ips |-> IF TooOld(ip) THEN NoEntry ELSE cache[ip]]
      BY <1>6, <2>2 DEF Tidy
    <3>2. \A fd \in Open' : /\ fd \in Open /\ pending'[fd] = pending[fd]
                            /\ ~(pending[fd].age > Timeout)
      BY <3>1 DEF Open, Expired
    <3>3. \A ip \in Held(cache') : /\ ip \in Held(cache) /\ cache'[ip] = cache[ip]
                                   /\ ~(cache[ip].age > CacheTtl)
      BY <3>1 DEF Held, TooOld
    <3> QED BY <1>1, <3>1, <3>2, <3>3 DEF Pend, Entry
  <2> QED BY <2>1, <2>2
<1>7. CASE Forward
  <2>1. PICK fd \in Fds \ Open : /\ Open' = Open \cup {fd} /\ pending'[fd].age = 0
                                 /\ \A g \in Open : pending'[g] = pending[g]
    BY <1>7, ForwardSockets
  <2>2. cache' = cache /\ sinceSweep' = sinceSweep
    BY <1>7 DEF Forward
  <2> QED BY <1>1, <2>1, <2>2
<1>8. ASSUME NEW fd \in Fds, OnUpstreamReply(fd)
      PROVE  /\ \A g \in Open' : pending'[g].age <= Timeout + sinceSweep'
             /\ \A ip \in Held(cache') : cache'[ip].age <= CacheTtl + sinceSweep'
  <2>1. /\ pending' = [pending EXCEPT ![fd] = Free] /\ sinceSweep' = sinceSweep
        /\ \/ cache' = cache
           \/ \A j \in Held(cache') : \/ cache'[j].age = 0
                                      \/ j \in Held(cache) /\ cache'[j] = cache[j]
    BY <1>8, ReplyIs
  <2>2. \A g \in Open' : g \in Open /\ pending'[g] = pending[g]
    BY <2>1 DEF Open, TypeOK
  <2> QED BY <1>1, <2>1, <2>2
<1> QED BY <1>3, <1>4, <1>5, <1>6, <1>7, <1>8 DEF Next, Loop, World

(***************************************************************************)
(* The walk over the parents of a name.                                    *)
(***************************************************************************)

(* The last n labels of a name.                                            *)
Rest(d, n) == SubSeq(d, Len(d) - n + 1, Len(d))

Walked(w, list, d, n) ==
    w = [i \in 0..n |-> IF i = 0 \/ Rest(d, i) \in list THEN Rest(d, i) ELSE w[i - 1]]

LEMMA WalkExists ==
    ASSUME NEW list, NEW d, NEW n \in Nat
    PROVE  \E w : Walked(w, list, d, n)
<1> DEFINE S == {i \in 0..n : \E w : Walked(w, list, d, i)}
<1>1. 0 \in S
  <2> DEFINE w == [i \in 0..0 |-> Rest(d, i)]
  <2>1. w = [i \in 0..0 |-> IF i = 0 \/ Rest(d, i) \in list THEN Rest(d, i) ELSE w[i - 1]]
    OBVIOUS
  <2> HIDE DEF w
  <2>2. Walked(w, list, d, 0)
    BY <2>1 DEF Walked
  <2> QED BY <2>2
<1>2. ASSUME NEW i \in 0..n, i \in S, i < n
      PROVE  i + 1 \in S
  <2>1. PICK w : Walked(w, list, d, i)
    BY <1>2
  <2> DEFINE v == [j \in 0..(i + 1) |->
                      IF j = 0 \/ Rest(d, j) \in list THEN Rest(d, j) ELSE w[j - 1]]
  <2>2. \A j \in 0..i : v[j] = w[j]
    BY <2>1 DEF Walked
  <2>3. \A j \in 0..(i + 1) : j # 0 => j - 1 \in 0..i
    OBVIOUS
  <2>4. v = [j \in 0..(i + 1) |->
                IF j = 0 \/ Rest(d, j) \in list THEN Rest(d, j) ELSE v[j - 1]]
    BY <2>2, <2>3
  <2> HIDE DEF v
  <2>5. Walked(v, list, d, i + 1)
    BY <2>4 DEF Walked
  <2>6. i + 1 \in 0..n
    BY <1>2
  <2> QED BY <2>5, <2>6
<1> HIDE DEF S
<1>3. n \in S
  BY <1>1, <1>2, Inductive
<1> QED BY <1>3 DEF S

LEMMA RestIs ==
    ASSUME NEW d \in Seq(STRING), NEW n \in 0..Len(d)
    PROVE  /\ Rest(d, n) \in Seq(STRING) /\ Len(Rest(d, n)) = n /\ (n = 0 <=> Rest(d, n) = <<>>)
           /\ \A i \in 1..n : Rest(d, n)[i] = d[Len(d) - n + i]
<1> DEFINE m == Len(d) - n + 1
<1>1. Len(d) \in Nat /\ m \in 1..(Len(d) + 1) /\ Len(d) - m + 1 = n /\ n \in Nat
  OBVIOUS
<1>2. Rest(d, n) = SubSeq(d, m, Len(d))
  BY DEF Rest
<1> HIDE DEF m
<1>3. /\ SubSeq(d, m, Len(d)) \in Seq(STRING) /\ Len(SubSeq(d, m, Len(d))) = n
      /\ \A i \in 1..n : SubSeq(d, m, Len(d))[i] = d[m + i - 1]
  BY <1>1
<1>4. \A i \in 1..n : m + i - 1 = Len(d) - n + i
  BY <1>1
<1>5. \A i \in 1..n : Rest(d, n)[i] = d[Len(d) - n + i]
  BY <1>2, <1>3, <1>4
<1>6. Rest(d, n) \in Seq(STRING) /\ Len(Rest(d, n)) = n
  BY <1>2, <1>3
<1>7. n = 0 <=> Rest(d, n) = <<>>
  BY <1>6
<1> QED BY <1>5, <1>6, <1>7

(* The walk finds an entry when the name or what is above it is in the list. *)
LEMMA MatchedIs ==
    ASSUME NEW list, NEW d \in Seq(STRING)
    PROVE  Matched(list, d) # <<>> <=> \E k \in 1..Len(d) : Rest(d, k) \in list
<1> DEFINE n == Len(d)
           w == CHOOSE v : Walked(v, list, d, n)
           Found(i) == \E k \in 1..i : Rest(d, k) \in list
           S == {i \in 0..n : w[i] # <<>> <=> Found(i)}
<1>1. Matched(list, d) = w[n]
  BY DEF Matched, Walked, Rest
<1>2. n \in Nat
  OBVIOUS
<1>3. Walked(w, list, d, n)
  BY <1>2, WalkExists
<1> HIDE DEF w
<1>4. \A i \in 0..n : w[i] = IF i = 0 \/ Rest(d, i) \in list THEN Rest(d, i) ELSE w[i - 1]
  BY <1>3 DEF Walked
<1>5. \A i \in 0..n : i = 0 <=> Rest(d, i) = <<>>
  BY RestIs
<1> HIDE DEF n
<1>6. 0 \in S
  BY <1>2, <1>4, <1>5
<1>7. ASSUME NEW i \in 0..n, i \in S, i < n
      PROVE  i + 1 \in S
  <2>1. i + 1 \in 0..n /\ i + 1 # 0 /\ (i + 1) - 1 = i
    BY <1>2, <1>7
  <2>2. Found(i + 1) <=> Found(i) \/ Rest(d, i + 1) \in list
    <3>1. 1..(i + 1) = (1..i) \cup {i + 1}
      BY <1>7
    <3> QED BY <3>1
  <2>3. w[i + 1] = IF Rest(d, i + 1) \in list THEN Rest(d, i + 1) ELSE w[i]
    BY <1>4, <2>1
  <2>4. w[i] # <<>> <=> Found(i)
    BY <1>7
  <2>5. Rest(d, i + 1) # <<>>
    BY <1>5, <2>1
  <2> HIDE DEF Found
  <2>6. w[i + 1] # <<>> <=> Found(i + 1)
    BY <2>2, <2>3, <2>4, <2>5
  <2> QED BY <2>1, <2>6
<1> HIDE DEF S, Found
<1>8. \A i \in 0..n : i \in S /\ i < n => i + 1 \in S
  BY <1>7
<1>9. n \in S
  <2>1. 0..n \subseteq S
    BY <1>2, <1>6, <1>8, Inductive, Zenon
  <2> QED BY <1>2, <2>1
<1> QED BY <1>1, <1>9 DEF n, S, Found

LEMMA SuffixIs ==
    ASSUME NEW e \in Seq(STRING), NEW d \in Seq(STRING)
    PROVE  IsSuffix(e, d) <=> Len(e) <= Len(d) /\ e = Rest(d, Len(e))
<1> DEFINE m == Len(e)
           n == Len(d)
           p == Reverse(e)
           q == Reverse(d)
<1>1. /\ m \in Nat /\ n \in Nat /\ Len(p) = m /\ Len(q) = n
      /\ p \in Seq(STRING) /\ q \in Seq(STRING)
      /\ \A i \in 1..m : p[i] = e[m - i + 1]
      /\ \A i \in 1..n : q[i] = d[n - i + 1]
  BY DEF Reverse
<1>2. IsSuffix(e, d) <=> m <= n /\ SubSeq(p, 1, m) = SubSeq(q, 1, m)
  BY <1>1 DEF IsSuffix, IsPrefix
<1> SUFFICES ASSUME m <= n
             PROVE  SubSeq(p, 1, m) = SubSeq(q, 1, m) <=> e = Rest(d, m)
  BY <1>2
<1>3. DOMAIN e = 1..m
  OBVIOUS
<1>4. /\ Rest(d, m) \in Seq(STRING) /\ Len(Rest(d, m)) = m
      /\ \A i \in 1..m : Rest(d, m)[i] = d[n - m + i]
  <2>1. m \in 0..Len(d)
    BY <1>1
  <2> HIDE DEF m
  <2> QED BY <2>1, RestIs
<1>5. e = Rest(d, m) <=> \A i \in 1..m : e[i] = d[n - m + i]
  <2>1. e = Rest(d, m) <=> \A i \in 1..m : e[i] = Rest(d, m)[i]
    <3> HIDE DEF m
    <3> QED BY <1>3, <1>4
  <2> QED BY <2>1, <1>4
<1> HIDE DEF m, n, p, q
<1>6. SubSeq(p, 1, m) = SubSeq(q, 1, m) <=> \A i \in 1..m : p[i] = q[i]
  <2>1. /\ SubSeq(p, 1, m) = [i \in 1..m |-> p[i]]
        /\ SubSeq(q, 1, m) = [i \in 1..m |-> q[i]]
    <3>1. ASSUME NEW s \in Seq(STRING), NEW k \in 0..Len(s)
          PROVE  SubSeq(s, 1, k) = [i \in 1..k |-> s[i]]
      <4>1. /\ SubSeq(s, 1, k) \in Seq(STRING) /\ Len(SubSeq(s, 1, k)) = k
            /\ \A i \in 1..k : SubSeq(s, 1, k)[i] = s[i]
        OBVIOUS
      <4> QED BY <4>1
    <3> QED BY <1>1, <3>1
  <2> QED BY <2>1
<1>7. (\A i \in 1..m : p[i] = q[i]) <=> \A i \in 1..m : e[m - i + 1] = d[n - i + 1]
  <2>1. \A i \in 1..m : i \in 1..n
    BY <1>1
  <2>2. \A i \in 1..m : p[i] = e[m - i + 1] /\ q[i] = d[n - i + 1]
    BY <1>1, <2>1
  <2> QED BY <2>2
<1>8. (\A i \in 1..m : e[m - i + 1] = d[n - i + 1]) <=> \A i \in 1..m : e[i] = d[n - m + i]
  <2>1. ASSUME \A i \in 1..m : e[m - i + 1] = d[n - i + 1], NEW i \in 1..m
        PROVE  e[i] = d[n - m + i]
    <3>1. m - i + 1 \in 1..m /\ m - (m - i + 1) + 1 = i /\ n - (m - i + 1) + 1 = n - m + i
      BY <1>1
    <3> QED BY <2>1, <3>1
  <2>2. ASSUME \A i \in 1..m : e[i] = d[n - m + i], NEW i \in 1..m
        PROVE  e[m - i + 1] = d[n - i + 1]
    <3>1. m - i + 1 \in 1..m /\ n - m + (m - i + 1) = n - i + 1
      BY <1>1
    <3> QED BY <2>2, <3>1
  <2> QED BY <2>1, <2>2
<1> QED BY <1>5, <1>6, <1>7, <1>8

LEMMA UnderIs ==
    ASSUME NamesAssumption, NEW list \in SUBSET (Names \cup Ips), NEW d \in Names
    PROVE  Matched(list, d) # <<>> <=> Under(d, list)
<1>1. d \in Seq(STRING) /\ Len(d) \in Nat
  BY DEF NamesAssumption
<1>2. ASSUME NEW k \in 1..Len(d), Rest(d, k) \in list
      PROVE  Under(d, list)
  <2>1. Rest(d, k) \in Seq(STRING) /\ Len(Rest(d, k)) = k
    BY <1>1, RestIs
  <2>2. Rest(d, k) \in list \cap Names
    BY <1>2, <2>1 DEF NamesAssumption
  <2>3. IsSuffix(Rest(d, k), d)
    BY <1>1, <2>1, SuffixIs
  <2> QED BY <2>2, <2>3 DEF Under
<1>3. ASSUME NEW e \in list \cap Names, IsSuffix(e, d)
      PROVE  \E k \in 1..Len(d) : Rest(d, k) \in list
  <2>1. e \in Seq(STRING) /\ e # <<>>
    BY DEF NamesAssumption
  <2>2. Len(e) <= Len(d) /\ e = Rest(d, Len(e))
    BY <1>1, <1>3, <2>1, SuffixIs
  <2>3. Len(e) \in 1..Len(d)
    BY <1>1, <2>1, <2>2
  <2> QED BY <2>2, <2>3
<1> QED BY <1>1, <1>2, <1>3, MatchedIs DEF Under

LEMMA BlockedIs ==
    ASSUME NamesAssumption, TypeOK, NEW d \in Names
    PROVE  NameBlocked(d) <=> Under(d, lists.deny) /\ ~Under(d, lists.allow)
<1>1. lists.deny \in SUBSET (Names \cup Ips) /\ lists.allow \in SUBSET (Names \cup Ips)
  BY TypeIs DEF Lists
<1> QED BY <1>1, UnderIs DEF NameBlocked, DomainBlocked, DomainAllowed

(* Only a turn of on_client_query takes a query from sock_.                *)
LEMMA SettledStep ==
    ASSUME NamesAssumption, TypeOK, QueryInv, [Next]_vars, NEW n \in DOMAIN asked
    PROVE  Settled(n)
<1> USE DEF listVars, clientVars
<1> DEFINE denied == Under(asked[n], lists.deny) /\ ~Under(asked[n], lists.allow)
<1> SUFFICES ASSUME n \in Range(sock), n \notin Range(sock')
             PROVE  answers'[n] = IF denied THEN <<Refused>> ELSE <<>>
  BY DEF Settled
<1>1. sock' # sock
  OBVIOUS
<1>2. asked[n] \in Names /\ n \in Queries
  <2>1. PICK i \in DOMAIN sock : n = sock[i]
    BY DEF Range
  <2> QED BY <2>1 DEF TypeOK
<1>3. NameBlocked(asked[n]) <=> denied
  BY <1>2, BlockedIs
<1>4. answers[n] = <<>>
  BY DEF QueryInv, Range
<1>5. ASSUME NEW name \in Names, Ask(name)
      PROVE  FALSE
  <2>1. sock \in Seq(Queries) /\ sock' = Append(sock, Len(asked) + 1)
    BY <1>5 DEF Ask, TypeOK
  <2>2. Range(sock) \subseteq Range(sock')
    BY <2>1 DEF Range
  <2> QED BY <2>2
<1>6. ASSUME Taken
      PROVE  n = query
  <2>1. PICK i \in DOMAIN sock : n = sock[i]
    BY DEF Range
  <2>2. sock \in Seq(Queries) /\ sock # <<>> /\ sock' = Tail(sock)
    BY <1>6 DEF Taken, TypeOK
  <2>3. \A j \in DOMAIN sock : j # 1 => j - 1 \in DOMAIN sock' /\ sock'[j - 1] = sock[j]
    BY <2>2
  <2>4. i = 1
    BY <2>1, <2>3 DEF Range
  <2>5. query = sock[1]
    BY <2>2 DEF query
  <2> QED BY <2>1, <2>4, <2>5
<1>7. ASSUME Refuse
      PROVE  answers'[n] = IF denied THEN <<Refused>> ELSE <<>>
  <2>1. n = query /\ denied
    BY <1>3, <1>6, <1>7 DEF Refuse
  <2>2. answers' = [answers EXCEPT ![n] = Append(answers[n], Refused)]
    BY <1>7, <2>1 DEF Refuse
  <2>3. answers'[n] = Append(<<>>, Refused)
    BY <1>2, <1>4, <2>2 DEF TypeOK
  <2>4. Append(<<>>, Refused) = <<Refused>>
    OBVIOUS
  <2> QED BY <2>1, <2>3, <2>4
<1>8. ASSUME Drop \/ Forward
      PROVE  answers'[n] = IF denied THEN <<Refused>> ELSE <<>>
  <2>1. n = query /\ ~denied /\ answers' = answers
    BY <1>3, <1>6, <1>8 DEF Drop, Forward
  <2> QED BY <1>4, <2>1
<1>9. ASSUME \/ Edit \/ Tick \/ EpollWait \/ StartServing \/ ServedAll \/ Tidy
             \/ \E fd \in Fds : Resolve(fd) \/ OnUpstreamReply(fd)
      PROVE  FALSE
  BY <1>1, <1>9 DEF Edit, Tick, EpollWait, StartServing, ServedAll, Tidy, Resolve, OnUpstreamReply
<1>10. CASE UNCHANGED vars
  BY <1>1, <1>10 DEF vars
<1> QED BY <1>5, <1>7, <1>8, <1>9, <1>10 DEF Next, Loop, World

(***************************************************************************)
(* The theorems.                                                           *)
(***************************************************************************)

LEMMA InvHolds == DnsAssumption => (Spec => []DnsInv)
<1> SUFFICES ASSUME DnsAssumption
             PROVE  Spec => []DnsInv
  OBVIOUS
<1>1. Init => DnsInv
  <2> SUFFICES ASSUME Init
               PROVE  DnsInv
    OBVIOUS
  <2>1. /\ lists \in Lists /\ edits \in 0..MaxEdits /\ sinceSweep \in Nat
    BY DEF Init, DnsAssumption, Lists
  <2>2. /\ asked \in Seq(Names) /\ sock \in Seq(Queries) /\ DOMAIN sock = {} /\ DOMAIN asked = {}
        /\ answers \in [Queries -> Told] /\ resolved \subseteq Ips \X Names
        /\ pending \in [Fds -> Pend \cup {Free}]
        /\ upstream \in [Fds -> {Nothing, Error} \cup Reply]
        /\ cache \in Cache
    BY DEF Init, Told, Cache
  <2>3. TypeOK
    BY <2>1, <2>2, TypeIs DEF Init
  <2>4. Open = {} /\ Held(cache) = {}
    BY DEF Init, Open, Held
  <2>5. QueryInv /\ BatchInv /\ ReplyInv /\ AnswersAreOwn
    BY <2>2, <2>4 DEF Init, QueryInv, BatchInv, ReplyInv, AnswersAreOwn
  <2>6. CacheIsTrue
    BY <2>4, FS_EmptySet DEF CacheIsTrue, Held, DnsAssumption
  <2>7. SweptInTime
    BY <2>4 DEF SweptInTime, Held
  <2> QED BY <2>3, <2>5, <2>6, <2>7 DEF DnsInv
<1>2. DnsInv /\ [Next]_vars => DnsInv'
  <2> SUFFICES ASSUME DnsInv, [Next]_vars
               PROVE  DnsInv'
    OBVIOUS
  <2>1. CASE Next
    BY <2>1, TypeKept, QueryKept, BatchKept, ReplyKept, AnswersKept, CacheKept,
       SweptKept DEF DnsInv
  <2>2. CASE UNCHANGED vars
    <3> USE <2>2 DEF vars
    <3>1. TypeOK'
      BY DEF DnsInv, TypeOK
    <3>2. QueryInv' /\ BatchInv'
      BY PendingSame DEF DnsInv, QueryInv, BatchInv
    <3>3. ReplyInv'
      BY PendingSame DEF DnsInv, ReplyInv, NameOf
    <3>4. AnswersAreOwn' /\ CacheIsTrue'
      BY DEF DnsInv, AnswersAreOwn, CacheIsTrue
    <3>5. SweptInTime'
      BY DEF DnsInv, SweptInTime, Open
    <3> QED BY <3>1, <3>2, <3>3, <3>4, <3>5 DEF DnsInv
  <2> QED BY <2>1, <2>2
<1> QED BY <1>1, <1>2, PTL DEF Spec

(* Queries, sockets, answers and the cache stay in their domains.          *)
THEOREM TypeCorrect == Spec => []TypeOK
<1>1. DnsInv => TypeOK
  BY DEF DnsInv
<1> QED BY <1>1, DnsAssumption, InvHolds, PTL

(* A socket that epoll reported still belongs to a query when its turn     *)
(* comes, however many queries are answered and sent in between.           *)
THEOREM ReportedAreOpen == Spec => []BatchIsPending
<1>1. DnsInv => BatchIsPending
  BY DEF DnsInv, BatchInv, BatchIsPending
<1> QED BY <1>1, DnsAssumption, InvHolds, PTL

(* A client is answered at most once, and with addresses that came in on   *)
(* the socket of a query for its own name, however often the descriptors   *)
(* are used again.                                                         *)
THEOREM AnswersStayOwn == Spec => []AnswersAreOwn
<1>1. DnsInv => AnswersAreOwn
  BY DEF DnsInv
<1> QED BY <1>1, DnsAssumption, InvHolds, PTL

(* The cache has an address only under a name that it came in for, on the  *)
(* socket of a query for that name, and never more than CacheMax of them,  *)
(* however long the answers.                                               *)
THEOREM CacheStaysTrue == Spec => []CacheIsTrue
<1>1. DnsInv => CacheIsTrue
  BY DEF DnsInv
<1> QED BY <1>1, DnsAssumption, InvHolds, PTL

(* No query and no cache entry outlives its time by more than has passed   *)
(* since the last sweep: a sweep misses none, and what comes between two   *)
(* sweeps starts young.                                                    *)
THEOREM SweepsMissNothing == Spec => []SweptInTime
<1>1. DnsInv => SweptInTime
  BY DEF DnsInv
<1> QED BY <1>1, DnsAssumption, InvHolds, PTL

(* A query is refused before it is sent exactly when its name is at or     *)
(* below a denied one and at or below no allowed one, for names of any     *)
(* length: the walk over the parents finds every entry.                    *)
THEOREM WalkFindsAll == Spec => SubtreesFollow
<1>1. DnsInv /\ [Next]_vars => \A n \in DOMAIN asked : Settled(n)
  BY DnsAssumption, NamesAssumption, SettledStep DEF DnsInv
<1> QED BY <1>1, DnsAssumption, InvHolds, PTL DEF Spec, SubtreesFollow
=============================================================================
