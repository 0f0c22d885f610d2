-------------------------- MODULE IpcServerProofs --------------------------
(***************************************************************************)
(* The theorems about IpcServer: its outbox keeps the newest alerts, its   *)
(* count of subscribers is right, each subscriber's stream is exact, and   *)
(* every connection it ends, it ends for a cause.                          *)
(***************************************************************************)
EXTENDS IpcServer, SequenceTheorems, FiniteSetTheorems, WellFoundedInduction, TLAPS

(* What the broadcasts and the drain do not touch.                         *)
outboxVars == <<outbox, drained, alerts>>

LEMMA OthersLeaveIt ==
    ASSUME Next
    PROVE  Queue \/ Drain \/ UNCHANGED outboxVars
<1> USE DEF outboxVars, outVars
<1>1. CASE Loop
  <2>1. CASE EpollWait
    BY <2>1 DEF EpollWait
  <2>2. CASE Accept
    BY <2>2 DEF Accept
  <2>3. CASE TakeWake
    BY <2>3 DEF TakeWake
  <2>4. CASE Join
    BY <2>4 DEF Join
  <2>5. ASSUME NEW e, ClientEvent(e) PROVE UNCHANGED outboxVars
    BY <2>5 DEF ClientEvent, HupEvent, IoEvent, DeadEvent
  <2> QED BY <1>1, <2>1, <2>2, <2>3, <2>4, <2>5 DEF Loop
<1>2. CASE WakeLoop \/ Stop
  BY <1>2 DEF WakeLoop, Stop
<1>3. ASSUME NEW p \in Peers,
             Connect(p) \/ Send(p) \/ Shut(p) \/ Read(p) \/ HangUp(p)
      PROVE  UNCHANGED outboxVars
  BY <1>3 DEF Connect, Send, Shut, Read, HangUp
<1> QED BY <1>1, <1>2, <1>3 DEF Next

LEMMA MaxOfTwo ==
    ASSUME NEW a \in Int, NEW b \in Int
    PROVE  Max({a, b}) = IF a >= b THEN a ELSE b
<1> DEFINE m == IF a >= b THEN a ELSE b
<1>1. m \in {a, b} /\ \A y \in {a, b} : m >= y
  OBVIOUS
<1>2. \A x \in {a, b} : (\A y \in {a, b} : x >= y) => x = m
  OBVIOUS
<1> QED BY <1>1, <1>2 DEF Max

(* The trim removes the first alert of an outbox beyond its limit.         *)
LEMMA TrimmedOutbox ==
    ASSUME ServerAssumption, NEW q \in Seq(Nat), Len(q) <= OutboxMax + 1
    PROVE  Trimmed(q) = IF Len(q) = OutboxMax + 1 /\ q # <<>> THEN Tail(q) ELSE q
<1>1. Len(q) \in Nat /\ OutboxMax \in Nat
  BY DEF ServerAssumption
<1>2. Max({1, Len(q) - OutboxMax + 1}) = IF Len(q) = OutboxMax + 1 THEN 2 ELSE 1
  <2> DEFINE over == Len(q) - OutboxMax + 1
  <2>1. over \in Int /\ over <= 2
    BY <1>1
  <2>2. Max({1, over}) = IF 1 >= over THEN 1 ELSE over
    <3> HIDE DEF over
    <3> QED BY <2>1, MaxOfTwo
  <2>3. Max({1, over}) = IF Len(q) = OutboxMax + 1 THEN 2 ELSE 1
    BY <1>1, <2>1, <2>2
  <2> QED BY <2>3
<1>3. SubSeq(q, 1, Len(q)) = q
  BY SubSeqFull
<1>4. q # <<>> => SubSeq(q, 2, Len(q)) = Tail(q)
  BY TailIsSubSeq
<1>5. q # <<>> <=> Len(q) > 0
  BY EmptySeq
<1>6. CASE Len(q) = OutboxMax + 1
  BY <1>1, <1>2, <1>4, <1>5, <1>6 DEF Trimmed
<1>7. CASE Len(q) # OutboxMax + 1
  BY <1>1, <1>2, <1>3, <1>7 DEF Trimmed
<1> QED BY <1>6, <1>7

LEMMA QueueKeeps ==
    ASSUME ServerAssumption, OutboxInv, Queue
    PROVE  OutboxInv'
<1> DEFINE q == Trimmed(outbox)  L == Len(q)  O == Len(outbox)
<1>1. /\ alerts \in Nat /\ alerts' = alerts + 1 /\ OutboxMax \in Nat
      /\ outbox' = Append(q, alerts + 1) /\ drained' = drained
      /\ drained \in Seq(Nat) /\ DOMAIN drained = 1..Len(drained)
      /\ outbox \in Seq(Nat) /\ DOMAIN outbox = 1..O /\ O <= OutboxMax + 1 /\ O \in Nat
  BY DEF OutboxInv, Queue, ServerAssumption
<1>2. \A i \in 1..O : outbox[i] = alerts - O + i
  BY <1>1 DEF OutboxInv
<1>3. /\ q \in Seq(Nat) /\ L \in Nat /\ L <= OutboxMax
      /\ (L = O \/ (O = L + 1 /\ L = OutboxMax))
      /\ \A i \in 1..L : q[i] = outbox[i + (O - L)]
  <2>1. CASE O = OutboxMax + 1 /\ outbox # <<>>
    <3>1. q = Tail(outbox)
      BY <1>1, <2>1, TrimmedOutbox
    <3> QED BY <3>1, <2>1, <1>1
  <2>2. CASE ~(O = OutboxMax + 1 /\ outbox # <<>>)
    <3>1. q = outbox
      BY <1>1, <2>2, TrimmedOutbox
    <3>2. outbox = <<>> => O = 0
      OBVIOUS
    <3>3. L = O
      BY <3>1
    <3>4. O # OutboxMax + 1 \/ O = 0
      BY <3>2, <2>2
    <3>5. O <= OutboxMax
      <4>1. O \in Nat /\ OutboxMax \in Nat /\ O <= OutboxMax + 1
        BY <1>1
      <4> HIDE DEF O
      <4> QED BY <3>4, <4>1
    <3>6. \A i \in 1..L : i + (O - L) = i
      BY <3>3, <1>1
    <3> QED BY <3>1, <3>3, <3>5, <3>6, <1>1
  <2> QED BY <2>1, <2>2
<1> HIDE DEF q, L, O
<1>4. \A i \in 1..L : q[i] = alerts - L + i
  BY <1>1, <1>2, <1>3
<1>5. /\ outbox' \in Seq(Nat) /\ Len(outbox') = L + 1 /\ DOMAIN outbox' = 1..(L + 1)
      /\ \A i \in 1..L : outbox'[i] = q[i]
      /\ outbox'[L + 1] = alerts + 1
  BY <1>1, <1>3 DEF L
<1>6. \A i \in 1..(L + 1) : outbox'[i] = (alerts + 1) - (L + 1) + i
  <2>1. \A i \in 1..(L + 1) : i \in 1..L \/ i = L + 1
    BY <1>3
  <2>2. \A i \in 1..L : outbox'[i] = (alerts + 1) - (L + 1) + i
    <3> TAKE i \in 1..L
    <3>1. outbox'[i] = alerts - L + i
      BY <1>4, <1>5
    <3>2. i \in Nat /\ alerts \in Nat /\ L \in Nat
      BY <1>1, <1>3
    <3> QED BY <3>1, <3>2
  <2>3. outbox'[L + 1] = (alerts + 1) - (L + 1) + (L + 1)
    <3>1. alerts \in Nat /\ L \in Nat /\ outbox'[L + 1] = alerts + 1
      BY <1>1, <1>3, <1>5
    <3> QED BY <3>1
  <2> QED BY <2>1, <2>2, <2>3
<1>7. \A i \in 1..Len(drained) : drained[i] <= (alerts + 1) - (L + 1)
  <2>1. \A i \in 1..Len(drained) : drained[i] <= alerts - O /\ drained[i] \in Nat
    <3>1. \A i \in DOMAIN drained : drained[i] <= alerts - O
      BY DEF OutboxInv, O
    <3>2. \A i \in 1..Len(drained) : drained[i] \in Nat
      BY <1>1
    <3> QED BY <3>1, <3>2, <1>1
  <2>2. alerts - O <= (alerts + 1) - (L + 1)
    BY <1>1, <1>3
  <2> QED BY <2>1, <2>2, <1>1, <1>3, SMTT(20)
<1>8. \A n \in 1..((alerts + 1) - (L + 1)) :
         (alerts + 1) - n <= OutboxMax => \E i \in 1..Len(drained) : drained[i] = n
  <2>1. \A n \in 1..(alerts - O) :
           alerts - n <= OutboxMax => \E i \in 1..Len(drained) : drained[i] = n
    BY <1>1 DEF OutboxInv, O
  <2>2. \A n \in 1..((alerts + 1) - (L + 1)) : (alerts + 1) - n <= OutboxMax =>
           n \in 1..(alerts - O) /\ alerts - n <= OutboxMax
    <3>1. /\ alerts \in Nat /\ L \in Nat /\ O \in Nat /\ OutboxMax \in Nat
          /\ (L = O \/ (O = L + 1 /\ L = OutboxMax))
      BY <1>1, <1>3
    <3> QED BY <3>1
  <2> QED BY <2>1, <2>2
<1>9. \A i, j \in 1..Len(drained) : i < j => drained[i] < drained[j]
  BY <1>1 DEF OutboxInv
<1>10. alerts + 1 \in Nat /\ L + 1 <= OutboxMax + 1
  BY <1>1, <1>3, SMTT(20)
<1> QED BY <1>1, <1>5, <1>6, <1>7, <1>8, <1>9, <1>10 DEF OutboxInv

(* s is increasing and holds the newest of 1..a.                           *)
Newest(s, a, m) ==
    /\ s \in Seq(Nat)
    /\ \A i \in 1..Len(s) : s[i] <= a
    /\ \A i, j \in 1..Len(s) : i < j => s[i] < s[j]
    /\ \A n \in 1..a : a - n <= m => \E i \in 1..Len(s) : s[i] = n

(* A run o of consecutive numbers up to a, behind d, which is increasing.  *)
Behind(d, o, a, m) ==
    /\ \A i \in 1..Len(o) : o[i] = a - Len(o) + i
    /\ \A i \in 1..Len(d) : d[i] <= a - Len(o)
    /\ \A i, j \in 1..Len(d) : i < j => d[i] < d[j]
    /\ \A n \in 1..(a - Len(o)) : a - n <= m => \E i \in 1..Len(d) : d[i] = n

LEMMA Joined ==
    ASSUME NEW d \in Seq(Nat), NEW o \in Seq(Nat), NEW a \in Nat, NEW m \in Nat,
           Behind(d, o, a, m)
    PROVE  Newest(d \o o, a, m)
<1> DEFINE s == d \o o  D == Len(d)  O == Len(o)
<1>1. /\ s \in Seq(Nat) /\ Len(s) = D + O /\ D \in Nat /\ O \in Nat
      /\ \A i \in 1..D : s[i] = d[i] /\ d[i] \in Nat
      /\ \A i \in 1..O : s[D + i] = o[i]
  OBVIOUS
<1> HIDE DEF s, D, O
<1>2. /\ \A i \in 1..O : s[D + i] = a - O + i
      /\ \A i \in 1..D : s[i] <= a - O
      /\ \A i, j \in 1..D : i < j => s[i] < s[j]
      /\ \A n \in 1..(a - O) : a - n <= m => \E i \in 1..D : s[i] = n
  <2>1. /\ \A i \in 1..D : d[i] <= a - O
        /\ \A i, j \in 1..D : i < j => d[i] < d[j]
        /\ \A n \in 1..(a - O) : a - n <= m => \E i \in 1..D : d[i] = n
    BY DEF D, O, Behind
  <2>2. \A i \in 1..O : s[D + i] = a - O + i
    BY <1>1 DEF D, O, Behind
  <2> QED BY <1>1, <2>1, <2>2
<1>3. \A i \in 1..(D + O) : \/ i \in 1..D
                            \/ i - D \in 1..O /\ s[i] = a - O + (i - D)
  <2> TAKE i \in 1..(D + O)
  <2>1. CASE i <= D
    BY <2>1, <1>1
  <2>2. CASE i > D
    <3>1. i - D \in 1..O /\ D + (i - D) = i
      BY <2>2, <1>1
    <3>2. s[D + (i - D)] = a - O + (i - D)
      BY <3>1, <1>2
    <3> QED BY <3>1, <3>2
  <2> QED BY <2>1, <2>2, <1>1
<1>4. \A i \in 1..(D + O) : s[i] \in Nat
  BY <1>1
<1>5. \A i \in 1..(D + O) : s[i] <= a
  <2> TAKE i \in 1..(D + O)
  <2>1. CASE i \in 1..D
    BY <2>1, <1>1, <1>2, <1>4
  <2>2. CASE i - D \in 1..O /\ s[i] = a - O + (i - D)
    BY <2>2, <1>1
  <2> QED BY <2>1, <2>2, <1>3
<1>6. ASSUME NEW i \in 1..(D + O), NEW j \in 1..(D + O), i < j
      PROVE  s[i] < s[j]
  <2>1. CASE j \in 1..D
    BY <2>1, <1>1, <1>2, <1>6
  <2>2. CASE j \notin 1..D
    <3>1. j - D \in 1..O /\ s[j] = a - O + (j - D)
      BY <2>2, <1>3
    <3>2. CASE i \in 1..D
      BY <3>1, <3>2, <1>1, <1>2, <1>4, SMTT(20)
    <3>3. CASE i \notin 1..D
      <4>1. s[i] = a - O + (i - D)
        BY <3>3, <1>3
      <4> QED BY <4>1, <3>1, <1>1, <1>6
    <3> QED BY <3>2, <3>3
  <2> QED BY <2>1, <2>2
<1>7. ASSUME NEW n \in 1..a, a - n <= m
      PROVE  \E i \in 1..(D + O) : s[i] = n
  <2>1. CASE n <= a - O
    <3>1. n \in 1..(a - O)
      BY <2>1, <1>1
    <3>2. PICK i \in 1..D : s[i] = n
      BY <3>1, <1>2, <1>7
    <3> QED BY <3>2, <1>1
  <2>2. CASE n > a - O
    <3> DEFINE k == n - (a - O)
    <3>1. k \in 1..O /\ a - O + k = n /\ D + k \in 1..(D + O)
      BY <2>2, <1>1
    <3>2. s[D + k] = n
      BY <3>1, <1>2
    <3> QED BY <3>1, <3>2
  <2> QED BY <2>1, <2>2, <1>1
<1> QED BY <1>1, <1>5, <1>6, <1>7 DEF s, Newest

LEMMA KeptInOrder ==
    ASSUME ServerAssumption, OutboxInv
    PROVE  Newest(drained \o outbox, alerts, OutboxMax)
<1>1. /\ alerts \in Nat /\ outbox \in Seq(Nat) /\ drained \in Seq(Nat) /\ OutboxMax \in Nat
      /\ DOMAIN outbox = 1..Len(outbox) /\ DOMAIN drained = 1..Len(drained)
  BY DEF OutboxInv, ServerAssumption
<1>2. /\ \A i \in DOMAIN outbox : outbox[i] = alerts - Len(outbox) + i
      /\ \A i \in DOMAIN drained : drained[i] <= alerts - Len(outbox)
      /\ \A i, j \in DOMAIN drained : i < j => drained[i] < drained[j]
      /\ \A n \in 1..(alerts - Len(outbox)) :
            alerts - n <= OutboxMax => \E i \in DOMAIN drained : drained[i] = n
  BY DEF OutboxInv
<1>3. Behind(drained, outbox, alerts, OutboxMax)
  BY <1>1, <1>2, Zenon DEF Behind
<1> HIDE DEF OutboxInv
<1> QED BY <1>1, <1>3, Joined

LEMMA DrainKeeps ==
    ASSUME ServerAssumption, OutboxInv, Drain
    PROVE  OutboxInv'
<1>1. drained' = drained \o outbox /\ outbox' = <<>> /\ alerts' = alerts /\ OutboxMax \in Nat
  BY DEF Drain, ServerAssumption
<1>2. alerts \in Nat /\ drained' \in Seq(Nat) /\ DOMAIN drained' = 1..Len(drained')
  BY <1>1, KeptInOrder DEF Newest, OutboxInv
<1>3. Len(outbox') = 0 /\ alerts - 0 = alerts /\ DOMAIN outbox' = {} /\ outbox' \in Seq(Nat)
  BY <1>1, <1>2
<1>4. /\ \A i \in DOMAIN drained' : drained'[i] <= alerts' - Len(outbox')
      /\ \A i, j \in DOMAIN drained' : i < j => drained'[i] < drained'[j]
      /\ \A n \in 1..(alerts' - Len(outbox')) :
            alerts' - n <= OutboxMax => \E i \in DOMAIN drained' : drained'[i] = n
  BY <1>1, <1>2, <1>3, KeptInOrder DEF Newest
<1>5. \A i \in DOMAIN outbox' : outbox'[i] = alerts' - Len(outbox') + i
  BY <1>3
<1>6. Len(outbox') <= OutboxMax + 1 /\ alerts' \in Nat
  BY <1>1, <1>2, <1>3
<1> QED BY <1>2, <1>3, <1>4, <1>5, <1>6 DEF OutboxInv

LEMMA OutboxInvHolds == Spec => []OutboxInv
<1>1. ASSUME ServerAssumption, Init PROVE OutboxInv
  BY <1>1 DEF Init, OutboxInv, ServerAssumption
<1>2. ASSUME ServerAssumption, OutboxInv, [Next]_vars PROVE OutboxInv'
  <2>1. CASE UNCHANGED outboxVars
    BY <1>2, <2>1 DEF outboxVars, OutboxInv
  <2>2. CASE UNCHANGED vars
    BY <2>1, <2>2 DEF vars, outVars, outboxVars
  <2> QED BY <1>2, <2>1, <2>2, OthersLeaveIt, QueueKeeps, DrainKeeps
<1> QED BY <1>1, <1>2, ServerAssumption, PTL DEF Spec

(* The outbox loses nothing but alerts behind OutboxMax newer ones, and    *)
(* what it keeps leaves it in the order it came.                           *)
THEOREM NewestAreKept == Spec => []OutboxKeepsNewest
<1>1. ASSUME ServerAssumption, OutboxInv PROVE OutboxKeepsNewest
  <2> DEFINE kept == drained \o outbox
  <2>1. Len(outbox) <= OutboxMax + 1 /\ kept \in Seq(Nat) /\ DOMAIN kept = 1..Len(kept)
    BY <1>1, KeptInOrder DEF OutboxInv, Newest
  <2> QED BY <1>1, <2>1, KeptInOrder DEF OutboxKeepsNewest, Newest, Range
<1> QED BY <1>1, ServerAssumption, OutboxInvHolds, PTL

(***************************************************************************)
(* Induction, for a set of numbers, and the prefixes of a sequence.        *)
(***************************************************************************)

LEMMA Leasts ==
    ASSUME NEW S, S \subseteq Nat, S # {}
    PROVE  \E x \in S : \A y \in S : x <= y
<1>1. PICK x \in S : \A y \in S : <<y, x>> \notin OpToRel(<, Nat)
  BY NatLessThanWellFounded, WFMin, Zenon
<1>2. \A y \in S : ~(y < x)
  BY <1>1, Zenon DEF OpToRel
<1> QED BY <1>2

LEMMA Inductive ==
    ASSUME NEW n \in Nat, NEW S, 0 \in S,
           \A i \in 0..n : i \in S /\ i < n => i + 1 \in S
    PROVE  0..n \subseteq S
<1> SUFFICES ASSUME (0..n) \ S # {}
             PROVE  FALSE
  OBVIOUS
<1> DEFINE rest == (0..n) \ S
<1>1. PICK m \in rest : \A y \in rest : m <= y
  <2>1. rest \subseteq Nat /\ rest # {}
    OBVIOUS
  <2> HIDE DEF rest
  <2> QED BY <2>1, Leasts
<1>2. m # 0 /\ m - 1 \in 0..n /\ m - 1 < n /\ ~(m <= m - 1) /\ (m - 1) + 1 = m
  BY <1>1
<1>3. m - 1 \in S
  BY <1>1, <1>2
<1> QED BY <1>1, <1>2, <1>3

LEMMA OneMore ==
    ASSUME NEW T, NEW s \in Seq(T), NEW i \in 0..Len(s), i < Len(s)
    PROVE  /\ SubSeq(s, 1, i) \in Seq(T) /\ s[i + 1] \in T
           /\ SubSeq(s, 1, i + 1) = Append(SubSeq(s, 1, i), s[i + 1])
<1>1. /\ SubSeq(s, 1, i) \in Seq(T) /\ Len(SubSeq(s, 1, i)) = i
      /\ \A j \in 1..i : SubSeq(s, 1, i)[j] = s[j]
  OBVIOUS
<1>2. /\ SubSeq(s, 1, i + 1) \in Seq(T) /\ Len(SubSeq(s, 1, i + 1)) = i + 1
      /\ \A j \in 1..(i + 1) : SubSeq(s, 1, i + 1)[j] = s[j]
  OBVIOUS
<1> DEFINE a == SubSeq(s, 1, i)  b == SubSeq(s, 1, i + 1)  c == Append(a, s[i + 1])
<1>3. s[i + 1] \in T /\ i \in Nat
  OBVIOUS
<1>4. /\ c \in Seq(T) /\ Len(c) = i + 1 /\ c[i + 1] = s[i + 1]
      /\ \A j \in 1..i : c[j] = a[j]
  BY <1>1, <1>3
<1> HIDE DEF a, b, c
<1>5. \A j \in 1..(i + 1) : j \in 1..i \/ j = i + 1
  BY <1>3
<1>6. \A j \in 1..(i + 1) : c[j] = s[j]
  BY <1>1, <1>4, <1>5 DEF a
<1>7. b = c
  BY <1>2, <1>3, <1>4, <1>6, SeqEqual DEF b
<1> QED BY <1>1, <1>3, <1>7 DEF a, b, c

LEMMA ElementsOf ==
    ASSUME NEW T, NEW s \in Seq(T)
    PROVE  /\ Len(s) \in Nat /\ DOMAIN s = 1..Len(s)
           /\ \A i \in 1..Len(s) : s[i] \in T
OBVIOUS

LEMMA FirstAndLast ==
    ASSUME NEW T, NEW s \in Seq(T)
    PROVE  SubSeq(s, 1, 0) = <<>> /\ SubSeq(s, 1, Len(s)) = s /\ Len(s) \in Nat
BY SubSeqFull, SubSeqEmpty

(***************************************************************************)
(* The alerts among some lines.                                            *)
(***************************************************************************)

LEMMA LinesDiffer ==
    /\ Hello \in Lines /\ Reply \in Lines /\ Hello[1] # "alert" /\ Reply[1] # "alert"
    /\ \A n \in 1..MaxAlerts : Alert(n) \in Lines /\ Alert(n)[1] = "alert" /\ Alert(n)[2] = n
    /\ \A l \in Lines : l[1] = "alert" => l[2] \in 1..MaxAlerts
BY DEF Hello, Reply, Alert, Lines

(* The alerts of the first lines on the way through all of them.           *)
Counted(f, s, n) ==
    f = [i \in 0..n |-> IF i = 0 THEN <<>>
                        ELSE IF s[i][1] = "alert" THEN Append(f[i - 1], s[i][2]) ELSE f[i - 1]]

LEMMA CountedExists ==
    ASSUME NEW s, NEW n \in Nat
    PROVE  \E f : Counted(f, s, n)
<1> DEFINE S == {i \in 0..n : \E f : Counted(f, s, i)}
<1>1. 0 \in S
  <2> DEFINE f == [i \in 0..0 |-> <<>>]
  <2>1. f = [i \in 0..0 |->
                IF i = 0 THEN <<>>
                ELSE IF s[i][1] = "alert" THEN Append(f[i - 1], s[i][2]) ELSE f[i - 1]]
    OBVIOUS
  <2> HIDE DEF f
  <2>2. Counted(f, s, 0)
    BY <2>1 DEF Counted
  <2> QED BY <2>2
<1>2. ASSUME NEW i \in 0..n, i \in S, i < n
      PROVE  i + 1 \in S
  <2>1. PICK f : Counted(f, s, i)
    BY <1>2
  <2> DEFINE g == [j \in 0..(i + 1) |->
                      IF j = 0 THEN <<>>
                      ELSE IF s[j][1] = "alert" THEN Append(f[j - 1], s[j][2]) ELSE f[j - 1]]
  <2>2. \A j \in 0..i : g[j] = f[j]
    <3>1. f = [j \in 0..i |->
                  IF j = 0 THEN <<>>
                  ELSE IF s[j][1] = "alert" THEN Append(f[j - 1], s[j][2]) ELSE f[j - 1]]
      BY <2>1 DEF Counted
    <3>2. \A j \in 0..i :
             f[j] = IF j = 0 THEN <<>>
                    ELSE IF s[j][1] = "alert" THEN Append(f[j - 1], s[j][2]) ELSE f[j - 1]
      BY <3>1, Zenon
    <3>3. \A j \in 0..i : j \in 0..(i + 1)
      OBVIOUS
    <3> QED BY <3>2, <3>3, Zenon
  <2>3. \A j \in 0..(i + 1) : j # 0 => j - 1 \in 0..i
    OBVIOUS
  <2>4. g = [j \in 0..(i + 1) |->
                IF j = 0 THEN <<>>
                ELSE IF s[j][1] = "alert" THEN Append(g[j - 1], s[j][2]) ELSE g[j - 1]]
    BY <2>2, <2>3
  <2> HIDE DEF g
  <2>5. Counted(g, s, i + 1)
    BY <2>4 DEF Counted
  <2>6. i + 1 \in 0..n
    BY <1>2
  <2> QED BY <2>5, <2>6
<1> HIDE DEF S
<1>3. n \in S
  BY <1>1, <1>2, Inductive
<1> QED BY <1>3 DEF S

LEMMA CountedSteps ==
    ASSUME NEW f, NEW s, NEW n \in Nat, Counted(f, s, n)
    PROVE  /\ f[0] = <<>>
           /\ \A i \in 0..n : i < n =>
                 f[i + 1] = IF s[i + 1][1] = "alert" THEN Append(f[i], s[i + 1][2]) ELSE f[i]
<1>1. f = [i \in 0..n |-> IF i = 0 THEN <<>>
                          ELSE IF s[i][1] = "alert" THEN Append(f[i - 1], s[i][2]) ELSE f[i - 1]]
  BY DEF Counted
<1>2. \A i \in 0..n : f[i] = IF i = 0 THEN <<>>
                             ELSE IF s[i][1] = "alert" THEN Append(f[i - 1], s[i][2]) ELSE f[i - 1]
  BY <1>1
<1>3. 0 \in 0..n
  OBVIOUS
<1>4. \A i \in 0..n : i < n => i + 1 \in 0..n /\ i + 1 # 0 /\ (i + 1) - 1 = i
  OBVIOUS
<1> QED BY <1>2, <1>3, <1>4

(* One line more.                                                          *)
LEMMA NumbersStep ==
    ASSUME NEW s \in Seq(Lines), NEW l \in Lines
    PROVE  Numbers(Append(s, l)) = IF l[1] = "alert" THEN Append(Numbers(s), l[2]) ELSE Numbers(s)
<1> DEFINE n == Len(s)  t == Append(s, l)
           f == CHOOSE h : Counted(h, s, n)
           g == CHOOSE h : Counted(h, t, n + 1)
           S == {i \in 0..n : f[i] = g[i]}
<1>1. /\ n \in Nat /\ n + 1 \in Nat /\ Len(t) = n + 1
      /\ \A i \in 1..n : t[i] = s[i]
      /\ t[n + 1] = l
  OBVIOUS
<1>2. Numbers(s) = f[n]
  BY DEF Numbers, Counted
<1>3. Numbers(t) = g[n + 1]
  <2>1. Numbers(t) = (CHOOSE h : Counted(h, t, Len(t)))[Len(t)]
    BY DEF Numbers, Counted
  <2> QED BY <2>1, <1>1
<1> HIDE DEF t, n
<1>4. Counted(f, s, n) /\ Counted(g, t, n + 1)
  BY <1>1, CountedExists
<1> HIDE DEF f, g
<1>5. /\ f[0] = <<>> /\ g[0] = <<>>
      /\ \A i \in 0..n : i < n =>
            f[i + 1] = IF s[i + 1][1] = "alert" THEN Append(f[i], s[i + 1][2]) ELSE f[i]
      /\ \A i \in 0..(n + 1) : i < n + 1 =>
            g[i + 1] = IF t[i + 1][1] = "alert" THEN Append(g[i], t[i + 1][2]) ELSE g[i]
  BY <1>1, <1>4, CountedSteps
<1>6. 0 \in S
  BY <1>1, <1>5
<1>7. ASSUME NEW i \in 0..n, i \in S, i < n
      PROVE  i + 1 \in S
  <2>1. /\ i + 1 \in 0..n /\ i \in 0..(n + 1) /\ i < n + 1 /\ i + 1 \in 1..n
    BY <1>1, <1>7
  <2>2. t[i + 1] = s[i + 1]
    BY <1>1, <2>1
  <2>3. f[i + 1] = g[i + 1]
    BY <1>5, <1>7, <2>1, <2>2
  <2> QED BY <2>1, <2>3
<1>8. n \in S
  <2>1. \A i \in 0..n : i \in S /\ i < n => i + 1 \in S
    BY <1>7
  <2> HIDE DEF S
  <2>2. 0..n \subseteq S
    BY <1>1, <1>6, <2>1, Inductive
  <2> QED BY <1>1, <2>2
<1>9. n \in 0..(n + 1) /\ n < n + 1
  BY <1>1
<1> QED BY <1>1, <1>2, <1>3, <1>5, <1>8, <1>9 DEF t

LEMMA NumbersEmpty == Numbers(<<>>) = <<>>
<1> DEFINE f == CHOOSE h : Counted(h, <<>>, 0)
<1>1. Numbers(<<>>) = f[0]
  <2>1. Numbers(<<>>) = (CHOOSE h : Counted(h, <<>>, Len(<<>>)))[Len(<<>>)]
    BY DEF Numbers, Counted
  <2> QED BY <2>1
<1>2. Counted(f, <<>>, 0)
  BY CountedExists
<1> HIDE DEF f
<1> QED BY <1>1, <1>2, CountedSteps

LEMMA NumbersType ==
    ASSUME NEW s \in Seq(Lines)
    PROVE  Numbers(s) \in Seq(1..MaxAlerts)
<1> DEFINE n == Len(s)  T == 1..MaxAlerts
           S == {i \in 0..n : Numbers(SubSeq(s, 1, i)) \in Seq(T)}
<1>1. n \in Nat /\ SubSeq(s, 1, 0) = <<>> /\ SubSeq(s, 1, n) = s
  BY FirstAndLast
<1>2. 0 \in S
  <2> HIDE DEF n, T
  <2>1. 0 \in 0..n /\ <<>> \in Seq(T)
    BY <1>1
  <2> QED BY <1>1, <2>1, NumbersEmpty
<1>3. ASSUME NEW i \in 0..n, i \in S, i < n
      PROVE  i + 1 \in S
  <2>1. /\ SubSeq(s, 1, i) \in Seq(Lines) /\ s[i + 1] \in Lines
        /\ SubSeq(s, 1, i + 1) = Append(SubSeq(s, 1, i), s[i + 1])
    BY <1>3, OneMore
  <2> DEFINE u == SubSeq(s, 1, i)  l == s[i + 1]
  <2>2. Numbers(u) \in Seq(T) /\ (l[1] = "alert" => l[2] \in T)
    BY <1>3, <2>1, LinesDiffer
  <2>3. Numbers(SubSeq(s, 1, i + 1)) \in Seq(T)
    <3> HIDE DEF u, l, T
    <3>1. Numbers(Append(u, l)) = IF l[1] = "alert" THEN Append(Numbers(u), l[2]) ELSE Numbers(u)
      BY <2>1, NumbersStep DEF u, l
    <3>2. SubSeq(s, 1, i + 1) = Append(u, l)
      BY <2>1 DEF u, l
    <3>3. CASE l[1] = "alert"
      <4>1. l[2] \in T /\ Numbers(u) \in Seq(T)
        BY <2>2, <3>3
      <4>2. Append(Numbers(u), l[2]) \in Seq(T)
        BY <4>1, AppendProperties
      <4> QED BY <4>2, <3>1, <3>2, <3>3
    <3>4. CASE l[1] # "alert"
      BY <2>2, <3>1, <3>2, <3>4
    <3> QED BY <3>3, <3>4
  <2>4. i + 1 \in 0..n
    BY <1>1, <1>3
  <2> QED BY <2>3, <2>4
<1>4. n \in S
  <2>1. \A i \in 0..n : i \in S /\ i < n => i + 1 \in S
    BY <1>3
  <2> HIDE DEF S, n
  <2>2. 0..n \subseteq S
    BY <1>1, <1>2, <2>1, Inductive
  <2> QED BY <1>1, <2>2
<1> QED BY <1>1, <1>4

LEMMA NumbersConcat ==
    ASSUME NEW s \in Seq(Lines), NEW t \in Seq(Lines)
    PROVE  Numbers(s \o t) = Numbers(s) \o Numbers(t)
<1> DEFINE n == Len(t)
           p(i) == SubSeq(t, 1, i)
           S == {i \in 0..n : Numbers(s \o p(i)) = Numbers(s) \o Numbers(p(i))}
<1>1. n \in Nat /\ p(0) = <<>> /\ p(n) = t
  BY FirstAndLast
<1>2. 0 \in S
  <2>1. s \o <<>> = s /\ Numbers(s) \o <<>> = Numbers(s)
    BY NumbersType, ConcatEmptySeq
  <2>2. 0 \in 0..n
    BY <1>1
  <2>3. Numbers(s \o p(0)) = Numbers(s) \o Numbers(p(0))
    <3> HIDE DEF p, n
    <3> QED BY <1>1, <2>1, NumbersEmpty
  <2> QED BY <2>2, <2>3
<1>3. ASSUME NEW i \in 0..n, i \in S, i < n
      PROVE  i + 1 \in S
  <2> DEFINE u == p(i)  l == t[i + 1]
  <2>1. u \in Seq(Lines) /\ l \in Lines /\ p(i + 1) = Append(u, l)
    BY <1>3, OneMore
  <2>2. Numbers(s \o u) = Numbers(s) \o Numbers(u)
    BY <1>3
  <2> HIDE DEF u, l
  <2>3. s \o Append(u, l) = Append(s \o u, l) /\ s \o u \in Seq(Lines)
    BY <2>1
  <2>4. Numbers(s) \in Seq(1..MaxAlerts) /\ Numbers(u) \in Seq(1..MaxAlerts)
    BY <2>1, NumbersType
  <2>5. l[1] = "alert" => Append(Numbers(s) \o Numbers(u), l[2]) = Numbers(s) \o Append(Numbers(u), l[2])
    <3> DEFINE T == 1..MaxAlerts  a == Numbers(s)  b == Numbers(u)  c == l[2]
    <3> SUFFICES ASSUME l[1] = "alert" PROVE Append(a \o b, c) = a \o Append(b, c)
      OBVIOUS
    <3>1. a \in Seq(T) /\ b \in Seq(T) /\ c \in T
      BY <2>1, <2>4, LinesDiffer
    <3> HIDE DEF a, b, c, T
    <3>2. /\ Append(a \o b, c) = (a \o b) \o <<c>> /\ Append(b, c) = b \o <<c>>
          /\ <<c>> \in Seq(T) /\ a \o b \in Seq(T)
      BY <3>1, AppendIsConcat
    <3> QED BY <3>1, <3>2, ConcatAssociative, SMTT(20)
  <2>6. Numbers(s \o Append(u, l)) = Numbers(s) \o Numbers(Append(u, l))
    BY <2>1, <2>2, <2>3, <2>5, NumbersStep
  <2>7. i + 1 \in 0..n
    BY <1>1, <1>3
  <2> QED BY <2>1, <2>6, <2>7
<1>4. n \in S
  <2>1. \A i \in 0..n : i \in S /\ i < n => i + 1 \in S
    BY <1>3
  <2> HIDE DEF S, n
  <2>2. 0..n \subseteq S
    BY <1>1, <1>2, <2>1, Inductive
  <2> QED BY <1>1, <2>2
<1> QED BY <1>1, <1>4

(* The lines of an outbox, and of answers.                                 *)
LEMMA NumbersOfAlerts ==
    ASSUME NEW o \in Seq(1..MaxAlerts)
    PROVE  /\ [i \in DOMAIN o |-> Alert(o[i])] \in Seq(Lines)
           /\ Numbers([i \in DOMAIN o |-> Alert(o[i])]) = o
<1> DEFINE s == [i \in DOMAIN o |-> Alert(o[i])]  n == Len(o)
           S == {i \in 0..n : Numbers(SubSeq(s, 1, i)) = SubSeq(o, 1, i)}
<1>1. /\ n \in Nat /\ DOMAIN o = 1..n
      /\ \A i \in 1..n : o[i] \in 1..MaxAlerts
  BY ElementsOf
<1>2. \A i \in 1..n : s[i] = Alert(o[i]) /\ s[i] \in Lines
  BY <1>1, LinesDiffer
<1>3. s \in Seq(Lines) /\ Len(s) = n
  <2>1. s \in [1..n -> Lines]
    BY <1>1, <1>2
  <2> QED BY <1>1, <2>1
<1> HIDE DEF s
<1>4. /\ SubSeq(s, 1, 0) = <<>> /\ SubSeq(s, 1, n) = s
      /\ SubSeq(o, 1, 0) = <<>> /\ SubSeq(o, 1, n) = o
  BY <1>3, FirstAndLast
<1>5. 0 \in S
  <2>1. Numbers(SubSeq(s, 1, 0)) = SubSeq(o, 1, 0)
    BY <1>4, NumbersEmpty, Zenon
  <2>2. 0 \in 0..n
    BY <1>1
  <2> QED BY <2>1, <2>2
<1>6. ASSUME NEW i \in 0..n, i \in S, i < n
      PROVE  i + 1 \in S
  <2>1. i + 1 \in 0..n /\ i + 1 \in 1..n
    BY <1>1, <1>6
  <2>2. /\ SubSeq(s, 1, i) \in Seq(Lines) /\ s[i + 1] \in Lines
        /\ SubSeq(s, 1, i + 1) = Append(SubSeq(s, 1, i), s[i + 1])
    BY <1>3, <1>6, OneMore
  <2>3. SubSeq(o, 1, i + 1) = Append(SubSeq(o, 1, i), o[i + 1])
    BY <1>6, OneMore
  <2>4. s[i + 1][1] = "alert" /\ s[i + 1][2] = o[i + 1]
    BY <1>1, <1>2, <2>1, LinesDiffer
  <2>5. Numbers(SubSeq(s, 1, i + 1)) = Append(Numbers(SubSeq(s, 1, i)), o[i + 1])
    BY <2>2, <2>4, NumbersStep
  <2>6. Numbers(SubSeq(s, 1, i)) = SubSeq(o, 1, i)
    BY <1>6
  <2> QED BY <2>1, <2>3, <2>5, <2>6
<1>7. n \in S
  <2>1. \A i \in 0..n : i \in S /\ i < n => i + 1 \in S
    BY <1>6
  <2> HIDE DEF S, n
  <2>2. 0..n \subseteq S
    BY <1>1, <1>5, <2>1, Inductive
  <2> QED BY <1>1, <2>2
<1> QED BY <1>3, <1>4, <1>7 DEF s

LEMMA NumbersOfOthers ==
    ASSUME NEW s \in Seq(Lines), \A i \in 1..Len(s) : s[i][1] # "alert"
    PROVE  Numbers(s) = <<>>
<1> DEFINE n == Len(s)
           S == {i \in 0..n : Numbers(SubSeq(s, 1, i)) = <<>>}
<1>1. n \in Nat /\ SubSeq(s, 1, 0) = <<>> /\ SubSeq(s, 1, n) = s
  BY FirstAndLast
<1>2. 0 \in S
  <2>1. Numbers(SubSeq(s, 1, 0)) = <<>>
    BY <1>1, NumbersEmpty, Zenon
  <2>2. 0 \in 0..n
    BY <1>1
  <2> QED BY <2>1, <2>2
<1>3. ASSUME NEW i \in 0..n, i \in S, i < n
      PROVE  i + 1 \in S
  <2>1. /\ SubSeq(s, 1, i) \in Seq(Lines) /\ s[i + 1] \in Lines
        /\ SubSeq(s, 1, i + 1) = Append(SubSeq(s, 1, i), s[i + 1])
    BY <1>3, OneMore
  <2>2. i + 1 \in 0..n /\ i + 1 \in 1..n
    BY <1>1, <1>3
  <2>3. Numbers(SubSeq(s, 1, i + 1)) = Numbers(SubSeq(s, 1, i))
    BY <2>1, <2>2, NumbersStep
  <2> QED BY <1>3, <2>2, <2>3
<1>4. n \in S
  <2>1. \A i \in 0..n : i \in S /\ i < n => i + 1 \in S
    BY <1>3
  <2> HIDE DEF S, n
  <2>2. 0..n \subseteq S
    BY <1>1, <1>2, <2>1, Inductive
  <2> QED BY <1>1, <2>2
<1> QED BY <1>1, <1>4

(* What a peer reads.                                                      *)
LEMMA NumbersOfRest ==
    ASSUME NEW s \in Seq(Lines), s # <<>>
    PROVE  /\ Head(s) \in Lines /\ Tail(s) \in Seq(Lines)
           /\ Numbers(s) = IF Head(s)[1] = "alert" THEN <<Head(s)[2]>> \o Numbers(Tail(s))
                           ELSE Numbers(Tail(s))
<1> DEFINE h == Head(s)  t == Tail(s)
<1>1. h \in Lines /\ t \in Seq(Lines) /\ s = <<h>> \o t /\ <<h>> \in Seq(Lines)
  OBVIOUS
<1>2. <<h>> = Append(<<>>, h) /\ <<>> \in Seq(Lines)
  OBVIOUS
<1> HIDE DEF h, t
<1>3. Numbers(<<h>>) = IF h[1] = "alert" THEN <<h[2]>> ELSE <<>>
  <2>1. Numbers(Append(<<>>, h)) = IF h[1] = "alert" THEN Append(Numbers(<<>>), h[2]) ELSE Numbers(<<>>)
    BY <1>1, <1>2, NumbersStep
  <2> QED BY <1>2, <2>1, NumbersEmpty
<1>4. Numbers(<<h>> \o t) = Numbers(<<h>>) \o Numbers(t)
  BY <1>1, NumbersConcat
<1>5. <<>> \o Numbers(t) = Numbers(t)
  BY <1>1, NumbersType
<1> QED BY <1>1, <1>3, <1>4, <1>5 DEF h, t

(***************************************************************************)
(* A connection: writes move lines on, and add theirs behind the others.   *)
(***************************************************************************)

Conns == [out : Seq(Lines), sock : Seq(Lines), open : BOOLEAN, ok : BOOLEAN]

(* A socket that is not overfull; and a write to a peer that is still      *)
(* there fails only when it is too far behind.                             *)
Sound(w) ==
    /\ w \in Conns
    /\ Len(w.sock) <= SockBuf
    /\ ~w.ok /\ w.open => Len(w.out) > PendingMax

LEMMA MinOfTwo ==
    ASSUME NEW a \in Int, NEW b \in Int
    PROVE  Min({a, b}) = IF a <= b THEN a ELSE b
<1> DEFINE m == IF a <= b THEN a ELSE b
<1>1. m \in {a, b} /\ \A y \in {a, b} : m <= y
  OBVIOUS
<1>2. \A x \in {a, b} : (\A y \in {a, b} : x <= y) => x = m
  OBVIOUS
<1> QED BY <1>1, <1>2 DEF Min

LEMMA CutInTwo ==
    ASSUME NEW T, NEW s \in Seq(T), NEW n \in 0..Len(s)
    PROVE  /\ SubSeq(s, 1, n) \in Seq(T) /\ Len(SubSeq(s, 1, n)) = n
           /\ SubSeq(s, n + 1, Len(s)) \in Seq(T)
           /\ SubSeq(s, 1, n) \o SubSeq(s, n + 1, Len(s)) = s
<1> DEFINE a == SubSeq(s, 1, n)  b == SubSeq(s, n + 1, Len(s))  N == Len(s)
<1>1. N \in Nat /\ n \in Nat /\ n <= N
  OBVIOUS
<1>2. /\ a \in Seq(T) /\ Len(a) = n
      /\ \A i \in 1..n : a[i] = s[i]
  OBVIOUS
<1>3. /\ b \in Seq(T) /\ Len(b) = N - n
      /\ \A i \in 1..(N - n) : b[i] = s[n + i]
  OBVIOUS
<1> HIDE DEF a, b
<1>4. a \o b \in Seq(T) /\ Len(a \o b) = N
  BY <1>1, <1>2, <1>3
<1>5. \A i \in 1..N : (a \o b)[i] = s[i]
  <2> TAKE i \in 1..N
  <2>0. /\ i \in Nat /\ (a \o b)[i] = IF i <= Len(a) THEN a[i] ELSE b[i - Len(a)]
    BY <1>1, <1>2, <1>3
  <2>1. CASE i <= n
    BY <2>0, <1>1, <1>2, <1>3, <2>1
  <2>2. CASE i > n
    <3>1. i - n \in 1..(N - n) /\ n + (i - n) = i
      BY <1>1, <2>2
    <3>2. (a \o b)[i] = b[i - n]
      BY <2>0, <1>1, <1>2, <2>2
    <3> QED BY <1>3, <3>1, <3>2
  <2> QED BY <2>0, <2>1, <2>2, <1>1
<1>6. a \o b = s
  BY <1>4, <1>5, SeqEqual
<1> QED BY <1>2, <1>3, <1>6 DEF a, b

LEMMA Regrouped ==
    ASSUME NEW a \in Seq(Lines), NEW b \in Seq(Lines), NEW c \in Seq(Lines)
    PROVE  (a \o b) \o c = a \o (b \o c) /\ a \o b \in Seq(Lines)
<1>1. (a \o b) \o c = a \o (b \o c)
  BY ConcatAssociative
<1> QED BY <1>1

LEMMA FlushIs ==
    ASSUME ServerAssumption, NEW w, Sound(w), w.ok
    PROVE  /\ Sound(Flush(w)) /\ Flush(w).open = w.open
           /\ Flush(w).sock \o Flush(w).out = w.sock \o w.out
           /\ w.out = <<>> => Flush(w).out = <<>>
<1>1. /\ w \in Conns /\ Len(w.sock) <= SockBuf /\ SockBuf \in Nat
      /\ w.sock \in Seq(Lines) /\ w.out \in Seq(Lines) /\ Len(w.sock) \in Nat /\ Len(w.out) \in Nat
      /\ w.open \in BOOLEAN /\ w.ok \in BOOLEAN
      /\ PendingMax \in Nat
  BY DEF Sound, Conns, ServerAssumption
<1> DEFINE n == Min({SockBuf - Len(w.sock), Len(w.out)})
           s == SubSeq(w.out, 1, n)  t == SubSeq(w.out, n + 1, Len(w.out))
<1>2. n \in 0..Len(w.out) /\ n <= SockBuf - Len(w.sock) /\ n \in Nat
  <2> DEFINE a == SockBuf - Len(w.sock)  b == Len(w.out)
  <2>1. a \in Nat /\ b \in Nat
    BY <1>1
  <2>2. n = Min({a, b})
    OBVIOUS
  <2> HIDE DEF a, b, n
  <2>3. n \in 0..b /\ n <= a /\ n \in Nat
    BY <2>1, <2>2, MinOfTwo
  <2> QED BY <2>3 DEF a, b
<1>3. Flush(w) = IF w.out # <<>> /\ ~w.open THEN [w EXCEPT !.ok = FALSE]
                 ELSE [w EXCEPT !.sock = w.sock \o s, !.out = t]
  BY <1>1 DEF Flush, Conns
<1> HIDE DEF n
<1>4. s \in Seq(Lines) /\ Len(s) = n /\ t \in Seq(Lines) /\ s \o t = w.out
  <2>1. w.out \in Seq(Lines) /\ n \in 0..Len(w.out)
    BY <1>1, <1>2
  <2> QED BY <2>1, CutInTwo
<1>5. w.out = <<>> => t = <<>>
  <2> SUFFICES ASSUME w.out = <<>> PROVE t = <<>>
    OBVIOUS
  <2>1. Len(w.out) = 0
    OBVIOUS
  <2>2. n = 0
    BY <1>2, <2>1
  <2> QED BY <2>1, <2>2, SubSeqEmpty
<1>7. /\ w.sock \o s \in Seq(Lines) /\ Len(w.sock \o s) = Len(w.sock) + n
      /\ (w.sock \o s) \o t = w.sock \o w.out
  <2> DEFINE k == w.sock
  <2>1. k \in Seq(Lines) /\ Len(k) \in Nat
    BY <1>1
  <2>2. s \in Seq(Lines) /\ t \in Seq(Lines)
    BY <1>4
  <2> HIDE DEF s, t, k
  <2>3. (k \o s) \o t = k \o (s \o t)
    BY <2>1, <2>2, Regrouped
  <2>4. k \o s \in Seq(Lines) /\ Len(k \o s) = Len(k) + Len(s)
    BY <2>1, <2>2
  <2> QED BY <1>4, <2>3, <2>4 DEF k
<1> HIDE DEF s, t
<1>8. CASE w.out # <<>> /\ ~w.open
  <2>1. Flush(w) = [w EXCEPT !.ok = FALSE]
    BY <1>3, <1>8
  <2> QED BY <2>1, <1>1, <1>8 DEF Sound, Conns
<1>9. CASE ~(w.out # <<>> /\ ~w.open)
  <2>1. Flush(w) = [w EXCEPT !.sock = w.sock \o s, !.out = t]
    BY <1>3, <1>9
  <2>2. Flush(w) \in Conns
    BY <2>1, <1>1, <1>4, <1>7 DEF Conns
  <2>3. /\ Flush(w).sock = w.sock \o s /\ Flush(w).out = t
        /\ Flush(w).open = w.open /\ Flush(w).ok = w.ok
    BY <2>1, <1>1 DEF Conns
  <2>4. Len(Flush(w).sock) <= SockBuf
    BY <2>3, <1>1, <1>2, <1>7
  <2> QED BY <2>2, <2>3, <2>4, <1>5, <1>7 DEF Sound
<1> QED BY <1>8, <1>9

(* A line put behind the others.                                           *)
LEMMA Behindhand ==
    ASSUME NEW a \in Seq(Lines), NEW b \in Seq(Lines), NEW l \in Lines
    PROVE  /\ Append(b, l) \in Seq(Lines) /\ Append(b, l) # <<>>
           /\ a \o Append(b, l) = Append(a \o b, l)
<1>1. /\ Append(b, l) = b \o <<l>> /\ Append(a \o b, l) = (a \o b) \o <<l>>
      /\ <<l>> \in Seq(Lines) /\ a \o b \in Seq(Lines)
  BY AppendIsConcat
<1>2. (a \o b) \o <<l>> = a \o (b \o <<l>>)
  BY <1>1, Regrouped
<1>3. Append(b, l) \in Seq(Lines) /\ Append(b, l) # <<>>
  OBVIOUS
<1> QED BY <1>1, <1>2, <1>3

LEMMA WriteLineIs ==
    ASSUME ServerAssumption, NEW w, Sound(w), NEW l \in Lines
    PROVE  /\ Sound(WriteLine(w, l)) /\ WriteLine(w, l).open = w.open
           /\ WriteLine(w, l).ok =>
                 /\ w.ok
                 /\ WriteLine(w, l).sock \o WriteLine(w, l).out = Append(w.sock \o w.out, l)
<1>1. /\ w \in Conns /\ Len(w.sock) <= SockBuf
      /\ w.sock \in Seq(Lines) /\ w.out \in Seq(Lines)
      /\ w.open \in BOOLEAN /\ w.ok \in BOOLEAN
      /\ PendingMax \in Nat /\ Len(w.out) \in Nat
  BY DEF Sound, Conns, ServerAssumption
<1>2. CASE ~w.ok \/ Len(w.out) > PendingMax
  <2>1. WriteLine(w, l) = [w EXCEPT !.ok = FALSE]
    BY <1>2 DEF WriteLine
  <2> QED BY <1>1, <1>2, <2>1 DEF Sound, Conns
<1>3. CASE ~(~w.ok \/ Len(w.out) > PendingMax)
  <2> DEFINE v == [w EXCEPT !.out = Append(w.out, l)]
  <2>1. WriteLine(w, l) = Flush(v)
    BY <1>1, <1>3 DEF WriteLine, Conns
  <2>0. Append(w.out, l) \in Seq(Lines)
    BY <1>1, Behindhand
  <2>2. /\ v \in Conns /\ v.sock = w.sock /\ v.out = Append(w.out, l)
        /\ v.open = w.open /\ v.ok = w.ok /\ w.ok
    BY <1>1, <1>3, <2>0 DEF Conns
  <2> HIDE DEF v
  <2>3. Sound(v)
    BY <1>1, <1>3, <2>2 DEF Sound
  <2>4. w.sock \o Append(w.out, l) = Append(w.sock \o w.out, l)
    BY <1>1, Behindhand
  <2>5. v.ok
    BY <2>2
  <2>6. /\ Sound(Flush(v)) /\ Flush(v).open = v.open
        /\ Flush(v).sock \o Flush(v).out = v.sock \o v.out
    BY <2>3, <2>5, FlushIs
  <2>7. v.sock \o v.out = Append(w.sock \o w.out, l)
    BY <2>2, <2>4
  <2> QED BY <2>1, <2>2, <2>6, <2>7
<1> QED BY <1>2, <1>3

(* The connections on the way through some lines exist.                    *)
Written(f, w, lines, n) ==
    f = [i \in 0..n |-> IF i = 0 THEN w ELSE WriteLine(f[i - 1], lines[i])]

LEMMA WrittenExists ==
    ASSUME NEW w, NEW lines, NEW n \in Nat
    PROVE  \E f : Written(f, w, lines, n)
<1> DEFINE S == {i \in 0..n : \E f : Written(f, w, lines, i)}
<1>1. 0 \in S
  <2> DEFINE f == [i \in 0..0 |-> w]
  <2>1. f = [i \in 0..0 |-> IF i = 0 THEN w ELSE WriteLine(f[i - 1], lines[i])]
    OBVIOUS
  <2> HIDE DEF f
  <2>2. Written(f, w, lines, 0)
    BY <2>1 DEF Written
  <2> QED BY <2>2
<1>2. ASSUME NEW i \in 0..n, i \in S, i < n
      PROVE  i + 1 \in S
  <2>1. PICK f : Written(f, w, lines, i)
    BY <1>2
  <2> DEFINE g == [j \in 0..(i + 1) |-> IF j = 0 THEN w ELSE WriteLine(f[j - 1], lines[j])]
  <2>2. \A j \in 0..i : g[j] = f[j]
    BY <2>1 DEF Written
  <2>3. \A j \in 0..(i + 1) : j # 0 => j - 1 \in 0..i
    OBVIOUS
  <2>4. g = [j \in 0..(i + 1) |-> IF j = 0 THEN w ELSE WriteLine(g[j - 1], lines[j])]
    BY <2>2, <2>3
  <2> HIDE DEF g
  <2>5. Written(g, w, lines, i + 1)
    BY <2>4 DEF Written
  <2>6. i + 1 \in 0..n
    BY <1>2
  <2> QED BY <2>5, <2>6
<1> HIDE DEF S
<1>3. n \in S
  BY <1>1, <1>2, Inductive
<1> QED BY <1>3 DEF S

LEMMA WriteAllIs ==
    ASSUME ServerAssumption, NEW w, Sound(w), NEW lines \in Seq(Lines)
    PROVE  /\ Sound(WriteAll(w, lines)) /\ WriteAll(w, lines).open = w.open
           /\ WriteAll(w, lines).ok =>
                 /\ w.ok
                 /\ WriteAll(w, lines).sock \o WriteAll(w, lines).out = (w.sock \o w.out) \o lines
<1> DEFINE n == Len(lines)  k == w.sock \o w.out
           p(i) == SubSeq(lines, 1, i)
           f == CHOOSE h : Written(h, w, lines, n)
           Good(v, i) == /\ Sound(v) /\ v.open = w.open
                         /\ v.ok => w.ok /\ v.sock \o v.out = k \o p(i)
           S == {i \in 0..n : Good(f[i], i)}
<1>1. n \in Nat /\ p(0) = <<>> /\ p(n) = lines
  BY FirstAndLast
<1>2. WriteAll(w, lines) = f[n]
  BY DEF WriteAll, Written
<1>3. Written(f, w, lines, n)
  BY <1>1, WrittenExists
<1> HIDE DEF f
<1>4. /\ f[0] = w
      /\ \A i \in 0..n : i < n => f[i + 1] = WriteLine(f[i], lines[i + 1])
  <2>1. f = [i \in 0..n |-> IF i = 0 THEN w ELSE WriteLine(f[i - 1], lines[i])]
    BY <1>3 DEF Written
  <2>2. \A i \in 0..n : f[i] = IF i = 0 THEN w ELSE WriteLine(f[i - 1], lines[i])
    BY <2>1
  <2>3. 0 \in 0..n
    BY <1>1
  <2>4. \A i \in 0..n : i < n => i + 1 \in 0..n /\ i + 1 # 0 /\ (i + 1) - 1 = i
    BY <1>1
  <2> HIDE DEF n
  <2> QED BY <2>2, <2>3, <2>4
<1>5. k \in Seq(Lines)
  BY DEF Sound, Conns
<1>6. 0 \in S
  <2>1. k \o <<>> = k
    BY <1>5, ConcatEmptySeq
  <2>2. Good(w, 0)
    <3> HIDE DEF p
    <3> QED BY <1>1, <2>1
  <2>3. 0 \in 0..n
    BY <1>1
  <2> HIDE DEF Good
  <2> QED BY <1>4, <2>2, <2>3
<1>7. ASSUME NEW i \in 0..n, i \in S, i < n
      PROVE  i + 1 \in S
  <2>1. /\ p(i) \in Seq(Lines) /\ lines[i + 1] \in Lines
        /\ p(i + 1) = Append(p(i), lines[i + 1])
    BY <1>7, OneMore
  <2>2. Good(f[i], i) /\ f[i + 1] = WriteLine(f[i], lines[i + 1])
    BY <1>4, <1>7
  <2> DEFINE v == f[i]  u == f[i + 1]  l == lines[i + 1]
  <2> HIDE DEF n, p, k
  <2>3. k \o p(i + 1) = Append(k \o p(i), l)
    <3> DEFINE b == p(i)
    <3>1. b \in Seq(Lines) /\ l \in Lines /\ p(i + 1) = Append(b, l)
      BY <2>1
    <3> HIDE DEF b, l
    <3>2. k \o Append(b, l) = Append(k \o b, l)
      BY <1>5, <3>1, Behindhand
    <3> QED BY <3>1, <3>2 DEF b
  <2>4. Good(v, i) /\ u = WriteLine(v, l) /\ l \in Lines
    BY <2>1, <2>2
  <2> HIDE DEF v, u, l
  <2>5. Good(u, i + 1)
    BY <2>3, <2>4, WriteLineIs
  <2>6. i + 1 \in 0..n
    BY <1>1, <1>7
  <2> QED BY <2>5, <2>6 DEF u
<1>8. n \in S
  <2>1. \A i \in 0..n : i \in S /\ i < n => i + 1 \in S
    BY <1>7
  <2> HIDE DEF S, n
  <2>2. 0..n \subseteq S
    BY <1>1, <1>6, <2>1, Inductive
  <2> QED BY <1>1, <2>2
<1> HIDE DEF n, p
<1> QED BY <1>1, <1>2, <1>8

(***************************************************************************)
(* Accepting the backlog.                                                  *)
(***************************************************************************)

Slots == [Fds -> Client \cup {NoClient}]

(* A client that has just been accepted.                                   *)
Newcomer(p) ==
    [peer |-> p, subscribed |-> FALSE, held |-> 0, since |-> 0,
     out |-> IF peer[p] = "left" THEN <<Hello>> ELSE <<>>,
     armed |-> peer[p] = "left"]

LEMMA ClientsDiffer ==
    /\ \A c \in Client : c # NoClient
    /\ \A p \in Peers : Newcomer(p) \in Client /\ Newcomer(p) # NoClient /\ Newcomer(p).peer = p
<1>1. \A c \in Client : c # NoClient
  <2>1. \A c \in Client : "since" \in DOMAIN c
    BY DEF Client
  <2>2. "since" \notin DOMAIN NoClient
    BY DEF NoClient
  <2> QED BY <2>1, <2>2
<1>2. ASSUME NEW p \in Peers
      PROVE  Newcomer(p) \in Client /\ Newcomer(p).peer = p
  <2>1. <<Hello>> \in Seq(Lines) /\ <<>> \in Seq(Lines)
    BY LinesDiffer
  <2>2. (IF peer[p] = "left" THEN <<Hello>> ELSE <<>>) \in Seq(Lines)
    BY <2>1
  <2> QED BY <2>2 DEF Newcomer, Client
<1> QED BY <1>1, <1>2

LEMMA LowestFree ==
    ASSUME ServerAssumption, NEW used, used \subseteq Fds, Cardinality(used) < MaxClients
    PROVE  Min(Fds \ used) \in Fds \ used
<1>1. Fds \subseteq Nat /\ IsFiniteSet(Fds)
  BY DEF ServerAssumption
<1>2. Cardinality(Fds) \in Nat /\ MaxClients \in Nat /\ MaxClients <= Cardinality(Fds)
  BY <1>1, FS_CardinalityType DEF ServerAssumption
<1>3. used # Fds
  BY <1>2
<1> DEFINE S == Fds \ used
<1>4. S \subseteq Nat /\ S # {}
  BY <1>1, <1>3
<1> HIDE DEF S
<1>5. \E x \in S : \A y \in S : x <= y
  BY <1>4, Leasts
<1>6. Min(S) \in S
  BY <1>5 DEF Min
<1> QED BY <1>6 DEF S

(* One peer is put at a free descriptor, or turned away.                   *)
LEMMA AcceptOneIs ==
    ASSUME ServerAssumption, NEW acc \in Slots, NEW p \in Peers
    PROVE  \/ AcceptOne(acc, p) = acc
           \/ \E m \in Fds : /\ acc[m] = NoClient
                             /\ AcceptOne(acc, p) = [acc EXCEPT ![m] = Newcomer(p)]
<1> DEFINE free == {fd \in Fds : acc[fd] = NoClient}
<1>1. CASE Cardinality(Fds \ free) >= MaxClients
  BY <1>1 DEF AcceptOne
<1>2. CASE ~(Cardinality(Fds \ free) >= MaxClients)
  <2>1. AcceptOne(acc, p) = [acc EXCEPT ![Min(free)] = Newcomer(p)]
    BY <1>2 DEF AcceptOne, Newcomer
  <2>2. free \subseteq Fds /\ Fds \ (Fds \ free) = free /\ Fds \ free \subseteq Fds
    OBVIOUS
  <2>3. \A fd \in free : fd \in Fds /\ acc[fd] = NoClient
    OBVIOUS
  <2> DEFINE used == Fds \ free
  <2> HIDE DEF free
  <2>4. Cardinality(used) < MaxClients
    <3>1. IsFiniteSet(used)
      BY FS_Subset DEF ServerAssumption
    <3>2. Cardinality(used) \in Nat /\ MaxClients \in Int
      BY <3>1, FS_CardinalityType DEF ServerAssumption
    <3> QED BY <1>2, <3>2
  <2>5. Min(Fds \ used) \in Fds \ used
    <3> HIDE DEF used
    <3> QED BY <2>4, <2>2, LowestFree DEF used
  <2>6. Min(free) \in free
    BY <2>2, <2>5
  <2> QED BY <2>1, <2>3, <2>6
<1> QED BY <1>1, <1>2

Accepted(f, q, n) ==
    f = [i \in 0..n |-> IF i = 0 THEN clients ELSE AcceptOne(f[i - 1], q[i])]

LEMMA AcceptedExists ==
    ASSUME NEW q, NEW n \in Nat
    PROVE  \E f : Accepted(f, q, n)
<1> DEFINE S == {i \in 0..n : \E f : Accepted(f, q, i)}
<1>1. 0 \in S
  <2> DEFINE f == [i \in 0..0 |-> clients]
  <2>1. f = [i \in 0..0 |-> IF i = 0 THEN clients ELSE AcceptOne(f[i - 1], q[i])]
    OBVIOUS
  <2> HIDE DEF f
  <2>2. Accepted(f, q, 0)
    BY <2>1 DEF Accepted
  <2> QED BY <2>2
<1>2. ASSUME NEW i \in 0..n, i \in S, i < n
      PROVE  i + 1 \in S
  <2>1. PICK f : Accepted(f, q, i)
    BY <1>2
  <2> DEFINE g == [j \in 0..(i + 1) |-> IF j = 0 THEN clients ELSE AcceptOne(f[j - 1], q[j])]
  <2>2. \A j \in 0..i : g[j] = f[j]
    BY <2>1 DEF Accepted
  <2>3. \A j \in 0..(i + 1) : j # 0 => j - 1 \in 0..i
    OBVIOUS
  <2>4. g = [j \in 0..(i + 1) |-> IF j = 0 THEN clients ELSE AcceptOne(g[j - 1], q[j])]
    BY <2>2, <2>3
  <2> HIDE DEF g
  <2>5. Accepted(g, q, i + 1)
    BY <2>4 DEF Accepted
  <2>6. i + 1 \in 0..n
    BY <1>2
  <2> QED BY <2>5, <2>6
<1> HIDE DEF S
<1>3. n \in S
  BY <1>1, <1>2, Inductive
<1> QED BY <1>3 DEF S

(* The clients after the first n of the backlog: those there were, and     *)
(* newcomers of the backlog, each peer once.                               *)
Seated(acc, n) ==
    /\ acc \in Slots
    /\ \A fd \in Fds : clients[fd] # NoClient => acc[fd] = clients[fd]
    /\ \A fd \in Fds : clients[fd] = NoClient /\ acc[fd] # NoClient =>
          \E j \in 1..n : acc[fd] = Newcomer(backlog[j])
    /\ \A fd, g \in Fds :
          acc[fd] # NoClient /\ acc[g] # NoClient /\ acc[fd].peer = acc[g].peer => fd = g

LEMMA AcceptAllIs ==
    ASSUME ServerAssumption, PlacesInv, clients \in Slots, backlog \in Seq(Peers)
    PROVE  Seated(AcceptAll, Len(backlog))
<1> DEFINE n == Len(backlog)
           f == CHOOSE h : Accepted(h, backlog, n)
           S == {i \in 0..n : Seated(f[i], i)}
<1>1. /\ n \in Nat
      /\ \A i \in 1..n : i \in DOMAIN backlog /\ backlog[i] \in Peers
  BY ElementsOf
<1>2. AcceptAll = f[n]
  BY DEF AcceptAll, Accepted
<1>3. Accepted(f, backlog, n)
  BY <1>1, AcceptedExists
<1> HIDE DEF f
<1>4. /\ f[0] = clients
      /\ \A i \in 0..n : i < n => f[i + 1] = AcceptOne(f[i], backlog[i + 1])
  <2>1. f = [i \in 0..n |-> IF i = 0 THEN clients ELSE AcceptOne(f[i - 1], backlog[i])]
    BY <1>3 DEF Accepted
  <2>2. \A i \in 0..n : f[i] = IF i = 0 THEN clients ELSE AcceptOne(f[i - 1], backlog[i])
    BY <2>1
  <2>3. 0 \in 0..n
    BY <1>1
  <2>4. \A i \in 0..n : i < n => i + 1 \in 0..n /\ i + 1 # 0 /\ (i + 1) - 1 = i
    BY <1>1
  <2> HIDE DEF n
  <2> QED BY <2>2, <2>3, <2>4
<1> HIDE DEF n
<1>5. 0 \in S
  <2>1. Seated(clients, 0)
    BY DEF Seated, PlacesInv, Open
  <2>2. 0 \in 0..n
    BY <1>1
  <2> QED BY <1>4, <2>1, <2>2
<1>6. ASSUME NEW i \in 0..n, i \in S, i < n
      PROVE  i + 1 \in S
  <2> DEFINE acc == f[i]  p == backlog[i + 1]
  <2>1. /\ Seated(acc, i) /\ acc \in Slots /\ f[i + 1] = AcceptOne(acc, p)
        /\ i \in Nat /\ i + 1 \in 1..n /\ i + 1 \in DOMAIN backlog /\ p \in Peers
        /\ i + 1 \in 0..n /\ 1..i \subseteq 1..(i + 1) /\ i + 1 \in 1..(i + 1)
        /\ \A j \in 1..i : j \in DOMAIN backlog /\ j # i + 1 /\ backlog[j] \in Peers
    <3>1. i \in Nat /\ i + 1 \in 1..n /\ i + 1 \in 0..n
      BY <1>1, <1>6
    <3>2. 1..i \subseteq 1..(i + 1) /\ i + 1 \in 1..(i + 1)
      BY <3>1
    <3>3. i + 1 \in DOMAIN backlog /\ p \in Peers
      BY <1>1, <3>1
    <3>4. \A j \in 1..i : j \in DOMAIN backlog /\ j # i + 1
      BY <1>1, <1>6
    <3>5. \A j \in 1..i : backlog[j] \in Peers
      BY <1>1, <3>4
    <3>6. Seated(acc, i)
      BY <1>6
    <3>7. f[i + 1] = AcceptOne(acc, p)
      BY <1>4, <1>6, <3>1
    <3> HIDE DEF acc, p
    <3> QED BY <3>1, <3>2, <3>3, <3>4, <3>5, <3>6, <3>7 DEF Seated
  <2>2. /\ \A fd \in Fds : clients[fd] # NoClient => clients[fd].peer # p
        /\ \A j \in 1..i : backlog[j] # p
    BY <2>1 DEF PlacesInv, Open
  <2> HIDE DEF acc, p
  <2>3. CASE AcceptOne(acc, p) = acc
    <3>1. Seated(acc, i + 1)
      BY <2>1 DEF Seated
    <3> QED BY <2>1, <2>3, <3>1
  <2>4. ASSUME NEW m \in Fds, acc[m] = NoClient,
               AcceptOne(acc, p) = [acc EXCEPT ![m] = Newcomer(p)]
        PROVE  i + 1 \in S
    <3> DEFINE b == [acc EXCEPT ![m] = Newcomer(p)]
    <3>1. /\ b \in Slots /\ b[m] = Newcomer(p)
          /\ \A fd \in Fds : fd # m => b[fd] = acc[fd]
      BY <2>1, ClientsDiffer DEF Slots
    <3>2. b[m].peer = p
      BY <2>1, <3>1, ClientsDiffer
    <3> HIDE DEF b
    <3>3. clients[m] = NoClient
      BY <2>1, <2>4 DEF Seated
    <3>4. \A fd \in Fds : clients[fd] # NoClient => b[fd] = clients[fd]
      BY <2>1, <3>1, <3>3 DEF Seated
    <3>5. p = backlog[i + 1]
      BY DEF p
    <3>6. ASSUME NEW fd \in Fds, clients[fd] = NoClient, b[fd] # NoClient
          PROVE  \E j \in 1..(i + 1) : b[fd] = Newcomer(backlog[j])
      <4>1. CASE fd = m
        BY <2>1, <3>1, <3>5, <4>1
      <4>2. CASE fd # m
        <5>1. \E j \in 1..i : acc[fd] = Newcomer(backlog[j])
          BY <2>1, <3>1, <3>6, <4>2 DEF Seated
        <5> QED BY <2>1, <3>1, <4>2, <5>1
      <4> QED BY <4>1, <4>2
    <3>7. ASSUME NEW fd \in Fds, acc[fd] # NoClient
          PROVE  acc[fd].peer # p
      <4>1. CASE clients[fd] # NoClient
        BY <2>1, <2>2, <4>1 DEF Seated
      <4>2. CASE clients[fd] = NoClient
        <5>1. PICK j \in 1..i : acc[fd] = Newcomer(backlog[j])
          BY <2>1, <3>7, <4>2 DEF Seated
        <5>2. acc[fd].peer = backlog[j]
          BY <2>1, <5>1, ClientsDiffer
        <5> QED BY <2>2, <5>2
      <4> QED BY <4>1, <4>2
    <3>8. \A fd, g \in Fds :
             b[fd] # NoClient /\ b[g] # NoClient /\ b[fd].peer = b[g].peer => fd = g
      <4> SUFFICES ASSUME NEW fd \in Fds, NEW g \in Fds, b[fd] # NoClient, b[g] # NoClient,
                          b[fd].peer = b[g].peer
                   PROVE  fd = g
        OBVIOUS
      <4>1. CASE fd # m /\ g # m
        <5>1. acc[fd] # NoClient /\ acc[g] # NoClient /\ acc[fd].peer = acc[g].peer
          BY <3>1, <4>1
        <5> QED BY <2>1, <5>1 DEF Seated
      <4>2. CASE fd # m /\ g = m
        <5>1. acc[fd] # NoClient /\ acc[fd].peer = p
          BY <3>1, <3>2, <4>2
        <5> QED BY <3>7, <5>1
      <4>3. CASE fd = m /\ g # m
        <5>1. acc[g] # NoClient /\ acc[g].peer = p
          BY <3>1, <3>2, <4>3
        <5> QED BY <3>7, <5>1
      <4> QED BY <4>1, <4>2, <4>3
    <3>9. Seated(b, i + 1)
      BY <3>1, <3>4, <3>6, <3>8 DEF Seated
    <3> QED BY <2>1, <2>4, <3>9 DEF b
  <2> QED BY <2>1, <2>3, <2>4, AcceptOneIs
<1>7. n \in S
  <2>1. \A i \in 0..n : i \in S /\ i < n => i + 1 \in S
    BY <1>6
  <2> HIDE DEF S
  <2>2. 0..n \subseteq S
    BY <1>1, <1>5, <2>1, Inductive
  <2> QED BY <1>1, <2>2
<1> QED BY <1>2, <1>7 DEF n

(***************************************************************************)
(* Types and places.                                                       *)
(***************************************************************************)

Causes == {"hung up", "slow", "flood", "ended", "stale event", "refused", "stopped", "none"}
Stages == {"new", "queued", "served", "left", "cut"}

Typed ==
    /\ peer \in [Peers -> Stages]
    /\ asked \in [Peers -> Nat]
    /\ shut \subseteq Peers
    /\ toServer \in [Peers -> Seq(Pieces)]
    /\ toPeer \in [Peers -> Seq(Lines)]
    /\ got \in [Peers -> Seq(1..MaxAlerts)]
    /\ backlog \in Seq(Peers)
    /\ clients \in Slots
    /\ batch \subseteq Event \cup {Listen, Wakeup}
    /\ draining \in BOOLEAN /\ wake \in BOOLEAN
    /\ stage \in {"running", "stopping", "stopped"}
    /\ outbox \in Seq(1..MaxAlerts) /\ drained \in Seq(1..MaxAlerts)
    /\ waking \in 0..MaxAlerts /\ alerts \in 0..MaxAlerts
    /\ causes \subseteq Peers \X Causes

Counts == stage # "stopped" => subscribers = Cardinality(Subscribed)

LEMMA TypeIs == TypeOK <=> Typed /\ Counts
BY DEF TypeOK, Typed, Counts, Slots, Stages, Causes

LEMMA OpenIs ==
    ASSUME Typed
    PROVE  /\ \A fd \in Open : /\ fd \in Fds /\ clients[fd] \in Client /\ clients[fd].peer \in Peers
                               /\ clients[fd].out \in Seq(Lines) /\ clients[fd].since \in Nat
                               /\ clients[fd].subscribed \in BOOLEAN /\ clients[fd].held \in Nat
           /\ Subscribed \subseteq Open
           /\ \A e \in batch \ {Listen, Wakeup} : e \in Event /\ e.fd \in Fds /\ e.for \in Peers
           /\ \A i \in DOMAIN backlog : backlog[i] \in Peers
<1>1. \A fd \in Open : fd \in Fds /\ clients[fd] \in Client
  BY DEF Open, Typed, Slots
<1>2. \A fd \in Open : /\ clients[fd].peer \in Peers
                       /\ clients[fd].out \in Seq(Lines) /\ clients[fd].since \in Nat
                       /\ clients[fd].subscribed \in BOOLEAN /\ clients[fd].held \in Nat
  BY <1>1 DEF Client
<1>3. \A e \in batch \ {Listen, Wakeup} : e \in Event /\ e.fd \in Fds /\ e.for \in Peers
  BY DEF Typed, Event
<1>4. \A i \in DOMAIN backlog : backlog[i] \in Peers
  BY DEF Typed
<1> QED BY <1>1, <1>2, <1>3, <1>4 DEF Subscribed

(* Clients that stay where they are, and a backlog that does.              *)
LEMMA PlacesKept ==
    ASSUME Typed, PlacesInv, backlog' = backlog, waking' <= alerts',
           \A p \in Peers : Len(toPeer'[p]) <= SockBuf,
           \A fd \in Fds : clients'[fd] # NoClient =>
               /\ clients[fd] # NoClient /\ clients'[fd].peer = clients[fd].peer
               /\ peer'[clients[fd].peer] \in {"served", "left"},
           \A i \in DOMAIN backlog : peer'[backlog[i]] \in {"queued", "left"},
           stage' = "stopped" => Open' = {} /\ batch' = {} /\ ~draining'
    PROVE  PlacesInv'
<1>1. \A fd \in Open' : fd \in Open /\ fd \in Fds /\ clients'[fd].peer = clients[fd].peer
                        /\ peer'[clients'[fd].peer] \in {"served", "left"}
  BY DEF Open
<1>2. \A fd \in Open' : /\ \A g \in Open' : clients'[g].peer = clients'[fd].peer => g = fd
                        /\ \A i \in DOMAIN backlog' : backlog'[i] # clients'[fd].peer
  BY <1>1 DEF PlacesInv
<1>3. \A i \in DOMAIN backlog' : /\ peer'[backlog'[i]] \in {"queued", "left"}
                                 /\ \A j \in DOMAIN backlog' : backlog'[j] = backlog'[i] => j = i
  BY DEF PlacesInv
<1> QED BY <1>1, <1>2, <1>3 DEF PlacesInv

LEMMA InitPlaces ==
    ASSUME ServerAssumption, Init
    PROVE  Typed /\ PlacesInv
<1>1. /\ \A fd \in Fds : clients[fd] = NoClient
      /\ Open = {} /\ DOMAIN backlog = {} /\ MaxAlerts \in Nat
      /\ SockBuf \in Nat
  BY DEF Init, Open, ServerAssumption
<1>2. Typed
  <2>1. /\ <<>> \in Seq(Pieces) /\ <<>> \in Seq(Lines)
        /\ <<>> \in Seq(1..MaxAlerts) /\ <<>> \in Seq(Peers) /\ 0 \in Nat
        /\ 0 \in 0..MaxAlerts
    BY <1>1
  <2>2. clients \in Slots
    BY DEF Init, Slots
  <2>3. peer \in [Peers -> Stages]
    BY DEF Init, Stages
  <2> QED BY <2>1, <2>2, <2>3 DEF Init, Typed
<1>3. \A p \in Peers : Len(toPeer[p]) <= SockBuf
  BY <1>1 DEF Init
<1>4. waking <= alerts
  BY DEF Init
<1>5. stage = "stopped" => Open = {} /\ batch = {} /\ ~draining
  BY DEF Init
<1> QED BY <1>1, <1>2, <1>3, <1>4, <1>5 DEF PlacesInv

LEMMA ConnectPlaces ==
    ASSUME ServerAssumption, Typed, PlacesInv, NEW p \in Peers, Connect(p)
    PROVE  Typed' /\ PlacesInv'
<1>1. /\ peer[p] = "new" /\ stage # "stopped"
      /\ peer' = [peer EXCEPT ![p] = "queued"] /\ backlog' = Append(backlog, p)
      /\ UNCHANGED <<asked, shut, toServer, toPeer, got, srvVars, outVars, drained, causes>>
  BY DEF Connect
<1>2. /\ peer' \in [Peers -> Stages] /\ peer'[p] = "queued"
      /\ \A q \in Peers : q # p => peer'[q] = peer[q]
  BY <1>1 DEF Typed, Stages
<1>3. /\ backlog' \in Seq(Peers) /\ DOMAIN backlog' = 1..(Len(backlog) + 1)
      /\ DOMAIN backlog = 1..Len(backlog) /\ Len(backlog) \in Nat
      /\ \A i \in DOMAIN backlog : backlog'[i] = backlog[i] /\ backlog[i] \in Peers
      /\ backlog'[Len(backlog) + 1] = p
  <2>1. backlog \in Seq(Peers) /\ backlog' = Append(backlog, p) /\ p \in Peers
    BY <1>1 DEF Typed
  <2>2. /\ Len(backlog) \in Nat /\ DOMAIN backlog = 1..Len(backlog)
        /\ \A i \in DOMAIN backlog : backlog[i] \in Peers
    BY <2>1, ElementsOf
  <2>3. /\ backlog' \in Seq(Peers) /\ Len(backlog') = Len(backlog) + 1
        /\ DOMAIN backlog' = 1..(Len(backlog) + 1)
        /\ \A i \in 1..Len(backlog) : backlog'[i] = backlog[i]
        /\ backlog'[Len(backlog) + 1] = p
    BY <2>1
  <2> QED BY <2>2, <2>3
<1>4. Typed'
  BY <1>1, <1>2, <1>3 DEF Typed, srvVars, outVars
<1>5. /\ Open' = Open /\ clients' = clients
      /\ \A fd \in Open : clients[fd].peer \in Peers /\ clients[fd].peer # p
  BY <1>1, OpenIs DEF Open, srvVars, PlacesInv
<1>6. \A i \in DOMAIN backlog' : i \in DOMAIN backlog \/ i = Len(backlog) + 1
  BY <1>3
<1>7. \A i \in DOMAIN backlog : backlog[i] # p /\ i # Len(backlog) + 1
  BY <1>1, <1>3 DEF PlacesInv
<1>8. \A i \in DOMAIN backlog' : /\ peer'[backlog'[i]] \in {"queued", "left"}
                                 /\ \A j \in DOMAIN backlog' : backlog'[j] = backlog'[i] => j = i
  <2>1. ASSUME NEW i \in DOMAIN backlog
        PROVE  /\ peer'[backlog'[i]] \in {"queued", "left"}
               /\ backlog'[i] # p
               /\ \A j \in DOMAIN backlog : backlog'[j] = backlog'[i] => j = i
    <3>1. backlog'[i] = backlog[i] /\ backlog[i] \in Peers /\ backlog[i] # p
      BY <1>3, <1>7
    <3>2. peer'[backlog[i]] = peer[backlog[i]]
      BY <1>2, <3>1
    <3>3. \A j \in DOMAIN backlog : backlog'[j] = backlog[j]
      BY <1>3
    <3> QED BY <3>1, <3>2, <3>3 DEF PlacesInv
  <2>2. peer'[backlog'[Len(backlog) + 1]] = "queued" /\ backlog'[Len(backlog) + 1] = p
    BY <1>2, <1>3
  <2> SUFFICES ASSUME NEW i \in DOMAIN backlog'
               PROVE  /\ peer'[backlog'[i]] \in {"queued", "left"}
                      /\ \A j \in DOMAIN backlog' : backlog'[j] = backlog'[i] => j = i
    OBVIOUS
  <2>3. CASE i \in DOMAIN backlog
    BY <1>6, <2>1, <2>2, <2>3
  <2>4. CASE i = Len(backlog) + 1
    BY <1>6, <2>1, <2>2, <2>4
  <2> QED BY <1>6, <2>3, <2>4
<1>9. \A fd \in Open' : /\ peer'[clients'[fd].peer] \in {"served", "left"}
                        /\ \A g \in Open' : clients'[g].peer = clients'[fd].peer => g = fd
                        /\ \A i \in DOMAIN backlog' : backlog'[i] # clients'[fd].peer
  <2> SUFFICES ASSUME NEW fd \in Open
               PROVE  /\ peer'[clients[fd].peer] \in {"served", "left"}
                      /\ \A g \in Open : clients[g].peer = clients[fd].peer => g = fd
                      /\ \A i \in DOMAIN backlog' : backlog'[i] # clients[fd].peer
    BY <1>5
  <2>1. clients[fd].peer \in Peers /\ clients[fd].peer # p
    BY <1>5
  <2>2. peer'[clients[fd].peer] = peer[clients[fd].peer]
    BY <1>2, <2>1
  <2>3. \A i \in DOMAIN backlog : backlog'[i] # clients[fd].peer
    BY <1>3 DEF PlacesInv
  <2>4. backlog'[Len(backlog) + 1] # clients[fd].peer
    BY <1>3, <2>1
  <2>5. \A i \in DOMAIN backlog' : backlog'[i] # clients[fd].peer
    BY <1>6, <2>3, <2>4
  <2> QED BY <2>2, <2>5 DEF PlacesInv
<1>10. waking' <= alerts' /\ \A q \in Peers : Len(toPeer'[q]) <= SockBuf
  BY <1>1 DEF PlacesInv, outVars
<1>11. stage' # "stopped"
  BY <1>1 DEF srvVars
<1> QED BY <1>4, <1>8, <1>9, <1>10, <1>11 DEF PlacesInv

LEMMA SendPlaces ==
    ASSUME ServerAssumption, Typed, PlacesInv, NEW p \in Peers,
           Shut(p) \/ Send(p)
    PROVE  Typed' /\ PlacesInv'
<1>1. /\ asked' = [asked EXCEPT ![p] = asked[p] + 1]
      /\ UNCHANGED <<peer, toPeer, got, backlog, srvVars, outVars, drained, causes>>
  BY DEF Send, Shut, Say, Typed
<1>2. asked' \in [Peers -> Nat]
  <2>1. asked \in [Peers -> Nat]
    BY DEF Typed
  <2> QED BY <1>1, <2>1
<1>3. toServer' \in [Peers -> Seq(Pieces)] /\ shut' \subseteq Peers
  <2>1. CASE Shut(p)
    BY <2>1 DEF Shut, Typed
  <2>2. CASE Send(p)
    <3>1. toServer[p] \in Seq(Pieces) /\ shut' = shut
          /\ toServer' = [toServer EXCEPT ![p] = toServer[p] \o Write(p)]
      BY <2>2 DEF Send, Typed
    <3>2. Script[p] \in Seq(Seq(Pieces)) /\ asked[p] \in Nat
      BY DEF ServerAssumption, Typed
    <3>3. asked[p] + 1 \in 1..Len(Script[p])
      BY <2>2, <3>2 DEF Send, Say
    <3>4. Write(p) \in Seq(Pieces)
      BY <3>2, <3>3, ElementOfSeq DEF Write
    <3>5. toServer[p] \o Write(p) \in Seq(Pieces)
      BY <3>1, <3>4, ConcatProperties
    <3> QED BY <3>1, <3>5 DEF Typed
  <2> QED BY <2>1, <2>2
<1>4. Typed'
  BY <1>1, <1>2, <1>3 DEF Typed, srvVars, outVars
<1>5. PlacesInv'
  BY <1>1 DEF PlacesInv, srvVars, outVars, Open
<1> QED BY <1>4, <1>5

LEMMA ReadPlaces ==
    ASSUME ServerAssumption, Typed, PlacesInv, NEW p \in Peers, Read(p)
    PROVE  Typed' /\ PlacesInv'
<1> DEFINE line == Head(toPeer[p])
<1>1. /\ toPeer[p] # <<>>
      /\ got' = IF line[1] = "alert" THEN [got EXCEPT ![p] = Append(got[p], line[2])] ELSE got
      /\ toPeer' = [toPeer EXCEPT ![p] = Tail(toPeer[p])]
      /\ UNCHANGED <<peer, asked, shut, toServer, backlog, srvVars, outVars, drained, causes>>
  BY DEF Read, Typed
<1>2. toPeer[p] \in Seq(Lines) /\ got[p] \in Seq(1..MaxAlerts)
  BY DEF Typed
<1>3. line \in Lines /\ Tail(toPeer[p]) \in Seq(Lines)
  BY <1>1, <1>2, NumbersOfRest
<1>4. got' \in [Peers -> Seq(1..MaxAlerts)]
  <2>1. CASE line[1] = "alert"
    <3> DEFINE N == 1..MaxAlerts
    <3>1. got[p] \in Seq(N) /\ line[2] \in N
      BY <1>2, <1>3, <2>1, LinesDiffer
    <3> HIDE DEF N, line
    <3>2. Append(got[p], line[2]) \in Seq(N)
      BY <3>1, AppendProperties
    <3> QED BY <1>1, <2>1, <3>2 DEF Typed, N
  <2>2. CASE line[1] # "alert"
    BY <1>1, <2>2 DEF Typed
  <2> QED BY <2>1, <2>2
<1> HIDE DEF line
<1>5. toPeer' \in [Peers -> Seq(Lines)]
  BY <1>1, <1>3 DEF Typed
<1>6. Typed'
  BY <1>1, <1>4, <1>5 DEF Typed, srvVars, outVars
<1>7. \A q \in Peers : Len(toPeer'[q]) <= SockBuf
  <2>1. Len(Tail(toPeer[p])) = Len(toPeer[p]) - 1 /\ Len(toPeer[p]) \in Nat
    BY <1>1, <1>2, EmptySeq
  <2>2. Len(toPeer[p]) <= SockBuf /\ SockBuf \in Nat
    BY DEF PlacesInv, ServerAssumption
  <2>3. Len(Tail(toPeer[p])) <= SockBuf
    BY <2>1, <2>2
  <2> QED BY <1>1, <2>3 DEF PlacesInv, Typed
<1>8. PlacesInv'
  BY <1>1, <1>7 DEF PlacesInv, srvVars, outVars, Open
<1> QED BY <1>6, <1>8

LEMMA HangUpPlaces ==
    ASSUME ServerAssumption, Typed, PlacesInv, NEW p \in Peers, HangUp(p)
    PROVE  Typed' /\ PlacesInv'
<1>1. /\ peer' = [peer EXCEPT ![p] = "left"]
      /\ toPeer' = [toPeer EXCEPT ![p] = <<>>]
      /\ UNCHANGED <<asked, shut, toServer, got, backlog, srvVars, outVars, drained, causes>>
  BY DEF HangUp
<1>2. <<>> \in Seq(Lines) /\ Len(<<>>) <= SockBuf
  BY DEF ServerAssumption
<1>3. Typed'
  BY <1>1, <1>2 DEF Typed, srvVars, outVars, Stages
<1>4. \A q \in Peers : Len(toPeer'[q]) <= SockBuf
  BY <1>1, <1>2 DEF PlacesInv, Typed
<1>5. \A q \in Peers : peer'[q] = peer[q] \/ peer'[q] = "left"
  BY <1>1 DEF Typed
<1>6. /\ \A fd \in Fds : clients'[fd] # NoClient =>
             /\ clients[fd] # NoClient /\ clients'[fd].peer = clients[fd].peer
             /\ peer'[clients[fd].peer] \in {"served", "left"}
      /\ \A i \in DOMAIN backlog : peer'[backlog[i]] \in {"queued", "left"}
  BY <1>1, <1>5, OpenIs DEF PlacesInv, srvVars, Open
<1>7. /\ backlog' = backlog /\ waking' <= alerts'
      /\ stage' = "stopped" => Open' = {} /\ batch' = {} /\ ~draining'
  BY <1>1 DEF PlacesInv, srvVars, outVars, Open
<1>8. PlacesInv'
  BY <1>4, <1>6, <1>7, PlacesKept
<1> QED BY <1>3, <1>8

LEMMA TrimmedType ==
    ASSUME ServerAssumption, NEW T, NEW q \in Seq(T)
    PROVE  Trimmed(q) \in Seq(T)
<1> DEFINE m == Max({1, Len(q) - OutboxMax + 1})
<1>1. Len(q) \in Nat /\ OutboxMax \in Nat
  BY DEF ServerAssumption
<1>2. m \in Int /\ m >= 1
  BY <1>1, MaxOfTwo
<1> HIDE DEF m
<1>3. SubSeq(q, m, Len(q)) \in Seq(T)
  BY <1>1, <1>2, SubSeqProperties
<1> QED BY <1>3 DEF Trimmed, m

LEMMA QueuePlaces ==
    ASSUME ServerAssumption, Typed, PlacesInv, Queue
    PROVE  Typed' /\ PlacesInv'
<1>1. /\ stage = "running" /\ alerts < MaxAlerts /\ alerts' = alerts + 1
      /\ outbox' = Append(Trimmed(outbox), alerts + 1)
      /\ waking' = waking + 1
      /\ UNCHANGED <<peerVars, srvVars, wake, drained, causes>>
  BY DEF Queue
<1>2. /\ alerts \in Nat /\ waking \in Nat /\ waking <= alerts /\ MaxAlerts \in Nat
      /\ alerts <= MaxAlerts
  BY DEF Typed, PlacesInv, ServerAssumption
<1>3. alerts' \in 0..MaxAlerts /\ waking' \in 0..MaxAlerts /\ waking' <= alerts'
      /\ alerts + 1 \in 1..MaxAlerts
  BY <1>1, <1>2
<1>4. outbox' \in Seq(1..MaxAlerts)
  <2> DEFINE T == 1..MaxAlerts  n == alerts + 1
  <2>1. outbox \in Seq(T) /\ n \in T /\ outbox' = Append(Trimmed(outbox), n)
    BY <1>1, <1>3 DEF Typed
  <2> HIDE DEF T, n
  <2>2. Trimmed(outbox) \in Seq(T)
    BY <2>1, TrimmedType
  <2>3. Append(Trimmed(outbox), n) \in Seq(T)
    BY <2>1, <2>2, AppendProperties
  <2> QED BY <2>1, <2>3 DEF T
<1>5. Typed'
  BY <1>1, <1>3, <1>4 DEF Typed, peerVars, srvVars
<1>6. PlacesInv'
  BY <1>1, <1>3 DEF PlacesInv, peerVars, srvVars, Open
<1> QED BY <1>5, <1>6

LEMMA WakePlaces ==
    ASSUME ServerAssumption, Typed, PlacesInv, WakeLoop \/ Stop \/ TakeWake
    PROVE  Typed' /\ PlacesInv'
<1>0. waking \in Nat /\ alerts \in Nat /\ waking <= alerts /\ MaxAlerts \in Nat /\ alerts <= MaxAlerts
  BY DEF Typed, PlacesInv, ServerAssumption
<1>1. CASE WakeLoop
  <2>1. /\ waking > 0 /\ waking' = waking - 1 /\ wake' = TRUE
        /\ UNCHANGED <<peerVars, srvVars, outbox, alerts, drained, causes>>
    BY <1>1 DEF WakeLoop
  <2>2. waking' \in 0..MaxAlerts /\ waking' <= alerts'
    BY <1>0, <2>1
  <2>3. Typed'
    BY <2>1, <2>2 DEF Typed, peerVars, srvVars
  <2>4. PlacesInv'
    BY <2>1, <2>2 DEF PlacesInv, peerVars, srvVars, Open
  <2> QED BY <2>3, <2>4
<1>2. CASE Stop
  <2>1. stage' = "stopping" /\ wake' = TRUE
        /\ UNCHANGED <<peerVars, clients, subscribers, batch, draining, outbox, waking, alerts,
                       drained, causes>>
    BY <1>2 DEF Stop
  <2>2. Typed'
    BY <2>1 DEF Typed, peerVars
  <2>3. PlacesInv'
    BY <2>1 DEF PlacesInv, peerVars, Open
  <2> QED BY <2>2, <2>3
<1>3. CASE TakeWake
  <2>1. /\ Wakeup \in batch /\ batch' = batch \ {Wakeup} /\ wake' = FALSE /\ draining' = TRUE
        /\ UNCHANGED <<peerVars, clients, subscribers, stage, outbox, waking, alerts, drained,
                       causes>>
    BY <1>3 DEF TakeWake, Handle
  <2>2. Typed'
    BY <2>1 DEF Typed, peerVars
  <2>3. stage # "stopped"
    BY <2>1 DEF PlacesInv
  <2>4. PlacesInv'
    BY <2>1, <2>3 DEF PlacesInv, peerVars, Open
  <2> QED BY <2>2, <2>4
<1> QED BY <1>1, <1>2, <1>3

LEMMA ReadyIs ==
    ASSUME Typed
    PROVE  /\ Ready \subseteq Event \cup {Listen, Wakeup}
           /\ \A e \in Ready \ {Listen, Wakeup} :
                 /\ e.fd \in Open /\ e.for = clients[e.fd].peer
                 /\ e.hup => peer[e.for] = "left"
<1>1. ASSUME NEW fd \in Open
      PROVE  /\ ReadyFor(fd) \in Event
             /\ ReadyFor(fd).fd = fd /\ ReadyFor(fd).for = clients[fd].peer
             /\ ReadyFor(fd).hup => peer[clients[fd].peer] = "left"
  <2>1. fd \in Fds /\ clients[fd] \in Client /\ clients[fd].peer \in Peers /\ clients[fd].armed \in BOOLEAN
    BY OpenIs DEF Client
  <2> DEFINE gone == peer[clients[fd].peer] = "left"
             a == gone \/ clients[fd].peer \in shut \/ toServer[clients[fd].peer] # <<>>
             b == clients[fd].armed /\ (gone \/ Len(toPeer[clients[fd].peer]) < SockBuf)
  <2>2. ReadyFor(fd) = [fd |-> fd, for |-> clients[fd].peer, hup |-> gone, in |-> a, out |-> b]
    BY DEF ReadyFor
  <2>3. gone \in BOOLEAN /\ a \in BOOLEAN /\ b \in BOOLEAN
    BY <2>1
  <2> HIDE DEF gone, a, b
  <2>4. /\ ReadyFor(fd) \in Event /\ ReadyFor(fd).fd = fd /\ ReadyFor(fd).for = clients[fd].peer
        /\ ReadyFor(fd).hup = gone
    BY <2>1, <2>2, <2>3 DEF Event
  <2> QED BY <2>4 DEF gone
<1>2. \A e \in Ready : e \in {Listen, Wakeup} \/ \E fd \in Open : e = ReadyFor(fd)
  BY DEF Ready
<1> QED BY <1>1, <1>2

LEMMA LoopPlaces ==
    ASSUME ServerAssumption, Typed, PlacesInv,
           EpollWait \/ Join \/ \E e \in batch \ {Listen, Wakeup} : DeadEvent(e)
    PROVE  Typed' /\ PlacesInv'
<1>1. CASE EpollWait
  <2>1. /\ stage = "running" /\ batch' = Ready
        /\ UNCHANGED <<peerVars, clients, subscribers, draining, stage, outVars, drained, causes>>
    BY <1>1 DEF EpollWait
  <2>2. Typed'
    BY <2>1, ReadyIs DEF Typed, peerVars, outVars
  <2>3. PlacesInv'
    BY <2>1 DEF PlacesInv, peerVars, outVars, Open
  <2> QED BY <2>2, <2>3
<1>2. CASE Join
  <2> DEFINE left == {clients[fd].peer : fd \in Open} \cup Range(backlog)
  <2>1. /\ stage = "stopping" /\ batch = {} /\ ~draining /\ stage' = "stopped"
        /\ clients' = [fd \in Fds |-> NoClient] /\ backlog' = <<>>
        /\ peer' = [p \in Peers |-> IF p \in left /\ peer[p] # "left" THEN "cut" ELSE peer[p]]
        /\ causes' = causes \cup (left \X {"stopped"})
        /\ UNCHANGED <<asked, shut, toServer, toPeer, got, subscribers, batch, draining, outVars, drained>>
    BY <1>2 DEF Join
  <2>2. left \subseteq Peers
    BY OpenIs DEF Range
  <2> HIDE DEF left
  <2>3. causes' \subseteq Peers \X Causes
    BY <2>1, <2>2 DEF Typed, Causes
  <2>4. clients' \in Slots /\ Open' = {}
    BY <2>1 DEF Slots, Open
  <2>5. peer' \in [Peers -> Stages] /\ backlog' \in Seq(Peers)
    BY <2>1 DEF Typed, Stages
  <2>6. Typed'
    BY <2>1, <2>3, <2>4, <2>5 DEF Typed, outVars
  <2>7. DOMAIN backlog' = {}
    BY <2>1
  <2>8. PlacesInv'
    BY <2>1, <2>4, <2>7 DEF PlacesInv, outVars
  <2> QED BY <2>6, <2>8
<1>3. ASSUME NEW e \in batch, DeadEvent(e) PROVE Typed' /\ PlacesInv'
  <2>1. /\ batch' = batch \ {e}
        /\ UNCHANGED <<peerVars, clients, subscribers, draining, stage, outVars, drained, causes>>
    BY <1>3 DEF DeadEvent, Handle
  <2>2. Typed'
    BY <2>1 DEF Typed, peerVars, outVars
  <2>3. PlacesInv'
    BY <2>1 DEF PlacesInv, peerVars, outVars, Open
  <2> QED BY <2>2, <2>3
<1> QED BY <1>1, <1>2, <1>3

(* What accepting does to the peers, the sockets and the clients.          *)
LEMMA AcceptIs ==
    ASSUME ServerAssumption, Typed, PlacesInv, Accept
    PROVE  /\ Seated(clients', Len(backlog)) /\ backlog' = <<>>
           /\ Listen \in batch /\ batch' = batch \ {Listen}
           /\ UNCHANGED <<asked, shut, toServer, got, subscribers, draining, stage, outVars, drained>>
           /\ \A p \in Peers : \/ peer'[p] = peer[p] /\ toPeer'[p] = toPeer[p]
                               \/ /\ peer[p] = "queued" /\ peer'[p] = "served"
                                  /\ toPeer'[p] = <<Hello>>
                               \/ /\ peer[p] = "queued" /\ peer'[p] = "cut" /\ p \in Range(backlog)
                                  /\ toPeer'[p] = toPeer[p]
                                  /\ \A fd \in Fds : clients'[fd] # NoClient => clients'[fd].peer # p
           /\ \A fd \in Open : peer'[clients[fd].peer] = peer[clients[fd].peer]
           /\ \A fd \in Fds : clients'[fd] # NoClient /\ clients[fd] = NoClient =>
                 \E p \in Peers : /\ clients'[fd] = Newcomer(p) /\ peer[p] \in {"queued", "left"}
                                  /\ peer[p] = "queued" => toPeer'[p] = <<Hello>> /\ peer'[p] = "served"
           /\ peer' \in [Peers -> Stages] /\ toPeer' \in [Peers -> Seq(Lines)]
           /\ causes \subseteq causes' /\ causes' \subseteq causes \cup (Peers \X {"refused"})
<1> DEFINE served == {AcceptAll[fd].peer : fd \in {f \in Fds : AcceptAll[f] # NoClient}}
           waiting == Range(backlog)
<1>1. /\ Listen \in batch /\ batch' = batch \ {Listen}
      /\ clients' = AcceptAll
      /\ peer' = [p \in Peers |-> IF p \in waiting /\ peer[p] = "queued"
                                  THEN IF p \in served THEN "served" ELSE "cut"
                                  ELSE peer[p]]
      /\ toPeer' = [p \in Peers |-> IF p \in waiting \cap served /\ peer[p] = "queued"
                                    THEN <<Hello>> ELSE toPeer[p]]
      /\ causes' = causes \cup ((waiting \ served) \X {"refused"})
      /\ backlog' = <<>>
      /\ UNCHANGED <<asked, shut, toServer, got, subscribers, draining, stage, outVars, drained>>
  BY DEF Accept, Handle
<1>2. clients \in Slots /\ backlog \in Seq(Peers)
  BY DEF Typed
<1>3. Seated(clients', Len(backlog))
  BY <1>1, <1>2, AcceptAllIs
<1>4. \A p \in Peers : p \in served <=> \E fd \in Fds : clients'[fd] # NoClient /\ clients'[fd].peer = p
  BY <1>1
<1>5. \A p \in Peers : p \in waiting <=> \E i \in DOMAIN backlog : backlog[i] = p
  BY DEF Range
<1>6. waiting \subseteq Peers
  BY <1>2 DEF Range
<1> HIDE DEF served, waiting
<1>7. peer' \in [Peers -> Stages] /\ toPeer' \in [Peers -> Seq(Lines)]
  <2>1. <<Hello>> \in Seq(Lines)
    BY LinesDiffer
  <2> QED BY <1>1, <2>1 DEF Typed, Stages
<1>8. \A p \in Peers : \/ peer'[p] = peer[p] /\ toPeer'[p] = toPeer[p]
                       \/ /\ peer[p] = "queued" /\ peer'[p] = "served"
                          /\ toPeer'[p] = <<Hello>>
                       \/ /\ peer[p] = "queued" /\ peer'[p] = "cut" /\ p \in Range(backlog)
                          /\ toPeer'[p] = toPeer[p]
                          /\ \A fd \in Fds : clients'[fd] # NoClient => clients'[fd].peer # p
  BY <1>1, <1>4 DEF waiting
<1>9. \A fd \in Open : peer'[clients[fd].peer] = peer[clients[fd].peer]
  <2> TAKE fd \in Open
  <2>1. clients[fd].peer \in Peers /\ clients[fd].peer \notin waiting
    BY <1>5, OpenIs DEF PlacesInv
  <2> QED BY <1>1, <2>1
<1>10. ASSUME NEW fd \in Fds, clients'[fd] # NoClient, clients[fd] = NoClient
       PROVE  \E p \in Peers : /\ clients'[fd] = Newcomer(p) /\ peer[p] \in {"queued", "left"}
                               /\ peer[p] = "queued" => toPeer'[p] = <<Hello>> /\ peer'[p] = "served"
  <2>1. PICK j \in 1..Len(backlog) : clients'[fd] = Newcomer(backlog[j])
    BY <1>3, <1>10 DEF Seated
  <2> DEFINE p == backlog[j]
  <2>2. j \in DOMAIN backlog /\ p \in Peers
    BY <1>2, ElementsOf
  <2>3. p \in waiting /\ p \in served /\ peer[p] \in {"queued", "left"}
    BY <1>4, <1>5, <1>10, <2>1, <2>2, ClientsDiffer DEF PlacesInv
  <2>4. peer[p] = "queued" => toPeer'[p] = <<Hello>> /\ peer'[p] = "served"
    BY <1>1, <2>2, <2>3
  <2> QED BY <2>1, <2>2, <2>3, <2>4
<1>11. causes \subseteq causes' /\ causes' \subseteq causes \cup (Peers \X {"refused"})
  BY <1>1, <1>6
<1> QED BY <1>1, <1>3, <1>7, <1>8, <1>9, <1>10, <1>11

LEMMA AcceptPlaces ==
    ASSUME ServerAssumption, Typed, PlacesInv, Accept
    PROVE  Typed' /\ PlacesInv'
<1>1. /\ Seated(clients', Len(backlog)) /\ backlog' = <<>>
      /\ Listen \in batch /\ batch' = batch \ {Listen}
      /\ UNCHANGED <<asked, shut, toServer, got, subscribers, draining, stage, outVars, drained>>
      /\ peer' \in [Peers -> Stages] /\ toPeer' \in [Peers -> Seq(Lines)]
      /\ causes \subseteq causes' /\ causes' \subseteq causes \cup (Peers \X {"refused"})
  BY AcceptIs
<1>2. Typed'
  <2>1. clients' \in Slots /\ backlog' \in Seq(Peers)
    BY <1>1 DEF Seated
  <2>2. causes' \subseteq Peers \X Causes
    BY <1>1 DEF Typed, Causes
  <2> QED BY <1>1, <2>1, <2>2 DEF Typed, outVars
<1>3. stage' # "stopped"
  BY <1>1 DEF PlacesInv
<1>4. \A p \in Peers : Len(toPeer'[p]) <= SockBuf
  <2>1. Len(<<Hello>>) <= SockBuf
    BY DEF ServerAssumption
  <2> QED BY <2>1, AcceptIs DEF PlacesInv
<1>5. DOMAIN backlog' = {}
  BY <1>1
<1>6. ASSUME NEW fd \in Fds, clients'[fd] # NoClient
      PROVE  peer'[clients'[fd].peer] \in {"served", "left"}
  <2>1. CASE clients[fd] # NoClient
    <3>1. /\ fd \in Open /\ clients'[fd] = clients[fd]
          /\ peer'[clients[fd].peer] = peer[clients[fd].peer]
      BY <1>1, <2>1, AcceptIs DEF Seated, Open
    <3> QED BY <3>1 DEF PlacesInv
  <2>2. CASE clients[fd] = NoClient
    <3>1. PICK p \in Peers : /\ clients'[fd] = Newcomer(p) /\ peer[p] \in {"queued", "left"}
                             /\ peer[p] = "queued" => peer'[p] = "served"
      BY <1>6, <2>2, AcceptIs
    <3>2. clients'[fd].peer = p
      BY <3>1, ClientsDiffer
    <3>3. peer[p] = "left" => peer'[p] = "left"
      BY AcceptIs
    <3> QED BY <3>1, <3>2, <3>3
  <2> QED BY <2>1, <2>2
<1>7. \A fd, g \in Fds : clients'[fd] # NoClient /\ clients'[g] # NoClient
                            /\ clients'[fd].peer = clients'[g].peer => fd = g
  BY <1>1 DEF Seated
<1>8. waking' <= alerts'
  BY <1>1 DEF PlacesInv, outVars
<1>9. PlacesInv'
  BY <1>3, <1>4, <1>5, <1>6, <1>7, <1>8 DEF PlacesInv, Open
<1> QED BY <1>2, <1>9

(* What closing some connections does to the peers.                        *)
LEMMA DropIs ==
    ASSUME ServerAssumption, Typed, PlacesInv,
           NEW fds \in SUBSET Open, NEW cause, DropAll(fds, cause)
    PROVE  /\ peer' \in [Peers -> Stages]
           /\ \A p \in Peers : \/ peer'[p] = peer[p]
                               \/ peer[p] = "served" /\ peer'[p] = "cut"
           /\ \A fd \in Open \ fds : peer'[clients[fd].peer] = peer[clients[fd].peer]
           /\ \A i \in DOMAIN backlog : peer'[backlog[i]] = peer[backlog[i]]
           /\ subscribers' = subscribers - Cardinality(fds \cap Subscribed)
<1>1. /\ subscribers' = subscribers - Cardinality(fds \cap Subscribed)
      /\ peer' = [p \in Peers |->
                     IF peer[p] = "served" /\ \E fd \in fds : clients[fd].peer = p
                     THEN "cut" ELSE peer[p]]
  BY DEF DropAll
<1>2. peer' \in [Peers -> Stages]
  BY <1>1 DEF Typed, Stages
<1>3. \A fd \in Open \ fds : peer'[clients[fd].peer] = peer[clients[fd].peer]
  <2> TAKE fd \in Open \ fds
  <2>1. \A g \in fds : clients[g].peer # clients[fd].peer
    BY DEF PlacesInv
  <2>2. clients[fd].peer \in Peers
    BY OpenIs
  <2> QED BY <1>1, <2>1, <2>2
<1>4. \A i \in DOMAIN backlog : peer'[backlog[i]] = peer[backlog[i]]
  BY <1>1, OpenIs DEF PlacesInv
<1> QED BY <1>1, <1>2, <1>3, <1>4

(***************************************************************************)
(* The drain of the outbox.                                                *)
(***************************************************************************)

newLines == [i \in DOMAIN outbox |-> Alert(outbox[i])]
After(fd) == WriteAll(Conn(clients[fd]), newLines)
Dead == {fd \in Subscribed : ~After(fd).ok}

LEMMA ConnIs ==
    ASSUME ServerAssumption, Typed, PlacesInv, NEW fd \in Open
    PROVE  /\ Sound(Conn(clients[fd])) /\ Conn(clients[fd]).ok
           /\ Conn(clients[fd]).open = (peer[clients[fd].peer] # "left")
           /\ Conn(clients[fd]).sock = toPeer[clients[fd].peer]
           /\ Conn(clients[fd]).out = clients[fd].out
<1>1. clients[fd].peer \in Peers /\ clients[fd].out \in Seq(Lines)
  BY OpenIs
<1>2. toPeer[clients[fd].peer] \in Seq(Lines) /\ Len(toPeer[clients[fd].peer]) <= SockBuf
  BY <1>1 DEF Typed, PlacesInv
<1> QED BY <1>1, <1>2 DEF Conn, Sound, Conns

LEMMA KeptIs ==
    ASSUME NEW c \in Client, NEW w, Sound(w)
    PROVE  /\ Kept(c, w) \in Client /\ Kept(c, w) # NoClient
           /\ Kept(c, w).peer = c.peer /\ Kept(c, w).subscribed = c.subscribed
           /\ Kept(c, w).since = c.since /\ Kept(c, w).out = w.out
<1>1. w.out \in Seq(Lines)
  BY DEF Sound, Conns
<1>2. /\ Kept(c, w) \in Client
      /\ Kept(c, w).peer = c.peer /\ Kept(c, w).subscribed = c.subscribed
      /\ Kept(c, w).since = c.since /\ Kept(c, w).out = w.out
  BY <1>1 DEF Kept, Client
<1> QED BY <1>2, ClientsDiffer

LEMMA DrainIs ==
    ASSUME ServerAssumption, Typed, PlacesInv, Drain
    PROVE  /\ draining /\ draining' = FALSE /\ outbox' = <<>> /\ drained' = drained \o outbox
           /\ UNCHANGED <<asked, shut, toServer, got, backlog, batch, stage, wake, waking, alerts>>
           /\ \A fd \in Subscribed :
                 /\ Sound(After(fd)) /\ After(fd).open = (peer[clients[fd].peer] # "left")
                 /\ After(fd).ok =>
                       After(fd).sock \o After(fd).out
                           = (toPeer[clients[fd].peer] \o clients[fd].out) \o newLines
                 /\ toPeer'[clients[fd].peer] = After(fd).sock
           /\ \A fd \in Fds : clients'[fd] = IF fd \in Dead THEN NoClient
                                             ELSE IF fd \in Subscribed THEN Kept(clients[fd], After(fd))
                                             ELSE clients[fd]
           /\ clients' \in Slots
           /\ \A p \in Peers : (\A fd \in Subscribed : clients[fd].peer # p) => toPeer'[p] = toPeer[p]
           /\ toPeer' \in [Peers -> Seq(Lines)]
           /\ DropAll(Dead, [fd \in Dead |-> Cause(fd, After(fd).out, clients[fd].peer)])
<1> DEFINE after == [fd \in Subscribed |-> WriteAll(Conn(clients[fd]), newLines)]
           dead == {fd \in Subscribed : ~after[fd].ok}
           holder(p) == CHOOSE fd \in Subscribed : clients[fd].peer = p
<1>1. /\ draining /\ draining' = FALSE /\ outbox' = <<>> /\ drained' = drained \o outbox
      /\ clients' = [fd \in Fds |->
                            IF fd \in dead THEN NoClient
                            ELSE IF fd \in Subscribed THEN Kept(clients[fd], after[fd])
                            ELSE clients[fd]]
      /\ toPeer' = [p \in Peers |->
                           IF \E fd \in Subscribed : clients[fd].peer = p
                           THEN after[holder(p)].sock
                           ELSE toPeer[p]]
      /\ DropAll(dead, [fd \in dead |-> Cause(fd, after[fd].out, clients[fd].peer)])
      /\ UNCHANGED <<asked, shut, toServer, got, backlog, batch, stage, wake, waking, alerts>>
  BY DEF Drain, newLines
<1>2. \A fd \in Subscribed : after[fd] = After(fd)
  BY DEF After
<1> HIDE DEF after
<1>3. dead = Dead
  BY <1>2 DEF Dead
<1> HIDE DEF dead
<1>4. [fd \in dead |-> Cause(fd, after[fd].out, clients[fd].peer)]
          = [fd \in Dead |-> Cause(fd, After(fd).out, clients[fd].peer)]
  BY <1>2, <1>3 DEF Dead
<1>5. newLines \in Seq(Lines)
  BY NumbersOfAlerts DEF Typed, newLines
<1>6. ASSUME NEW fd \in Subscribed
      PROVE  /\ Sound(After(fd)) /\ After(fd).open = (peer[clients[fd].peer] # "left")
             /\ After(fd).ok =>
                   After(fd).sock \o After(fd).out
                       = (toPeer[clients[fd].peer] \o clients[fd].out) \o newLines
  <2> DEFINE w == Conn(clients[fd])
  <2>1. fd \in Open
    BY OpenIs
  <2>2. /\ Sound(w) /\ w.open = (peer[clients[fd].peer] # "left")
        /\ w.sock = toPeer[clients[fd].peer] /\ w.out = clients[fd].out
    BY <2>1, ConnIs
  <2>3. After(fd) = WriteAll(w, newLines)
    BY DEF After
  <2> HIDE DEF w
  <2>4. /\ Sound(After(fd)) /\ After(fd).open = w.open
        /\ After(fd).ok => After(fd).sock \o After(fd).out = (w.sock \o w.out) \o newLines
    <3>1. Sound(w) /\ newLines \in Seq(Lines)
      BY <1>5, <2>2
    <3>2. /\ Sound(WriteAll(w, newLines)) /\ WriteAll(w, newLines).open = w.open
          /\ WriteAll(w, newLines).ok =>
                WriteAll(w, newLines).sock \o WriteAll(w, newLines).out
                    = (w.sock \o w.out) \o newLines
      BY <3>1, WriteAllIs
    <3> QED BY <2>3, <3>2
  <2> QED BY <2>2, <2>4
<1>7. ASSUME NEW fd \in Subscribed
      PROVE  toPeer'[clients[fd].peer] = After(fd).sock
  <2> DEFINE p == clients[fd].peer
  <2>1. fd \in Open /\ p \in Peers
    BY OpenIs
  <2>2. holder(p) \in Subscribed /\ clients[holder(p)].peer = p
    OBVIOUS
  <2>3. holder(p) = fd
    BY <2>1, <2>2, OpenIs DEF PlacesInv
  <2> HIDE DEF holder
  <2> QED BY <1>1, <1>2, <2>1, <2>3
<1>8. \A p \in Peers : (\A fd \in Subscribed : clients[fd].peer # p) => toPeer'[p] = toPeer[p]
  BY <1>1
<1>9. \A fd \in Fds : clients'[fd] = IF fd \in Dead THEN NoClient
                                     ELSE IF fd \in Subscribed THEN Kept(clients[fd], After(fd))
                                     ELSE clients[fd]
  BY <1>1, <1>2, <1>3
<1>10. clients' \in Slots
  <2>1. \A fd \in Fds : clients'[fd] \in Client \cup {NoClient}
    <3> TAKE fd \in Fds
    <3>1. fd \in Subscribed => Kept(clients[fd], After(fd)) \in Client
      BY <1>6, OpenIs, KeptIs
    <3>2. clients[fd] \in Client \cup {NoClient}
      BY DEF Typed, Slots
    <3> QED BY <1>9, <3>1, <3>2
  <2> QED BY <1>1, <2>1 DEF Slots
<1>11. toPeer' \in [Peers -> Seq(Lines)]
  <2>1. \A p \in Peers : toPeer'[p] \in Seq(Lines)
    <3> TAKE p \in Peers
    <3>1. CASE \E fd \in Subscribed : clients[fd].peer = p
      <4>1. PICK fd \in Subscribed : clients[fd].peer = p
        BY <3>1
      <4>2. toPeer'[p] = After(fd).sock /\ After(fd).sock \in Seq(Lines)
        BY <1>6, <1>7, <4>1 DEF Sound, Conns
      <4> QED BY <4>2
    <3>2. CASE ~\E fd \in Subscribed : clients[fd].peer = p
      BY <1>8, <3>2 DEF Typed
    <3> QED BY <3>1, <3>2
  <2> HIDE DEF holder
  <2> QED BY <1>1, <2>1
<1> QED BY <1>1, <1>3, <1>4, <1>6, <1>7, <1>8, <1>9, <1>10, <1>11

LEMMA CauseIs ==
    ASSUME NEW fd, NEW out, NEW p
    PROVE  Cause(fd, out, p) \in Causes
BY DEF Cause, Causes

LEMMA DrainPlaces ==
    ASSUME ServerAssumption, Typed, PlacesInv, Drain
    PROVE  Typed' /\ PlacesInv'
<1> DEFINE cause == [fd \in Dead |-> Cause(fd, After(fd).out, clients[fd].peer)]
<1>1. /\ draining /\ draining' = FALSE /\ outbox' = <<>> /\ drained' = drained \o outbox
      /\ UNCHANGED <<asked, shut, toServer, got, backlog, batch, stage, wake, waking, alerts>>
      /\ clients' \in Slots /\ toPeer' \in [Peers -> Seq(Lines)]
      /\ DropAll(Dead, cause)
  BY DrainIs
<1>2. Dead \in SUBSET Open /\ Dead \subseteq Subscribed
  BY OpenIs DEF Dead
<1>3. \A fd \in Dead : cause[fd] \in Causes /\ clients[fd].peer \in Peers
  BY <1>2, OpenIs, CauseIs
<1> HIDE DEF cause
<1>4. /\ peer' \in [Peers -> Stages]
      /\ \A p \in Peers : peer'[p] = peer[p] \/ (peer[p] = "served" /\ peer'[p] = "cut")
      /\ \A fd \in Open \ Dead : peer'[clients[fd].peer] = peer[clients[fd].peer]
      /\ \A i \in DOMAIN backlog : peer'[backlog[i]] = peer[backlog[i]]
  BY <1>1, <1>2, DropIs
<1>14. causes' = causes \cup {<<clients[fd].peer, cause[fd]>> : fd \in Dead}
  BY <1>1 DEF DropAll
<1>5. causes' \subseteq Peers \X Causes
  BY <1>3, <1>14 DEF Typed
<1>6. outbox' \in Seq(1..MaxAlerts) /\ drained' \in Seq(1..MaxAlerts)
  <2> DEFINE T == 1..MaxAlerts
  <2>1. outbox \in Seq(T) /\ drained \in Seq(T)
    BY DEF Typed
  <2> HIDE DEF T
  <2>2. drained \o outbox \in Seq(T) /\ <<>> \in Seq(T)
    BY <2>1
  <2> QED BY <1>1, <2>2 DEF T
<1>7. Typed'
  BY <1>1, <1>4, <1>5, <1>6 DEF Typed
<1>8. stage' # "stopped"
  BY <1>1 DEF PlacesInv
<1>9. \A p \in Peers : Len(toPeer'[p]) <= SockBuf
  <2> TAKE p \in Peers
  <2>1. CASE \E fd \in Subscribed : clients[fd].peer = p
    BY <2>1, DrainIs DEF Sound
  <2>2. CASE ~\E fd \in Subscribed : clients[fd].peer = p
    BY <2>2, DrainIs DEF PlacesInv
  <2> QED BY <2>1, <2>2
<1>10. ASSUME NEW fd \in Fds, clients'[fd] # NoClient
       PROVE  /\ clients[fd] # NoClient /\ clients'[fd].peer = clients[fd].peer
              /\ peer'[clients[fd].peer] \in {"served", "left"}
  <2>1. fd \notin Dead
    BY <1>10, DrainIs
  <2>2. fd \in Open /\ clients'[fd].peer = clients[fd].peer
    <3>1. CASE fd \in Subscribed
      <4>1. clients'[fd] = Kept(clients[fd], After(fd)) /\ Sound(After(fd))
        BY <2>1, <3>1, DrainIs
      <4> QED BY <3>1, <4>1, OpenIs, KeptIs
    <3>2. CASE fd \notin Subscribed
      BY <1>10, <2>1, <3>2, DrainIs DEF Open
    <3> QED BY <3>1, <3>2
  <2>3. peer'[clients[fd].peer] = peer[clients[fd].peer]
    BY <1>4, <2>1, <2>2
  <2> QED BY <2>2, <2>3 DEF PlacesInv, Open
<1>11. \A i \in DOMAIN backlog : peer'[backlog[i]] \in {"queued", "left"}
  BY <1>4 DEF PlacesInv
<1>12. backlog' = backlog /\ waking' <= alerts'
  BY <1>1 DEF PlacesInv
<1>13. PlacesInv'
  BY <1>8, <1>9, <1>10, <1>11, <1>12, PlacesKept
<1> QED BY <1>7, <1>13

LEMMA HupIs ==
    ASSUME ServerAssumption, Typed, PlacesInv, NEW e \in batch \ {Listen, Wakeup}, HupEvent(e)
    PROVE  /\ e.hup /\ batch' = batch \ {e}
           /\ UNCHANGED <<asked, shut, toServer, toPeer, got, backlog, draining, stage, outVars, drained>>
           /\ clients' = [fd \in Fds |-> IF fd \in {e.fd} \cap Open THEN NoClient ELSE clients[fd]]
           /\ {e.fd} \cap Open \in SUBSET Open
           /\ DropAll({e.fd} \cap Open,
                      [fd \in {e.fd} \cap Open |-> Cause(fd, clients[fd].out, e.for)])
BY DEF HupEvent, Handle

LEMMA HupPlaces ==
    ASSUME ServerAssumption, Typed, PlacesInv, NEW e \in batch \ {Listen, Wakeup}, HupEvent(e)
    PROVE  Typed' /\ PlacesInv'
<1> DEFINE hit == {e.fd} \cap Open
           cause == [fd \in hit |-> Cause(fd, clients[fd].out, e.for)]
<1>1. /\ e \in batch /\ batch' = batch \ {e}
      /\ UNCHANGED <<asked, shut, toServer, toPeer, got, backlog, draining, stage, outVars, drained>>
      /\ clients' = [fd \in Fds |-> IF fd \in hit THEN NoClient ELSE clients[fd]]
      /\ hit \in SUBSET Open
      /\ DropAll(hit, cause)
  BY HupIs
<1>2. \A fd \in hit : cause[fd] \in Causes /\ clients[fd].peer \in Peers
  BY OpenIs, CauseIs
<1> HIDE DEF cause, hit
<1>3. /\ peer' \in [Peers -> Stages]
      /\ \A fd \in Open \ hit : peer'[clients[fd].peer] = peer[clients[fd].peer]
      /\ \A i \in DOMAIN backlog : peer'[backlog[i]] = peer[backlog[i]]
  BY <1>1, DropIs
<1>11. causes' = causes \cup {<<clients[fd].peer, cause[fd]>> : fd \in hit}
  BY <1>1 DEF DropAll
<1>4. causes' \subseteq Peers \X Causes
  BY <1>2, <1>11 DEF Typed
<1>5. clients' \in Slots
  BY <1>1 DEF Typed, Slots
<1>6. Typed'
  BY <1>1, <1>3, <1>4, <1>5 DEF Typed, outVars
<1>7. \A fd \in Fds : clients'[fd] # NoClient =>
         /\ clients[fd] # NoClient /\ clients'[fd].peer = clients[fd].peer
         /\ peer'[clients[fd].peer] \in {"served", "left"}
  BY <1>1, <1>3 DEF PlacesInv, Open
<1>8. stage' # "stopped"
  BY <1>1 DEF PlacesInv
<1>9. /\ \A p \in Peers : Len(toPeer'[p]) <= SockBuf
      /\ \A i \in DOMAIN backlog : peer'[backlog[i]] \in {"queued", "left"}
      /\ backlog' = backlog /\ waking' <= alerts'
  BY <1>1, <1>3 DEF PlacesInv, outVars
<1>10. PlacesInv'
  BY <1>7, <1>8, <1>9, PlacesKept
<1> QED BY <1>6, <1>10

(***************************************************************************)
(* An event of a client.                                                   *)
(***************************************************************************)

Flushed(e) == IF e.out THEN Flush(Conn(clients[e.fd])) ELSE Conn(clients[e.fd])
Reads(e) == e.in /\ Flushed(e).ok
Taken(e) == IF Reads(e) THEN Fill(clients[e.fd]) ELSE <<>>
Replies(e) == [i \in 1..Cardinality(Ends(Taken(e))) |-> Reply]
Wrote(e) == WriteAll(Flushed(e), Replies(e))
Over(e) == Reads(e) /\ ~Alive(clients[e.fd]) /\ Wrote(e).out = <<>>
Joins(e) == "subscribe" \in Range(Taken(e)) /\ ~clients[e.fd].subscribed
Updated(e) == [clients[e.fd] EXCEPT !.subscribed = clients[e.fd].subscribed \/ Joins(e),
                                    !.held = Rest(clients[e.fd].held, Taken(e)),
                                    !.since = IF Joins(e) THEN Len(drained) ELSE clients[e.fd].since]

(* What is read is a part of what there is; it is not all only if there is *)
(* more than InMax.                                                        *)
LEMMA FillIs ==
    ASSUME ServerAssumption, Typed, NEW fd \in Open
    PROVE  /\ Fill(clients[fd]) \in Seq(Pieces) /\ AfterFill(clients[fd]) \in Seq(Pieces)
           /\ toServer[clients[fd].peer] = <<>> => AfterFill(clients[fd]) = <<>>
           /\ Len(Fill(clients[fd])) # Len(toServer[clients[fd].peer]) =>
                 clients[fd].held + Len(toServer[clients[fd].peer]) > InMax + 1
           /\ Len(Fill(clients[fd])) = Len(toServer[clients[fd].peer]) /\ Fill(clients[fd]) = <<>>
                 => toServer[clients[fd].peer] = <<>>
<1> DEFINE s == toServer[clients[fd].peer]  h == clients[fd].held  f == Fill(clients[fd])
           m == Min({Len(s), InMax + 1 - h})  r == AfterFill(clients[fd])
<1>1. s \in Seq(Pieces) /\ h \in Nat /\ InMax \in Nat
  BY OpenIs DEF Typed, ServerAssumption
<1>2. f = SubSeq(s, 1, m) /\ r = SubSeq(s, Len(f) + 2, Len(s))
  BY DEF Fill, AfterFill
<1> HIDE DEF s, h, f, r
<1>3. Len(s) \in Nat /\ InMax + 1 - h \in Int
  BY <1>1, ElementsOf
<1>4. m = IF Len(s) <= InMax + 1 - h THEN Len(s) ELSE InMax + 1 - h
  BY <1>3, MinOfTwo, SMTT(20)
<1> HIDE DEF m
<1>5. m \in Int /\ m <= Len(s)
  BY <1>3, <1>4
<1>6. /\ f \in Seq(Pieces) /\ Len(f) = IF 1 <= m THEN m ELSE 0
  BY <1>1, <1>2, <1>3, <1>5, SMTT(20)
<1>7. r \in Seq(Pieces) /\ (s = <<>> => r = <<>>)
  <2>1. Len(f) \in Nat /\ Len(f) + 2 \in Nat /\ Len(f) + 2 >= 1
    BY <1>5, <1>6
  <2> DEFINE k == Len(f) + 2
  <2>2. k \in Nat /\ k >= 1 /\ k > 1
    BY <2>1
  <2> HIDE DEF k
  <2>3. SubSeq(s, k, Len(s)) \in Seq(Pieces)
    BY <1>1, <1>3, <2>2
  <2>4. s = <<>> => SubSeq(s, k, Len(s)) = <<>>
    BY <1>1, <1>3, <2>2
  <2> QED BY <1>2, <2>3, <2>4 DEF k
<1>8. Len(f) # Len(s) => h + Len(s) > InMax + 1
  BY <1>1, <1>3, <1>4, <1>6
<1>9. Len(f) = Len(s) /\ f = <<>> => s = <<>>
  <2>1. Len(<<>>) = 0 /\ (Len(s) = 0 => s = <<>>)
    BY <1>1, EmptySeq
  <2> QED BY <2>1
<1> QED BY <1>6, <1>7, <1>8, <1>9 DEF s, h, f, r

LEMMA Greatest ==
    ASSUME NEW n \in Nat, NEW S, S \subseteq 1..n, S # {}
    PROVE  Max(S) \in S
<1> DEFINE D == {n - x : x \in S}
<1>1. D \subseteq Nat /\ D # {}
  <2>1. \A x \in S : x \in 1..n
    OBVIOUS
  <2>2. \A x \in 1..n : n - x \in Nat
    OBVIOUS
  <2>3. PICK x \in S : TRUE
    OBVIOUS
  <2>4. n - x \in D
    BY <2>3
  <2> QED BY <2>1, <2>2, <2>4
<1>2. PICK d \in D : \A e \in D : d <= e
  <2> HIDE DEF D
  <2> QED BY <1>1, Leasts
<1>3. PICK x \in S : d = n - x
  BY <1>2
<1>4. \A y \in S : x >= y
  <2> TAKE y \in S
  <2>1. n - x <= n - y
    BY <1>2, <1>3
  <2>2. x \in Nat /\ y \in Nat
    OBVIOUS
  <2> QED BY <2>1, <2>2
<1> QED BY <1>3, <1>4 DEF Max

LEMMA EndsIs ==
    ASSUME NEW s \in Seq(Pieces), NEW h \in Nat
    PROVE  Cardinality(Ends(s)) \in Nat /\ Rest(h, s) \in Nat
<1> DEFINE n == Len(s)  E == Ends(s)
<1>1. n \in Nat /\ DOMAIN s = 1..n
  BY ElementsOf
<1>2. E \subseteq 1..n
  BY <1>1 DEF Ends
<1>3. Rest(h, s) = IF E = {} THEN h + n ELSE n - Max(E)
  BY DEF Rest
<1> HIDE DEF n, E
<1>4. IsFiniteSet(E)
  <2>1. IsFiniteSet(1..n)
    <3>1. 1 \in Int /\ n \in Int
      BY <1>1
    <3> QED BY <3>1, FS_Interval
  <2> QED BY <2>1, <1>2, FS_Subset
<1>5. E # {} => Max(E) \in 1..n
  BY <1>1, <1>2, Greatest
<1>6. Rest(h, s) \in Nat
  BY <1>1, <1>3, <1>5
<1> QED BY <1>4, <1>6, FS_CardinalityType DEF E

LEMMA TakenIs ==
    ASSUME ServerAssumption, Typed, NEW e, e.fd \in Open
    PROVE  /\ Taken(e) \in Seq(Pieces) /\ Cardinality(Ends(Taken(e))) \in Nat
           /\ Rest(clients[e.fd].held, Taken(e)) \in Nat
<1>1. Taken(e) \in Seq(Pieces)
  <2>1. <<>> \in Seq(Pieces) /\ Fill(clients[e.fd]) \in Seq(Pieces)
    BY FillIs
  <2>2. Taken(e) = <<>> \/ Taken(e) = Fill(clients[e.fd])
    BY DEF Taken
  <2> QED BY <2>1, <2>2, Zenon
<1>2. clients[e.fd].held \in Nat
  BY OpenIs
<1> QED BY <1>1, <1>2, EndsIs

LEMMA UpdatedIs ==
    ASSUME ServerAssumption, Typed, NEW e, e.fd \in Open
    PROVE  /\ Updated(e) \in Client /\ Updated(e).peer = clients[e.fd].peer
           /\ Updated(e).subscribed = (clients[e.fd].subscribed \/ Joins(e))
           /\ Updated(e).since = IF Joins(e) THEN Len(drained) ELSE clients[e.fd].since
           /\ Joins(e) \in BOOLEAN /\ (Joins(e) => ~clients[e.fd].subscribed)
<1> DEFINE c == clients[e.fd]
           s == c.subscribed \/ Joins(e)
           h == Rest(c.held, Taken(e))
           t == IF Joins(e) THEN Len(drained) ELSE c.since
<1>1. c \in Client /\ c.subscribed \in BOOLEAN /\ c.since \in Nat /\ Len(drained) \in Nat
  BY OpenIs, SMTT(20) DEF Typed
<1>2. Joins(e) \in BOOLEAN /\ (Joins(e) => ~c.subscribed)
  BY DEF Joins
<1>3. s \in BOOLEAN /\ t \in Nat
  BY <1>1, <1>2
<1>6. h \in Nat
  BY TakenIs
<1>4. Updated(e) = [c EXCEPT !.subscribed = s, !.held = h, !.since = t]
  BY DEF Updated
<1> HIDE DEF c, s, t, h
<1>5. /\ Updated(e) \in Client /\ Updated(e).peer = c.peer
      /\ Updated(e).subscribed = s /\ Updated(e).since = t
  BY <1>1, <1>3, <1>4, <1>6 DEF Client
<1> QED BY <1>2, <1>5 DEF c, s, t

LEMMA WroteIs ==
    ASSUME ServerAssumption, Typed, PlacesInv, NEW e \in Event, e.fd \in Open
    PROVE  /\ Sound(Wrote(e)) /\ Wrote(e).open = (peer[clients[e.fd].peer] # "left")
           /\ Replies(e) \in Seq(Lines) /\ Numbers(Replies(e)) = <<>>
           /\ Wrote(e).ok =>
                 Wrote(e).sock \o Wrote(e).out
                     = (toPeer[clients[e.fd].peer] \o clients[e.fd].out) \o Replies(e)
<1> DEFINE w == Conn(clients[e.fd])  p == clients[e.fd].peer
<1>1. /\ Sound(w) /\ w.ok /\ w.open = (peer[p] # "left")
      /\ w.sock = toPeer[p] /\ w.out = clients[e.fd].out
  BY ConnIs
<1>2. p \in Peers
  BY OpenIs
<1> HIDE DEF w, p
<1>3. /\ Sound(Flushed(e)) /\ Flushed(e).open = w.open
      /\ Flushed(e).sock \o Flushed(e).out = w.sock \o w.out
  <2>1. CASE e.out
    <3>1. Flushed(e) = Flush(w)
      BY <2>1 DEF Flushed, w
    <3> QED BY <1>1, <3>1, FlushIs
  <2>2. CASE ~e.out
    <3>1. Flushed(e) = w
      BY <2>2 DEF Flushed, w
    <3> QED BY <1>1, <3>1
  <2> QED BY <2>1, <2>2
<1>4. Replies(e) \in Seq(Lines) /\ Numbers(Replies(e)) = <<>>
  <2> DEFINE n == Cardinality(Ends(Taken(e)))
  <2>2. n \in Nat
    BY TakenIs
  <2>3. Replies(e) = [i \in 1..n |-> Reply]
    BY DEF Replies
  <2> HIDE DEF n
  <2>4. /\ Replies(e) \in Seq(Lines) /\ Len(Replies(e)) = n
        /\ \A i \in 1..n : Replies(e)[i][1] # "alert"
    BY <2>2, <2>3, LinesDiffer
  <2> QED BY <2>4, NumbersOfOthers
<1>5. /\ Sound(Wrote(e)) /\ Wrote(e).open = Flushed(e).open
      /\ Wrote(e).ok => Wrote(e).sock \o Wrote(e).out = (Flushed(e).sock \o Flushed(e).out) \o Replies(e)
  BY <1>3, <1>4, WriteAllIs DEF Wrote
<1> QED BY <1>1, <1>3, <1>4, <1>5 DEF w, p

LEMMA IoIs ==
    ASSUME ServerAssumption, Typed, PlacesInv, NEW e \in batch \ {Listen, Wakeup}, IoEvent(e)
    PROVE  /\ ~e.hup /\ e.fd \in Open /\ e \in Event /\ batch' = batch \ {e}
           /\ UNCHANGED <<asked, shut, got, backlog, draining, stage, outVars, drained>>
           /\ toServer' = [toServer EXCEPT ![clients[e.fd].peer] =
                              IF Reads(e) THEN AfterFill(clients[e.fd]) ELSE toServer[clients[e.fd].peer]]
           /\ toServer' \in [Peers -> Seq(Pieces)]
           /\ toPeer' = [toPeer EXCEPT ![clients[e.fd].peer] = Wrote(e).sock]
           /\ \/ /\ Wrote(e).ok
                 /\ clients' = [clients EXCEPT ![e.fd] = Kept(Updated(e), Wrote(e))]
                 /\ subscribers' = subscribers + (IF Joins(e) THEN 1 ELSE 0)
                 /\ UNCHANGED <<peer, causes>>
              \/ /\ ~Wrote(e).ok \/ Over(e)
                 /\ clients' = [clients EXCEPT ![e.fd] = NoClient]
                 /\ DropAll({e.fd}, [fd \in {e.fd} |-> Cause(fd, Wrote(e).out, clients[e.fd].peer)])
<1> DEFINE p == clients[e.fd].peer
<1>1. /\ ~e.hup /\ e.fd \in Open /\ e \in Event /\ batch' = batch \ {e}
      /\ UNCHANGED <<asked, shut, got, backlog, draining, stage, outVars, drained>>
  BY OpenIs DEF IoEvent, Handle
<1>0. p \in Peers /\ toServer \in [Peers -> Seq(Pieces)]
  BY <1>1, OpenIs DEF Typed
<1>2. toServer' = [toServer EXCEPT ![p] = IF Reads(e) THEN AfterFill(clients[e.fd]) ELSE toServer[p]]
  BY <1>0 DEF IoEvent, Reads, Flushed
<1>3. toPeer' = [toPeer EXCEPT ![p] = Wrote(e).sock]
  BY DEF IoEvent, Taken, Reads, Flushed, Wrote, Replies
<1>4. toServer' \in [Peers -> Seq(Pieces)]
  <2> DEFINE s == IF Reads(e) THEN AfterFill(clients[e.fd]) ELSE toServer[p]
  <2>1. AfterFill(clients[e.fd]) \in Seq(Pieces) /\ toServer[p] \in Seq(Pieces)
    BY <1>0, <1>1, FillIs
  <2>2. s \in Seq(Pieces) /\ toServer' = [toServer EXCEPT ![p] = s]
    BY <1>2, <2>1
  <2> HIDE DEF s
  <2> QED BY <1>0, <2>2
<1>5. IF Wrote(e).ok /\ ~Over(e)
      THEN /\ clients' = [clients EXCEPT ![e.fd] = Kept(Updated(e), Wrote(e))]
           /\ subscribers' = subscribers + (IF Joins(e) THEN 1 ELSE 0)
           /\ UNCHANGED <<peer, causes>>
      ELSE /\ clients' = [clients EXCEPT ![e.fd] = NoClient]
           /\ DropAll({e.fd}, [fd \in {e.fd} |-> Cause(fd, Wrote(e).out, p)])
  <2> DEFINE c == clients[e.fd]
             flushed == IF e.out THEN Flush(Conn(c)) ELSE Conn(c)
             reads == e.in /\ flushed.ok
             pieces == IF reads THEN Fill(c) ELSE <<>>
             wrote == WriteAll(flushed, [i \in 1..Cardinality(Ends(pieces)) |-> Reply])
             over == reads /\ ~Alive(c) /\ wrote.out = <<>>
             joins == "subscribe" \in Range(pieces) /\ ~c.subscribed
             d == [c EXCEPT !.subscribed = @ \/ joins,
                            !.held = Rest(@, pieces),
                            !.since = IF joins THEN Len(drained) ELSE @]
  <2>1. IF wrote.ok /\ ~over
        THEN /\ clients' = [clients EXCEPT ![e.fd] = Kept(d, wrote)]
             /\ subscribers' = subscribers + (IF joins THEN 1 ELSE 0)
             /\ UNCHANGED <<peer, causes>>
        ELSE /\ clients' = [clients EXCEPT ![e.fd] = NoClient]
             /\ DropAll({e.fd}, [fd \in {e.fd} |-> Cause(fd, wrote.out, c.peer)])
    BY Zenon DEF IoEvent
  <2>2. flushed = Flushed(e)
    BY DEF Flushed
  <2> HIDE DEF flushed
  <2>8. reads = Reads(e)
    BY <2>2 DEF Reads
  <2> HIDE DEF reads
  <2>3. pieces = Taken(e)
    BY <2>8 DEF Taken
  <2> HIDE DEF pieces
  <2>4. wrote = Wrote(e)
    BY <2>2, <2>3 DEF Wrote, Replies
  <2> HIDE DEF wrote
  <2>5. over = Over(e)
    BY <2>8, <2>4 DEF Over
  <2>6. joins = Joins(e)
    BY <2>3 DEF Joins
  <2> HIDE DEF joins, over
  <2>7. d = Updated(e)
    BY <1>1, <2>3, <2>6, OpenIs DEF Updated, Client
  <2> HIDE DEF d
  <2> QED BY <2>1, <2>4, <2>5, <2>6, <2>7
<1> QED BY <1>1, <1>2, <1>3, <1>4, <1>5

LEMMA IoPlaces ==
    ASSUME ServerAssumption, Typed, PlacesInv, NEW e \in batch \ {Listen, Wakeup}, IoEvent(e)
    PROVE  Typed' /\ PlacesInv'
<1> DEFINE p == clients[e.fd].peer
<1>1. /\ e \in batch /\ e \in Event /\ e.fd \in Open /\ e.fd \in Fds /\ batch' = batch \ {e}
      /\ UNCHANGED <<asked, shut, got, backlog, draining, stage, outVars, drained>>
      /\ toServer' \in [Peers -> Seq(Pieces)]
      /\ toPeer' = [toPeer EXCEPT ![p] = Wrote(e).sock]
      /\ p \in Peers
  BY IoIs, OpenIs
<1>2. Wrote(e).sock \in Seq(Lines) /\ Len(Wrote(e).sock) <= SockBuf /\ Sound(Wrote(e))
  BY <1>1, WroteIs DEF Sound, Conns
<1>3. toPeer' \in [Peers -> Seq(Lines)] /\ \A q \in Peers : Len(toPeer'[q]) <= SockBuf
  BY <1>1, <1>2 DEF Typed, PlacesInv
<1>4. stage' # "stopped" /\ backlog' = backlog /\ waking' <= alerts'
  BY <1>1 DEF PlacesInv, outVars
<1>5. CASE /\ clients' = [clients EXCEPT ![e.fd] = Kept(Updated(e), Wrote(e))]
           /\ UNCHANGED <<peer, causes>>
  <2>1. /\ Kept(Updated(e), Wrote(e)) \in Client
        /\ Kept(Updated(e), Wrote(e)).peer = p
    BY <1>1, <1>2, UpdatedIs, KeptIs
  <2>2. clients' \in Slots
    BY <1>1, <1>5, <2>1 DEF Typed, Slots
  <2>3. Typed'
    BY <1>1, <1>3, <1>5, <2>2 DEF Typed, outVars
  <2>4. \A fd \in Fds : clients'[fd] # NoClient =>
           /\ clients[fd] # NoClient /\ clients'[fd].peer = clients[fd].peer
           /\ peer'[clients[fd].peer] \in {"served", "left"}
    BY <1>1, <1>5, <2>1 DEF PlacesInv, Open, Typed, Slots
  <2>5. \A i \in DOMAIN backlog : peer'[backlog[i]] \in {"queued", "left"}
    BY <1>5 DEF PlacesInv
  <2>6. PlacesInv'
    BY <1>3, <1>4, <2>4, <2>5, PlacesKept
  <2> QED BY <2>3, <2>6
<1>6. CASE /\ clients' = [clients EXCEPT ![e.fd] = NoClient]
           /\ DropAll({e.fd}, [fd \in {e.fd} |-> Cause(fd, Wrote(e).out, p)])
  <2> DEFINE cause == [fd \in {e.fd} |-> Cause(fd, Wrote(e).out, p)]
  <2>1. DropAll({e.fd}, cause) /\ {e.fd} \in SUBSET Open
    BY <1>1, <1>6
  <2>2. cause[e.fd] \in Causes
    BY CauseIs
  <2> HIDE DEF cause
  <2>3. /\ peer' \in [Peers -> Stages]
        /\ \A fd \in Open \ {e.fd} : peer'[clients[fd].peer] = peer[clients[fd].peer]
        /\ \A i \in DOMAIN backlog : peer'[backlog[i]] = peer[backlog[i]]
    BY <2>1, DropIs
  <2>4. causes' = causes \cup {<<clients[fd].peer, cause[fd]>> : fd \in {e.fd}}
    BY <2>1 DEF DropAll
  <2>5. causes' \subseteq Peers \X Causes
    <3>1. p \in Peers /\ causes \subseteq Peers \X Causes
      BY <1>1 DEF Typed
    <3> QED BY <2>2, <2>4, <3>1
  <2>6. clients' \in Slots
    BY <1>6 DEF Typed, Slots
  <2>7. Typed'
    BY <1>1, <1>3, <2>3, <2>5, <2>6 DEF Typed, outVars
  <2>8. \A fd \in Fds : clients'[fd] # NoClient =>
           /\ clients[fd] # NoClient /\ clients'[fd].peer = clients[fd].peer
           /\ peer'[clients[fd].peer] \in {"served", "left"}
    BY <1>1, <1>6, <2>3 DEF PlacesInv, Open, Typed, Slots
  <2>9. \A i \in DOMAIN backlog : peer'[backlog[i]] \in {"queued", "left"}
    BY <2>3 DEF PlacesInv
  <2>10. PlacesInv'
    BY <1>3, <1>4, <2>8, <2>9, PlacesKept
  <2> QED BY <2>7, <2>10
<1> QED BY <1>5, <1>6, IoIs

LEMMA StutterPlaces ==
    ASSUME Typed, PlacesInv, UNCHANGED vars
    PROVE  Typed' /\ PlacesInv'
<1>1. Typed'
  BY DEF Typed, vars, peerVars, srvVars, outVars
<1>2. PlacesInv'
  BY DEF PlacesInv, Open, vars, peerVars, srvVars, outVars
<1> QED BY <1>1, <1>2

(* Every step is one of these.                                             *)
LEMMA NextIs ==
    ASSUME Next
    PROVE  \/ EpollWait \/ Accept \/ TakeWake \/ Drain \/ Join \/ Queue \/ WakeLoop \/ Stop
           \/ \E e \in batch \ {Listen, Wakeup} : HupEvent(e) \/ IoEvent(e) \/ DeadEvent(e)
           \/ \E p \in Peers : Connect(p) \/ Send(p) \/ Shut(p) \/ Read(p) \/ HangUp(p)
BY DEF Next, Loop, ClientEvent

LEMMA PlacesStep ==
    ASSUME ServerAssumption, Typed, PlacesInv, [Next]_vars
    PROVE  Typed' /\ PlacesInv'
<1>1. CASE UNCHANGED vars
  BY <1>1, StutterPlaces
<1>2. CASE Next
  <2>1. CASE EpollWait \/ Join \/ \E e \in batch \ {Listen, Wakeup} : DeadEvent(e)
    BY <2>1, LoopPlaces
  <2>2. CASE WakeLoop \/ Stop \/ TakeWake
    BY <2>2, WakePlaces
  <2>3. CASE Accept
    BY <2>3, AcceptPlaces
  <2>4. CASE Drain
    BY <2>4, DrainPlaces
  <2>5. CASE Queue
    BY <2>5, QueuePlaces
  <2>6. ASSUME NEW e \in batch \ {Listen, Wakeup}, HupEvent(e) \/ IoEvent(e)
        PROVE  Typed' /\ PlacesInv'
    BY <2>6, HupPlaces, IoPlaces
  <2>7. ASSUME NEW p \in Peers,
               Connect(p) \/ Send(p) \/ Shut(p) \/ Read(p) \/ HangUp(p)
        PROVE  Typed' /\ PlacesInv'
    BY <2>7, ConnectPlaces, ReadPlaces, HangUpPlaces, SendPlaces
  <2> QED BY <1>2, <2>1, <2>2, <2>3, <2>4, <2>5, <2>6, <2>7, NextIs
<1> QED BY <1>1, <1>2

(***************************************************************************)
(* The number of subscribers.                                              *)
(***************************************************************************)

LEMMA SubscribedSize ==
    ASSUME ServerAssumption
    PROVE  IsFiniteSet(Subscribed) /\ Cardinality(Subscribed) \in Nat
<1>1. Subscribed \subseteq Fds /\ IsFiniteSet(Fds)
  BY DEF Subscribed, Open, ServerAssumption
<1> QED BY <1>1, FS_Subset, FS_CardinalityType

(* Some of the subscribers are dropped.                                    *)
LEMMA CountsDrop ==
    ASSUME ServerAssumption, Counts, stage # "stopped", NEW fds \in SUBSET Open,
           subscribers' = subscribers - Cardinality(fds \cap Subscribed),
           Subscribed' = Subscribed \ fds
    PROVE  Counts'
<1> DEFINE S == Subscribed
<1>1. IsFiniteSet(S) /\ Cardinality(S) \in Nat
  BY SubscribedSize
<1>2. S \cap fds = fds \cap S
  OBVIOUS
<1> HIDE DEF S
<1>3. /\ Cardinality(S \ fds) = Cardinality(S) - Cardinality(S \cap fds)
      /\ Cardinality(S \cap fds) \in Nat
  BY <1>1, FS_Difference, FS_Intersection, FS_CardinalityType
<1> QED BY <1>1, <1>2, <1>3 DEF Counts, S

LEMMA CountsKept ==
    ASSUME Counts, stage' = stage, subscribers' = subscribers, Subscribed' = Subscribed
    PROVE  Counts'
BY DEF Counts

LEMMA CountsStep ==
    ASSUME ServerAssumption, Typed, PlacesInv, Counts, [Next]_vars
    PROVE  Counts'
<1>1. CASE UNCHANGED <<clients, subscribers, stage>>
  <2>1. Subscribed' = Subscribed
    BY <1>1 DEF Subscribed, Open
  <2> QED BY <1>1, <2>1, CountsKept
<1>2. CASE Stop
  <2>1. /\ stage = "running" /\ subscribers' = subscribers /\ Subscribed' = Subscribed
    BY <1>2 DEF Stop, Subscribed, Open
  <2> QED BY <2>1 DEF Counts
<1>3. CASE Join
  BY <1>3 DEF Join, Counts
<1>4. CASE Accept
  <2>1. stage' = stage /\ subscribers' = subscribers
    BY <1>4, AcceptIs
  <2>2. \A fd \in Fds : fd \in Subscribed' <=> fd \in Subscribed
    <3> TAKE fd \in Fds
    <3>1. CASE clients[fd] # NoClient
      <4>1. clients'[fd] = clients[fd]
        BY <1>4, <3>1, AcceptIs DEF Seated
      <4> QED BY <4>1 DEF Subscribed, Open
    <3>2. CASE clients[fd] = NoClient /\ clients'[fd] # NoClient
      <4>1. \E p \in Peers : clients'[fd] = Newcomer(p)
        BY <1>4, <3>2, AcceptIs
      <4> QED BY <3>2, <4>1 DEF Subscribed, Open, Newcomer
    <3>3. CASE clients[fd] = NoClient /\ clients'[fd] = NoClient
      BY <3>3 DEF Subscribed, Open
    <3> QED BY <3>1, <3>2, <3>3
  <2>3. Subscribed' = Subscribed
    BY <2>2 DEF Subscribed, Open
  <2> QED BY <2>1, <2>3, CountsKept
<1>5. CASE Drain
  <2>1. /\ draining /\ subscribers' = subscribers - Cardinality(Dead \cap Subscribed)
        /\ stage' = stage
    BY <1>5, DrainIs DEF DropAll
  <2>2. \A fd \in Fds : fd \in Subscribed' <=> fd \in Subscribed \ Dead
    <3> TAKE fd \in Fds
    <3>1. CASE fd \in Dead
      <4>1. clients'[fd] = NoClient
        BY <1>5, <3>1, DrainIs
      <4> QED BY <3>1, <4>1 DEF Subscribed, Open
    <3>2. CASE fd \in Subscribed /\ fd \notin Dead
      <4>1. /\ clients'[fd] = Kept(clients[fd], After(fd)) /\ Sound(After(fd))
            /\ clients[fd] \in Client /\ clients[fd].subscribed
        BY <1>5, <3>2, DrainIs, OpenIs DEF Subscribed
      <4> QED BY <3>2, <4>1, KeptIs DEF Subscribed, Open
    <3>3. CASE fd \notin Subscribed
      <4>1. clients'[fd] = clients[fd]
        BY <1>5, <3>3, DrainIs DEF Dead
      <4> QED BY <3>3, <4>1 DEF Subscribed, Open
    <3> QED BY <3>1, <3>2, <3>3
  <2>3. Subscribed' = Subscribed \ Dead
    BY <2>2 DEF Subscribed, Open
  <2>4. Dead \in SUBSET Open /\ stage # "stopped"
    BY <2>1, OpenIs DEF Dead, PlacesInv
  <2> QED BY <2>1, <2>3, <2>4, CountsDrop
<1>6. ASSUME NEW e \in batch \ {Listen, Wakeup}, HupEvent(e)
      PROVE  Counts'
  <2> DEFINE hit == {e.fd} \cap Open
  <2>1. /\ hit \in SUBSET Open /\ subscribers' = subscribers - Cardinality(hit \cap Subscribed)
        /\ clients' = [fd \in Fds |-> IF fd \in hit THEN NoClient ELSE clients[fd]]
    BY <1>6, HupIs DEF DropAll
  <2>2. Subscribed' = Subscribed \ hit
    BY <2>1 DEF Subscribed, Open
  <2>3. stage # "stopped"
    BY DEF PlacesInv
  <2> QED BY <2>1, <2>2, <2>3, CountsDrop
<1>7. ASSUME NEW e \in batch \ {Listen, Wakeup}, IoEvent(e)
      PROVE  Counts'
  <2>1. e.fd \in Open /\ e.fd \in Fds /\ stage' = stage /\ stage # "stopped" /\ e \in Event
    BY <1>7, IoIs, OpenIs DEF PlacesInv
  <2>2. CASE /\ clients' = [clients EXCEPT ![e.fd] = Kept(Updated(e), Wrote(e))]
             /\ subscribers' = subscribers + (IF Joins(e) THEN 1 ELSE 0)
    <3> DEFINE k == Kept(Updated(e), Wrote(e))
    <3>1. /\ k # NoClient /\ k.subscribed = (clients[e.fd].subscribed \/ Joins(e))
          /\ Joins(e) => ~clients[e.fd].subscribed
      <4>1. /\ Updated(e) \in Client /\ Sound(Wrote(e))
            /\ Updated(e).subscribed = (clients[e.fd].subscribed \/ Joins(e))
            /\ Joins(e) => ~clients[e.fd].subscribed
        BY <2>1, UpdatedIs, WroteIs
      <4>2. k # NoClient /\ k.subscribed = Updated(e).subscribed
        BY <4>1, KeptIs
      <4> HIDE DEF k
      <4> QED BY <4>1, <4>2
    <3>2. clients'[e.fd] = k /\ \A fd \in Fds : fd # e.fd => clients'[fd] = clients[fd]
      BY <2>1, <2>2 DEF Typed, Slots
    <3> HIDE DEF k
    <3>3. /\ \A fd \in Fds : fd # e.fd => (fd \in Subscribed' <=> fd \in Subscribed)
          /\ e.fd \in Subscribed' <=> e.fd \in Subscribed \/ Joins(e)
      BY <2>1, <3>1, <3>2 DEF Subscribed, Open
    <3>4. CASE Joins(e)
      <4>1. Subscribed' = Subscribed \cup {e.fd} /\ e.fd \notin Subscribed
        BY <2>1, <3>1, <3>3, <3>4 DEF Subscribed, Open
      <4>2. Cardinality(Subscribed \cup {e.fd}) = Cardinality(Subscribed) + 1
        BY <4>1, SubscribedSize, FS_AddElement
      <4> QED BY <2>1, <2>2, <3>4, <4>1, <4>2 DEF Counts
    <3>5. CASE ~Joins(e)
      <4>1. Subscribed' = Subscribed
        BY <3>3, <3>5 DEF Subscribed, Open
      <4>2. subscribers' = subscribers
        BY <2>1, <2>2, <3>5, SubscribedSize DEF Counts
      <4> QED BY <2>1, <4>1, <4>2, CountsKept
    <3> QED BY <3>4, <3>5
  <2>3. CASE /\ clients' = [clients EXCEPT ![e.fd] = NoClient]
             /\ DropAll({e.fd}, [fd \in {e.fd} |-> Cause(fd, Wrote(e).out, clients[e.fd].peer)])
    <3>1. subscribers' = subscribers - Cardinality({e.fd} \cap Subscribed)
      BY <2>3 DEF DropAll
    <3>2. clients'[e.fd] = NoClient /\ \A fd \in Fds : fd # e.fd => clients'[fd] = clients[fd]
      BY <2>1, <2>3 DEF Typed, Slots
    <3>3. Subscribed' = Subscribed \ {e.fd} /\ {e.fd} \in SUBSET Open
      BY <2>1, <3>2 DEF Subscribed, Open
    <3> QED BY <2>1, <3>1, <3>3, CountsDrop
  <2> QED BY <1>7, <2>2, <2>3, IoIs
<1>8. CASE Next
  <2>1. EpollWait \/ TakeWake \/ Queue \/ WakeLoop => UNCHANGED <<clients, subscribers, stage>>
    BY DEF EpollWait, TakeWake, Queue, WakeLoop, srvVars
  <2>2. \A e \in batch : DeadEvent(e) => UNCHANGED <<clients, subscribers, stage>>
    BY DEF DeadEvent
  <2>3. \A p \in Peers : (Connect(p) \/ Send(p) \/ Shut(p) \/ Read(p) \/ HangUp(p))
                            => UNCHANGED <<clients, subscribers, stage>>
    BY DEF Connect, Shut, Read, HangUp, Send, srvVars
  <2> QED BY <1>1, <1>2, <1>3, <1>4, <1>5, <1>6, <1>7, <1>8, <2>1, <2>2, <2>3, NextIs
<1> QED BY <1>1, <1>8 DEF vars, srvVars

(* The server is type-correct, and subscribers_ is the number of the       *)
(* clients that have subscribed, whichever way any of them ended.          *)
THEOREM TypeCorrect == Spec => []TypeOK
<1>1. Init => Typed /\ PlacesInv /\ Counts
  <2>1. ASSUME Init PROVE Counts
    <3>1. Subscribed = {}
      BY <2>1 DEF Init, Subscribed, Open
    <3> QED BY <2>1, <3>1, FS_EmptySet DEF Init, Counts
  <2> QED BY <2>1, InitPlaces, ServerAssumption
<1>2. Typed /\ PlacesInv /\ Counts /\ [Next]_vars => Typed' /\ PlacesInv' /\ Counts'
  BY ServerAssumption, PlacesStep, CountsStep
<1>3. Typed /\ PlacesInv /\ Counts => TypeOK
  BY TypeIs
<1> QED BY <1>1, <1>2, <1>3, PTL DEF Spec

(***************************************************************************)
(* The streams.                                                            *)
(***************************************************************************)

LEMMA Associative ==
    ASSUME NEW T, NEW a \in Seq(T), NEW b \in Seq(T), NEW c \in Seq(T)
    PROVE  (a \o b) \o c = a \o (b \o c)
  BY ConcatAssociative

(* A number goes from the front of what is sent to the end of what is got. *)
LEMMA ReadMoves ==
    ASSUME NEW T, NEW g \in Seq(T), NEW n \in T, NEW a \in Seq(T), NEW b \in Seq(T)
    PROVE  Append(g, n) \o (a \o b) = g \o ((<<n>> \o a) \o b)
<1>1. <<n>> \in Seq(T) /\ Append(g, n) = g \o <<n>> /\ a \o b \in Seq(T)
  BY AppendIsConcat
<1>2. (<<n>> \o a) \o b = <<n>> \o (a \o b)
  BY <1>1, Associative
<1>3. (g \o <<n>>) \o (a \o b) = g \o (<<n>> \o (a \o b))
  BY <1>1, Associative
<1> QED BY <1>1, <1>2, <1>3

LEMMA Sliced ==
    ASSUME NEW T, NEW s \in Seq(T), NEW k \in 0..Len(s)
    PROVE  /\ SubSeq(s, k + 1, Len(s)) \in Seq(T)
           /\ Len(SubSeq(s, k + 1, Len(s))) = Len(s) - k
           /\ \A i \in 1..(Len(s) - k) : SubSeq(s, k + 1, Len(s))[i] = s[k + i]
<1>1. Len(s) \in Nat /\ k \in Nat /\ k <= Len(s)
  OBVIOUS
<1> DEFINE n == Len(s)  r == SubSeq(s, k + 1, n)
<1>2. /\ Len(r) = n - k
      /\ \A i \in 1..(n - k) : r[i] = s[k + i]
  BY <1>1
<1>3. r \in Seq(T)
  BY <1>1, SubSeqProperties
<1> QED BY <1>2, <1>3

(* What follows the first k of a sequence, when the sequence grows.        *)
LEMMA RestGrows ==
    ASSUME NEW T, NEW d \in Seq(T), NEW o \in Seq(T), NEW k \in Nat, k <= Len(d)
    PROVE  SubSeq(d \o o, k + 1, Len(d \o o)) = SubSeq(d, k + 1, Len(d)) \o o
<1> DEFINE M == Len(d)  N == Len(o)
           a == SubSeq(d \o o, k + 1, M + N)
           r == SubSeq(d, k + 1, M)
<1>1. M \in Nat /\ N \in Nat /\ k <= M /\ k + 1 \in Nat /\ M - k \in Nat
  OBVIOUS
<1>2. /\ d \o o \in Seq(T) /\ Len(d \o o) = M + N
      /\ \A i \in 1..(M + N) : (d \o o)[i] = IF i <= M THEN d[i] ELSE o[i - M]
  OBVIOUS
<1>3. /\ r \in Seq(T) /\ Len(r) = M - k
      /\ \A i \in 1..(M - k) : r[i] = d[k + i]
  BY <1>1, Sliced
<1>4. /\ a \in Seq(T) /\ Len(a) = M + N - k
      /\ \A i \in 1..(M + N - k) : a[i] = (d \o o)[k + i]
  <2> DEFINE e == d \o o
  <2>1. e \in Seq(T) /\ Len(e) = M + N /\ k <= M + N
    BY <1>1, <1>2
  <2>2. a = SubSeq(e, k + 1, Len(e))
    BY <2>1
  <2> HIDE DEF e, a, M, N
  <2>3. /\ a \in Seq(T) /\ Len(a) = M + N - k
        /\ \A i \in 1..(M + N - k) : a[i] = e[k + i]
    <3>1. k \in 0..Len(e) /\ Len(e) - k = M + N - k
      BY <1>1, <2>1 DEF M, N
    <3> QED BY <2>1, <2>2, <3>1, Sliced
  <2> QED BY <2>3 DEF e
<1> HIDE DEF r
<1>5. /\ r \o o \in Seq(T) /\ Len(r \o o) = M - k + N
      /\ \A i \in 1..(M - k + N) : (r \o o)[i] = IF i <= M - k THEN r[i] ELSE o[i - (M - k)]
  <2>1. r \in Seq(T) /\ Len(r) = M - k /\ o \in Seq(T) /\ Len(o) = N
    BY <1>1, <1>3
  <2> HIDE DEF M, N
  <2>2. /\ r \o o \in Seq(T) /\ Len(r \o o) = Len(r) + Len(o)
        /\ \A i \in 1..(Len(r) + Len(o)) :
              (r \o o)[i] = IF i <= Len(r) THEN r[i] ELSE o[i - Len(r)]
    BY <2>1, ConcatProperties, Zenon
  <2> QED BY <2>1, <2>2
<1> HIDE DEF a, M, N
<1>6. \A i \in 1..(M + N - k) : a[i] = (r \o o)[i]
  <2> TAKE i \in 1..(M + N - k)
  <2>1. k + i \in 1..(M + N) /\ i \in 1..(M - k + N) /\ (k + i) - M = i - (M - k)
    BY <1>1
  <2>2. CASE i <= M - k
    <3>1. k + i <= M /\ i \in 1..(M - k)
      BY <1>1, <2>2
    <3> QED BY <1>2, <1>3, <1>4, <1>5, <2>1, <2>2, <3>1
  <2>3. CASE ~(i <= M - k)
    <3>1. ~(k + i <= M)
      BY <1>1, <2>3
    <3> QED BY <1>2, <1>4, <1>5, <2>1, <2>3, <3>1
  <2> QED BY <2>2, <2>3
<1>7. Len(a) = Len(r \o o)
  BY <1>1, <1>4, <1>5
<1>8. a = r \o o
  BY <1>4, <1>5, <1>6, <1>7, SeqEqual
<1> QED BY <1>2, <1>8 DEF a, r, M, N

(* A client to which nothing happens.                                      *)
LEMMA StreamKept ==
    ASSUME StreamInv, NEW fd \in Open, clients'[fd] = clients[fd],
           LET p == clients[fd].peer
           IN got'[p] = got[p] /\ toPeer'[p] = toPeer[p] /\ (peer'[p] = peer[p] \/ peer'[p] = "left"),
           drained' = drained
    PROVE  clients'[fd].since <= Len(drained') /\ Stream(fd)'
BY DEF StreamInv, Stream

LEMMA ReadStream ==
    ASSUME Typed, PlacesInv, StreamInv, NEW p \in Peers, Read(p)
    PROVE  StreamInv'
<1> DEFINE line == Head(toPeer[p])
<1>1. /\ peer[p] \in {"served", "cut"} /\ toPeer[p] # <<>>
      /\ got' = IF line[1] = "alert" THEN [got EXCEPT ![p] = Append(got[p], line[2])] ELSE got
      /\ toPeer' = [toPeer EXCEPT ![p] = Tail(toPeer[p])]
      /\ UNCHANGED <<peer, clients, drained>>
  BY DEF Read, Typed, srvVars
<1>2. /\ \A q \in Peers : q # p => got'[q] = got[q] /\ toPeer'[q] = toPeer[q]
      /\ toPeer'[p] = Tail(toPeer[p])
      /\ got'[p] = IF line[1] = "alert" THEN Append(got[p], line[2]) ELSE got[p]
  BY <1>1 DEF Typed
<1>3. \A q \in Peers : peer'[q] \in {"new", "queued"} => got'[q] = <<>>
  BY <1>1, <1>2 DEF StreamInv
<1>4. ASSUME NEW fd \in Open
      PROVE  clients'[fd].since <= Len(drained') /\ Stream(fd)'
  <2>1. CASE clients[fd].peer # p
    BY <1>1, <1>2, <2>1, OpenIs, StreamKept
  <2>2. CASE clients[fd].peer = p
    <3> DEFINE T == 1..MaxAlerts  s == toPeer[p]  o == clients[fd].out  g == got[p]
    <3>1. s \in Seq(Lines) /\ s # <<>> /\ o \in Seq(Lines) /\ g \in Seq(T)
      BY <1>1, OpenIs DEF Typed
    <3> HIDE DEF s, o, g
    <3>2. /\ Head(s) \in Lines /\ Tail(s) \in Seq(Lines)
          /\ Numbers(s) = IF Head(s)[1] = "alert" THEN <<Head(s)[2]>> \o Numbers(Tail(s))
                          ELSE Numbers(Tail(s))
      BY <3>1, NumbersOfRest
    <3>3. /\ Numbers(s \o o) = Numbers(s) \o Numbers(o)
          /\ Numbers(Tail(s) \o o) = Numbers(Tail(s)) \o Numbers(o)
      BY <3>1, <3>2, NumbersConcat
    <3>4. Numbers(s) \in Seq(T) /\ Numbers(Tail(s)) \in Seq(T) /\ Numbers(o) \in Seq(T)
      BY <3>1, <3>2, NumbersType
    <3>5. Head(s)[1] = "alert" => Head(s)[2] \in T
      BY <3>2, LinesDiffer
    <3>6. line = Head(s) /\ toPeer'[p] = Tail(s)
          /\ got'[p] = IF Head(s)[1] = "alert" THEN Append(g, Head(s)[2]) ELSE g
      BY <1>2 DEF s, g
    <3> HIDE DEF T, line
    <3>7. got'[p] \o Numbers(toPeer'[p] \o o) = g \o Numbers(s \o o)
      <4> DEFINE a == Numbers(Tail(s))  b == Numbers(o)  n == Head(s)[2]
      <4>1. CASE Head(s)[1] = "alert"
        <5>1. /\ got'[p] = Append(g, n) /\ toPeer'[p] = Tail(s)
              /\ Numbers(s \o o) = (<<n>> \o a) \o b /\ Numbers(Tail(s) \o o) = a \o b
              /\ a \in Seq(T) /\ b \in Seq(T) /\ n \in T
          BY <3>2, <3>3, <3>4, <3>5, <3>6, <4>1
        <5> HIDE DEF a, b, n
        <5>2. g \in Seq(T) /\ n \in T /\ a \in Seq(T) /\ b \in Seq(T)
          BY <3>1, <5>1
        <5>3. Append(g, n) \o (a \o b) = g \o ((<<n>> \o a) \o b)
          BY <5>2, ReadMoves, SMTT(20)
        <5> QED BY <5>1, <5>3
      <4>2. CASE Head(s)[1] # "alert"
        BY <3>2, <3>3, <3>6, <4>2
      <4> QED BY <4>1, <4>2
    <3>8. peer[p] # "left" =>
              g \o Numbers(s \o o)
                  = IF clients[fd].subscribed
                    THEN SubSeq(drained, clients[fd].since + 1, Len(drained)) ELSE <<>>
      BY <2>2 DEF StreamInv, Stream, s, o, g
    <3> QED BY <1>1, <2>2, <3>7, <3>8 DEF StreamInv, Stream, o
  <2> QED BY <2>1, <2>2
<1>5. Open' = Open
  BY <1>1 DEF Open
<1> QED BY <1>3, <1>4, <1>5 DEF StreamInv

LEMMA AcceptStream ==
    ASSUME ServerAssumption, Typed, PlacesInv, StreamInv, Accept
    PROVE  StreamInv'
<1>1. UNCHANGED <<got, drained>>
  BY AcceptIs
<1>2. \A p \in Peers : peer'[p] \in {"new", "queued"} => got'[p] = <<>>
  BY <1>1, AcceptIs DEF StreamInv
<1>3. ASSUME NEW fd \in Fds, clients'[fd] # NoClient
      PROVE  clients'[fd].since <= Len(drained') /\ Stream(fd)'
  <2>1. CASE clients[fd] # NoClient
    <3>1. fd \in Open /\ clients'[fd] = clients[fd] /\ clients[fd].peer \in Peers
      BY <2>1, AcceptIs, OpenIs DEF Seated, Open
    <3>2. /\ peer'[clients[fd].peer] = peer[clients[fd].peer]
          /\ peer[clients[fd].peer] \in {"served", "left"}
      BY <3>1, AcceptIs DEF PlacesInv
    <3>3. toPeer'[clients[fd].peer] = toPeer[clients[fd].peer]
      BY <3>1, <3>2, AcceptIs
    <3> QED BY <1>1, <3>1, <3>2, <3>3, StreamKept
  <2>2. CASE clients[fd] = NoClient
    <3>1. PICK p \in Peers : /\ clients'[fd] = Newcomer(p) /\ peer[p] \in {"queued", "left"}
                             /\ peer[p] = "queued" => toPeer'[p] = <<Hello>> /\ peer'[p] = "served"
      BY <1>3, <2>2, AcceptIs
    <3>2. /\ clients'[fd].peer = p /\ clients'[fd].since = 0 /\ clients'[fd].subscribed = FALSE
          /\ peer[p] # "left" => clients'[fd].out = <<>>
      BY <3>1 DEF Newcomer
    <3>3. Len(drained) \in Nat
      BY DEF Typed
    <3>4. CASE peer[p] = "left"
      <4>1. peer'[p] = "left"
        BY <3>4, AcceptIs
      <4> QED BY <1>1, <3>2, <3>3, <4>1 DEF Stream
    <3>5. CASE peer[p] = "queued"
      <4>1. /\ toPeer'[p] = <<Hello>> /\ got'[p] = <<>> /\ clients'[fd].out = <<>>
        BY <1>1, <3>1, <3>2, <3>5 DEF StreamInv
      <4>2. <<Hello>> \o <<>> = Append(<<>>, Hello) /\ <<>> \in Seq(Lines)
        BY LinesDiffer
      <4>3. Numbers(<<Hello>> \o <<>>) = <<>>
        BY <4>2, NumbersStep, NumbersEmpty, LinesDiffer
      <4>4. <<>> \o Numbers(<<Hello>> \o <<>>) = <<>>
        BY <4>3
      <4> QED BY <1>1, <3>2, <3>3, <4>1, <4>4 DEF Stream
    <3> QED BY <3>1, <3>4, <3>5
  <2> QED BY <2>1, <2>2
<1> QED BY <1>2, <1>3 DEF StreamInv, Open

LEMMA DrainStream ==
    ASSUME Typed, PlacesInv, StreamInv, Drain
    PROVE  StreamInv'
<1> DEFINE T == 1..MaxAlerts
<1>1. /\ got' = got /\ drained' = drained \o outbox
      /\ Dead \in SUBSET Open
      /\ DropAll(Dead, [fd \in Dead |-> Cause(fd, After(fd).out, clients[fd].peer)])
  BY ServerAssumption, DrainIs, OpenIs DEF Dead
<1>2. drained \in Seq(T) /\ outbox \in Seq(T)
  BY DEF Typed
<1>3. Numbers(newLines) = outbox /\ newLines \in Seq(Lines)
  BY NumbersOfAlerts DEF Typed, newLines
<1>4. /\ Len(drained) \in Nat /\ Len(drained') \in Nat /\ Len(drained) <= Len(drained')
  BY <1>1, <1>2
<1> HIDE DEF T
<1>5. \A p \in Peers : peer'[p] \in {"new", "queued"} => got'[p] = <<>>
  BY <1>1, ServerAssumption, DropIs DEF StreamInv
<1>6. ASSUME NEW fd \in Fds, clients'[fd] # NoClient
      PROVE  clients'[fd].since <= Len(drained') /\ Stream(fd)'
  <2> DEFINE p == clients[fd].peer  c == clients[fd]
  <2>1. fd \notin Dead
    BY <1>6, ServerAssumption, DrainIs
  <2>2. CASE fd \in Subscribed
    <3>1. /\ fd \in Open /\ c \in Client /\ c.subscribed /\ p \in Peers
          /\ c.out \in Seq(Lines) /\ c.since \in Nat
      BY <2>2, OpenIs DEF Subscribed
    <3>2. /\ clients'[fd] = Kept(c, After(fd)) /\ Sound(After(fd)) /\ After(fd).ok
          /\ toPeer'[p] = After(fd).sock
          /\ After(fd).sock \o After(fd).out = (toPeer[p] \o c.out) \o newLines
      BY <2>1, <2>2, ServerAssumption, DrainIs DEF Dead
    <3>3. /\ clients'[fd].peer = p /\ clients'[fd].subscribed /\ clients'[fd].since = c.since
          /\ clients'[fd].out = After(fd).out
      BY <3>1, <3>2, KeptIs
    <3>4. peer'[p] = peer[p]
      BY <1>1, <2>1, <3>1, ServerAssumption, DropIs
    <3>5. c.since <= Len(drained)
      BY <3>1 DEF StreamInv
    <3> DEFINE s == toPeer[p] \o c.out  g == got[p]
    <3>6. s \in Seq(Lines) /\ g \in Seq(T)
      BY <3>1 DEF Typed, T
    <3>7. peer[p] # "left" => g \o Numbers(s) = SubSeq(drained, c.since + 1, Len(drained))
      BY <3>1 DEF StreamInv, Stream
    <3>8. Numbers(toPeer'[p] \o clients'[fd].out) = Numbers(s \o newLines)
      BY <3>2, <3>3
    <3> HIDE DEF s, g, p, c
    <3>9. Numbers(s \o newLines) = Numbers(s) \o outbox /\ Numbers(s) \in Seq(T)
      BY <1>3, <3>6, NumbersConcat, NumbersType DEF T
    <3>10. g \o (Numbers(s) \o outbox) = (g \o Numbers(s)) \o outbox
      <4> DEFINE n == Numbers(s)
      <4>1. g \in Seq(T) /\ n \in Seq(T) /\ outbox \in Seq(T)
        BY <1>2, <3>6, <3>9
      <4> HIDE DEF n
      <4>2. (g \o n) \o outbox = g \o (n \o outbox)
        BY <4>1, Associative
      <4> QED BY <4>2 DEF n
    <3>11. SubSeq(drained \o outbox, c.since + 1, Len(drained \o outbox))
               = SubSeq(drained, c.since + 1, Len(drained)) \o outbox
      BY <1>2, <3>1, <3>5, RestGrows
    <3>12. peer[p] # "left" =>
              g \o Numbers(toPeer'[p] \o clients'[fd].out)
                  = SubSeq(drained', c.since + 1, Len(drained'))
      BY <1>1, <3>7, <3>8, <3>9, <3>10, <3>11
    <3>13. g = got'[p]
      BY <1>1 DEF g
    <3>14. Stream(fd)'
      BY <3>3, <3>4, <3>12, <3>13 DEF Stream
    <3>15. clients'[fd].since <= Len(drained')
      BY <1>4, <3>1, <3>3, <3>5
    <3> QED BY <3>14, <3>15
  <2>3. CASE fd \notin Subscribed
    <3>1. clients'[fd] = clients[fd] /\ fd \in Open
      BY <1>6, <2>1, <2>3, ServerAssumption, DrainIs DEF Open
    <3>2. p \in Peers /\ c.since \in Nat /\ ~c.subscribed
      BY <2>3, <3>1, OpenIs DEF Subscribed
    <3>3. peer'[p] = peer[p]
      BY <1>1, <2>1, <3>1, ServerAssumption, DropIs
    <3>4. \A g \in Subscribed : clients[g].peer # p
      BY <2>3, <3>1, OpenIs DEF PlacesInv
    <3>5. toPeer'[p] = toPeer[p]
      BY <3>2, <3>4, ServerAssumption, DrainIs
    <3>6. c.since <= Len(drained) /\ Stream(fd)
      BY <3>1 DEF StreamInv
    <3>7. c.since <= Len(drained')
      BY <1>4, <3>2, <3>6
    <3> QED BY <1>1, <3>1, <3>2, <3>3, <3>5, <3>6, <3>7 DEF Stream
  <2> QED BY <2>2, <2>3
<1> QED BY <1>5, <1>6 DEF StreamInv, Open

LEMMA HupStream ==
    ASSUME ServerAssumption, Typed, PlacesInv, StreamInv,
           NEW e \in batch \ {Listen, Wakeup}, HupEvent(e)
    PROVE  StreamInv'
<1> DEFINE hit == {e.fd} \cap Open
<1>1. /\ UNCHANGED <<toPeer, got, drained>>
      /\ clients' = [fd \in Fds |-> IF fd \in hit THEN NoClient ELSE clients[fd]]
      /\ hit \in SUBSET Open
      /\ DropAll(hit, [fd \in hit |-> Cause(fd, clients[fd].out, e.for)])
  BY HupIs
<1> HIDE DEF hit
<1>2. /\ \A p \in Peers : peer'[p] = peer[p] \/ peer'[p] = "cut"
      /\ \A fd \in Open \ hit : peer'[clients[fd].peer] = peer[clients[fd].peer]
  BY <1>1, DropIs
<1>3. \A p \in Peers : peer'[p] \in {"new", "queued"} => got'[p] = <<>>
  BY <1>1, <1>2 DEF StreamInv
<1>4. ASSUME NEW fd \in Fds, clients'[fd] # NoClient
      PROVE  clients'[fd].since <= Len(drained') /\ Stream(fd)'
  <2>1. fd \in Open \ hit /\ clients'[fd] = clients[fd]
    BY <1>1, <1>4 DEF Open
  <2> QED BY <1>1, <1>2, <2>1, StreamKept
<1> QED BY <1>3, <1>4 DEF StreamInv, Open

LEMMA IoStream ==
    ASSUME ServerAssumption, Typed, PlacesInv, StreamInv,
           NEW e \in batch \ {Listen, Wakeup}, IoEvent(e)
    PROVE  StreamInv'
<1> DEFINE p == clients[e.fd].peer  c == clients[e.fd]
<1>1. /\ e.fd \in Open /\ e.fd \in Fds /\ e \in Event /\ p \in Peers
      /\ c.out \in Seq(Lines) /\ c.since \in Nat /\ c.subscribed \in BOOLEAN
      /\ UNCHANGED <<got, drained>>
      /\ toPeer' = [toPeer EXCEPT ![p] = Wrote(e).sock]
  BY IoIs, OpenIs
<1>2. \A fd \in Open \ {e.fd} : clients[fd].peer \in Peers /\ clients[fd].peer # p
  BY <1>1, OpenIs DEF PlacesInv
<1>3. /\ toPeer'[p] = Wrote(e).sock
      /\ \A q \in Peers : q # p => toPeer'[q] = toPeer[q]
  BY <1>1 DEF Typed
<1>4. /\ \A q \in Peers : peer'[q] = peer[q] \/ peer'[q] = "cut"
      /\ \A fd \in Open \ {e.fd} : /\ peer'[clients[fd].peer] = peer[clients[fd].peer]
                                   /\ clients'[fd] = clients[fd]
      /\ \A fd \in Fds : clients'[fd] # NoClient => fd \in Open
  <2>1. CASE peer' = peer /\ clients' = [clients EXCEPT ![e.fd] = Kept(Updated(e), Wrote(e))]
    BY <1>1, <2>1 DEF Typed, Slots, Open
  <2>2. CASE /\ clients' = [clients EXCEPT ![e.fd] = NoClient]
             /\ DropAll({e.fd}, [fd \in {e.fd} |-> Cause(fd, Wrote(e).out, p)])
    <3>1. {e.fd} \in SUBSET Open
      BY <1>1
    <3>2. /\ \A q \in Peers : peer'[q] = peer[q] \/ peer'[q] = "cut"
          /\ \A fd \in Open \ {e.fd} : peer'[clients[fd].peer] = peer[clients[fd].peer]
      BY <2>2, <3>1, DropIs
    <3>3. \A fd \in Fds : clients'[fd] = IF fd = e.fd THEN NoClient ELSE clients[fd]
      BY <2>2 DEF Typed, Slots
    <3> QED BY <3>2, <3>3 DEF Open
  <2> QED BY <2>1, <2>2, IoIs
<1>5. \A q \in Peers : peer'[q] \in {"new", "queued"} => got'[q] = <<>>
  BY <1>1, <1>4 DEF StreamInv
<1>6. ASSUME NEW fd \in Fds, fd # e.fd, clients'[fd] # NoClient
      PROVE  clients'[fd].since <= Len(drained') /\ Stream(fd)'
  <2>1. fd \in Open \ {e.fd}
    BY <1>4, <1>6
  <2> QED BY <1>1, <1>2, <1>3, <1>4, <2>1, StreamKept
<1>7. ASSUME clients'[e.fd] # NoClient
      PROVE  clients'[e.fd].since <= Len(drained') /\ Stream(e.fd)'
  <2> DEFINE d == clients'[e.fd]  s == toPeer[p] \o c.out  r == Replies(e)
             T == 1..MaxAlerts
  <2>1. /\ Wrote(e).ok /\ clients' = [clients EXCEPT ![e.fd] = Kept(Updated(e), Wrote(e))]
        /\ peer' = peer
    BY <1>1, <1>7, IoIs DEF Typed, Slots
  <2>2. d = Kept(Updated(e), Wrote(e))
    BY <1>1, <2>1 DEF Typed, Slots
  <2>3. /\ Updated(e) \in Client /\ Updated(e).peer = p
        /\ Updated(e).subscribed = (c.subscribed \/ Joins(e))
        /\ Updated(e).since = IF Joins(e) THEN Len(drained) ELSE c.since
        /\ Joins(e) \in BOOLEAN /\ (Joins(e) => ~c.subscribed)
    BY <1>1, UpdatedIs
  <2>4. /\ Sound(Wrote(e)) /\ r \in Seq(Lines) /\ Numbers(r) = <<>>
        /\ Wrote(e).sock \o Wrote(e).out = s \o r
    BY <1>1, <2>1, WroteIs
  <2>5. /\ d.peer = p /\ d.subscribed = Updated(e).subscribed /\ d.since = Updated(e).since
        /\ d.out = Wrote(e).out
    <3>1. Updated(e) \in Client /\ Sound(Wrote(e))
      BY <2>3, <2>4
    <3>2. /\ Kept(Updated(e), Wrote(e)).peer = Updated(e).peer
          /\ Kept(Updated(e), Wrote(e)).subscribed = Updated(e).subscribed
          /\ Kept(Updated(e), Wrote(e)).since = Updated(e).since
          /\ Kept(Updated(e), Wrote(e)).out = Wrote(e).out
      BY <3>1, KeptIs
    <3> HIDE DEF d
    <3> QED BY <2>2, <2>3, <3>2
  <2>6. /\ s \in Seq(Lines) /\ got[p] \in Seq(T) /\ drained \in Seq(T)
        /\ Len(drained) \in Nat
    BY <1>1, SMTT(20) DEF Typed
  <2>7. /\ c.since <= Len(drained)
        /\ peer[p] # "left" =>
              got[p] \o Numbers(s)
                  = IF c.subscribed THEN SubSeq(drained, c.since + 1, Len(drained)) ELSE <<>>
    BY <1>1 DEF StreamInv, Stream
  <2> HIDE DEF p, c, d, s, r, T
  <2>8. Numbers(s \o r) = Numbers(s)
    <3>1. Numbers(s) \in Seq(T)
      BY <2>6, NumbersType DEF T
    <3>2. Numbers(s \o r) = Numbers(s) \o Numbers(r)
      BY <2>4, <2>6, NumbersConcat
    <3>3. Numbers(s) \o <<>> = Numbers(s)
      BY <3>1, ConcatEmptySeq
    <3> QED BY <2>4, <3>2, <3>3
  <2>9. toPeer'[p] \o d.out = s \o r
    BY <1>3, <2>4, <2>5
  <2>10. d.since <= Len(drained)
    BY <2>3, <2>5, <2>6, <2>7
  <2>11. peer[p] # "left" =>
            got[p] \o Numbers(toPeer'[p] \o d.out)
                = IF d.subscribed THEN SubSeq(drained, d.since + 1, Len(drained)) ELSE <<>>
    <3>1. CASE Joins(e)
      <4>1. ~c.subscribed /\ d.subscribed /\ d.since = Len(drained)
        BY <2>3, <2>5, <3>1
      <4>2. SubSeq(drained, Len(drained) + 1, Len(drained)) = <<>>
        BY <2>6, SubSeqEmpty
      <4> QED BY <2>7, <2>8, <2>9, <4>1, <4>2
    <3>2. CASE ~Joins(e)
      <4>1. d.subscribed = c.subscribed /\ d.since = c.since
        BY <1>1, <2>3, <2>5, <3>2
      <4> QED BY <2>7, <2>8, <2>9, <4>1
    <3> QED BY <3>1, <3>2
  <2>12. d = clients'[e.fd]
    BY DEF d
  <2>13. d.since <= Len(drained')
    BY <1>1, <2>10
  <2>14. Stream(e.fd)'
    <3>1. UNCHANGED <<peer, got, drained>>
      BY <1>1, <2>1
    <3>2. peer'[d.peer] # "left" =>
              got'[d.peer] \o Numbers(toPeer'[d.peer] \o d.out)
                  = IF d.subscribed THEN SubSeq(drained', d.since + 1, Len(drained')) ELSE <<>>
      BY <2>5, <2>11, <3>1
    <3> QED BY <3>2, Zenon DEF Stream, d
  <2> QED BY <2>12, <2>13, <2>14
<1> QED BY <1>5, <1>6, <1>7 DEF StreamInv, Open

LEMMA PeersStream ==
    ASSUME Typed, PlacesInv, StreamInv, NEW p \in Peers,
           Connect(p) \/ Shut(p) \/ HangUp(p) \/ Send(p)
    PROVE  StreamInv'
<1>1. /\ UNCHANGED <<clients, drained, got>>
      /\ \A q \in Peers : \/ peer'[q] = peer[q] /\ toPeer'[q] = toPeer[q]
                          \/ peer'[q] = "left"
                          \/ peer[q] = "new" /\ peer'[q] = "queued"
  BY DEF Connect, Shut, HangUp, Send, srvVars, Typed
<1>2. \A q \in Peers : peer'[q] \in {"new", "queued"} => got'[q] = <<>>
  BY <1>1 DEF StreamInv
<1>3. ASSUME NEW fd \in Open
      PROVE  clients'[fd].since <= Len(drained') /\ Stream(fd)'
  <2>1. clients[fd].peer \in Peers /\ peer[clients[fd].peer] # "new"
    BY OpenIs DEF PlacesInv
  <2>2. CASE peer'[clients[fd].peer] = "left"
    BY <1>1, <2>2 DEF StreamInv, Stream
  <2>3. CASE peer'[clients[fd].peer] # "left"
    BY <1>1, <2>1, <2>3, StreamKept
  <2> QED BY <2>2, <2>3
<1>4. Open' = Open
  BY <1>1 DEF Open
<1> QED BY <1>2, <1>3, <1>4 DEF StreamInv

LEMMA StreamStep ==
    ASSUME Typed, PlacesInv, StreamInv, [Next]_vars
    PROVE  StreamInv'
<1>1. CASE UNCHANGED <<peer, toPeer, got, clients, drained>>
  BY <1>1 DEF StreamInv, Stream, Open
<1>2. CASE Join
  <2>1. /\ got' = got /\ Open' = {}
        /\ \A q \in Peers : peer'[q] \in {"new", "queued"} => peer'[q] = peer[q]
    BY <1>2 DEF Join, Open
  <2> QED BY <2>1 DEF StreamInv
<1>3. CASE Next
  <2>1. EpollWait \/ TakeWake \/ Queue \/ WakeLoop \/ Stop
            => UNCHANGED <<peer, toPeer, got, clients, drained>>
    BY DEF EpollWait, TakeWake, Queue, WakeLoop, Stop, srvVars, peerVars
  <2>2. \A e \in batch : DeadEvent(e) => UNCHANGED <<peer, toPeer, got, clients, drained>>
    BY DEF DeadEvent, peerVars
  <2>3. ASSUME NEW e \in batch \ {Listen, Wakeup}, HupEvent(e) \/ IoEvent(e) \/ DeadEvent(e)
        PROVE  StreamInv'
    BY <1>1, <2>2, <2>3, ServerAssumption, HupStream, IoStream
  <2>4. ASSUME NEW p \in Peers,
               Connect(p) \/ Send(p) \/ Shut(p) \/ Read(p) \/ HangUp(p)
        PROVE  StreamInv'
    BY <2>4, ReadStream, PeersStream
  <2>5. CASE Accept
    BY <2>5, ServerAssumption, AcceptStream
  <2>6. CASE Drain
    BY <2>6, DrainStream
  <2> QED BY <1>1, <1>2, <1>3, <2>1, <2>3, <2>4, <2>5, <2>6, NextIs
<1> QED BY <1>1, <1>3 DEF vars, peerVars, srvVars

(* What a subscriber has read, with what is still in its buffers, is       *)
(* exactly what the drains of the outbox have taken since it subscribed:   *)
(* nothing is missing, repeated or out of order, whatever the peers do.    *)
THEOREM StreamsAreExact == Spec => []StreamIsExact
<1>1. Init => Typed /\ PlacesInv /\ StreamInv
  <2>1. ASSUME Init PROVE StreamInv
    <3>1. Open = {} /\ \A p \in Peers : got[p] = <<>>
      BY <2>1 DEF Init, Open
    <3> QED BY <3>1 DEF StreamInv
  <2> QED BY <2>1, InitPlaces, ServerAssumption
<1>2. Typed /\ PlacesInv /\ StreamInv /\ [Next]_vars => Typed' /\ PlacesInv' /\ StreamInv'
  BY ServerAssumption, PlacesStep, StreamStep
<1>3. StreamInv => StreamIsExact
  BY DEF StreamInv, Stream, StreamIsExact, Subscribed
<1> QED BY <1>1, <1>2, <1>3, PTL DEF Spec

(***************************************************************************)
(* Why connections end.                                                    *)
(***************************************************************************)

(* What a peer that has shut its side has sent, once read, stays read.     *)
ShutKept ==
    \A p \in Peers : p \in shut /\ toServer[p] = <<>> => p \in shut' /\ toServer'[p] = <<>>

LEMMA ShutStays ==
    ASSUME ServerAssumption, Typed, PlacesInv, [Next]_vars
    PROVE  ShutKept
<1>1. CASE UNCHANGED <<shut, toServer>>
  BY <1>1 DEF ShutKept
<1>2. ASSUME NEW p \in Peers, Shut(p) \/ Send(p)
      PROVE  ShutKept
  <2>1. CASE Shut(p)
    BY <1>2, <2>1 DEF Shut, ShutKept
  <2>2. CASE Send(p)
    BY <1>2, <2>2 DEF Send, Say, ShutKept, Typed
  <2> QED BY <1>2, <2>1, <2>2
<1>3. ASSUME NEW e \in batch \ {Listen, Wakeup}, IoEvent(e)
      PROVE  ShutKept
  <2> DEFINE p == clients[e.fd].peer
             s == IF Reads(e) THEN AfterFill(clients[e.fd]) ELSE toServer[p]
  <2>1. e.fd \in Open /\ shut' = shut /\ toServer' = [toServer EXCEPT ![p] = s]
    BY <1>3, IoIs
  <2>2. p \in Peers /\ (toServer[p] = <<>> => s = <<>>)
    BY <2>1, OpenIs, FillIs
  <2> HIDE DEF s
  <2> QED BY <2>1, <2>2 DEF ShutKept, Typed
<1>4. CASE Next
  <2> USE DEF peerVars
  <2>1. EpollWait \/ Accept \/ TakeWake \/ Drain \/ Join \/ Queue \/ WakeLoop \/ Stop
            => UNCHANGED <<shut, toServer>>
    BY DEF EpollWait, Accept, TakeWake, Drain, Join, Queue, WakeLoop, Stop
  <2>2. \A e \in batch : HupEvent(e) \/ DeadEvent(e) => UNCHANGED <<shut, toServer>>
    BY DEF HupEvent, DeadEvent
  <2>3. \A p \in Peers : Connect(p) \/ Read(p) \/ HangUp(p) => UNCHANGED <<shut, toServer>>
    BY DEF Connect, Read, HangUp
  <2> QED BY <1>1, <1>2, <1>3, <1>4, <2>1, <2>2, <2>3, NextIs
<1> QED BY <1>1, <1>4 DEF vars, peerVars

(* Causes that are added, none of them unexplained.                        *)
LEMMA CausesGrow ==
    ASSUME CutForCause, ShutKept, causes \subseteq causes',
           \A p \in Peers :
              /\ <<p, "none">> \in causes' => <<p, "none">> \in causes
              /\ <<p, "ended">> \in causes' =>
                    <<p, "ended">> \in causes \/ (p \in shut /\ toServer[p] = <<>>)
              /\ <<p, "stale event">> \in causes' =>
                    \/ <<p, "stale event">> \in causes
                    \/ \E q \in Peers \ {p} : <<q, "hung up">> \in causes
    PROVE  CutForCause'
BY DEF CutForCause, ShutKept

LEMMA CausesSame ==
    ASSUME CutForCause, ShutKept, causes' = causes
    PROVE  CutForCause'
BY CausesGrow

(* The events that are left stay true as long as a client whose peer has   *)
(* left stays, or goes for having left.                                    *)
LEMMA HangUpKept ==
    ASSUME Typed, HangUpInv, batch' \subseteq batch, causes \subseteq causes',
           \A p \in Peers : peer[p] = "left" => peer'[p] = "left",
           \A fd \in Open : peer[clients[fd].peer] = "left" =>
               \/ clients'[fd] # NoClient /\ clients'[fd].peer = clients[fd].peer
               \/ <<clients[fd].peer, "hung up">> \in causes'
    PROVE  HangUpInv'
<1> SUFFICES ASSUME NEW e \in batch' \ {Listen, Wakeup}, e.hup
             PROVE  /\ peer'[e.for] = "left"
                    /\ \/ e.fd \in Open' /\ clients'[e.fd].peer = e.for
                       \/ <<e.for, "hung up">> \in causes'
  BY DEF HangUpInv
<1>1. /\ peer[e.for] = "left" /\ e.for \in Peers /\ e.fd \in Fds
      /\ (e.fd \in Open /\ clients[e.fd].peer = e.for) \/ <<e.for, "hung up">> \in causes
  BY OpenIs DEF HangUpInv
<1> QED BY <1>1 DEF Open

(* A failed write has a cause.                                             *)
LEMMA FailureIs ==
    ASSUME NEW fd, NEW w, Sound(w), w.open = (peer[clients[fd].peer] # "left"), NEW p,
           ~w.ok \/ peer[clients[fd].peer] = "left"
    PROVE  /\ Cause(fd, w.out, p) \in {"hung up", "slow"}
           /\ peer[clients[fd].peer] = "left" => Cause(fd, w.out, p) = "hung up"
BY DEF Cause, Sound

LEMMA DrainCauses ==
    ASSUME ServerAssumption, Typed, PlacesInv, HangUpInv, CutForCause, ShutKept, Drain
    PROVE  HangUpInv' /\ CutForCause'
<1> DEFINE cause == [fd \in Dead |-> Cause(fd, After(fd).out, clients[fd].peer)]
<1>1. /\ batch' = batch /\ DropAll(Dead, cause) /\ Dead \in SUBSET Open /\ Dead \subseteq Subscribed
  BY DrainIs, OpenIs DEF Dead
<1>2. ASSUME NEW fd \in Dead
      PROVE  /\ cause[fd] \in {"hung up", "slow"}
             /\ peer[clients[fd].peer] = "left" => cause[fd] = "hung up"
  <2>1. Sound(After(fd)) /\ After(fd).open = (peer[clients[fd].peer] # "left") /\ ~After(fd).ok
    BY <1>1, DrainIs DEF Dead
  <2> QED BY <2>1, FailureIs
<1> HIDE DEF cause
<1>3. \A p \in Peers : peer[p] = "left" => peer'[p] = "left"
  BY <1>1, DropIs
<1>4. causes' = causes \cup {<<clients[fd].peer, cause[fd]>> : fd \in Dead}
  BY <1>1 DEF DropAll
<1>5. CutForCause'
  BY <1>2, <1>4, CausesGrow
<1>6. ASSUME NEW fd \in Open, peer[clients[fd].peer] = "left"
      PROVE  \/ clients'[fd] # NoClient /\ clients'[fd].peer = clients[fd].peer
             \/ <<clients[fd].peer, "hung up">> \in causes'
  <2>1. CASE fd \in Dead
    BY <1>2, <1>4, <1>6, <2>1
  <2>2. CASE fd \in Subscribed /\ fd \notin Dead
    <3>1. clients[fd] \in Client /\ Sound(After(fd)) /\ clients'[fd] = Kept(clients[fd], After(fd))
      BY <2>2, DrainIs, OpenIs
    <3>2. /\ Kept(clients[fd], After(fd)) # NoClient
          /\ Kept(clients[fd], After(fd)).peer = clients[fd].peer
      BY <3>1, KeptIs
    <3> QED BY <3>1, <3>2
  <2>3. CASE fd \notin Subscribed
    BY <1>1, <2>3, DrainIs DEF Open
  <2> QED BY <2>1, <2>2, <2>3
<1>7. HangUpInv'
  BY <1>1, <1>3, <1>4, <1>6, HangUpKept
<1> QED BY <1>5, <1>7

LEMMA HupCauses ==
    ASSUME ServerAssumption, Typed, PlacesInv, HangUpInv, CutForCause, ShutKept,
           NEW e \in batch \ {Listen, Wakeup}, HupEvent(e)
    PROVE  HangUpInv' /\ CutForCause'
<1> DEFINE hit == {e.fd} \cap Open
           cause == [fd \in hit |-> Cause(fd, clients[fd].out, e.for)]
<1>1. /\ e.hup /\ batch' = batch \ {e}
      /\ clients' = [fd \in Fds |-> IF fd \in hit THEN NoClient ELSE clients[fd]]
      /\ hit \in SUBSET Open /\ \A fd \in hit : fd = e.fd
      /\ DropAll(hit, cause)
  BY HupIs
<1>2. /\ peer[e.for] = "left" /\ e.for \in Peers
      /\ (e.fd \in Open /\ clients[e.fd].peer = e.for) \/ <<e.for, "hung up">> \in causes
  BY <1>1, OpenIs DEF HangUpInv
<1>3. ASSUME NEW fd \in hit
      PROVE  /\ cause[fd] # "none"
             /\ cause[fd] # "ended"
             /\ cause[fd] = "stale event" =>
                   \E q \in Peers \ {clients[fd].peer} : <<q, "hung up">> \in causes
             /\ peer[clients[fd].peer] = "left" => cause[fd] = "hung up"
  <2>1. /\ cause[fd] = Cause(fd, clients[fd].out, e.for) /\ fd = e.fd
    BY <1>1
  <2>2. clients[fd].peer = e.for => peer[clients[fd].peer] = "left"
    BY <1>2
  <2>3. /\ cause[fd] # "none" /\ cause[fd] # "ended"
        /\ cause[fd] = "stale event" => clients[fd].peer # e.for
        /\ peer[clients[fd].peer] = "left" => cause[fd] = "hung up"
    BY <2>1, <2>2 DEF Cause
  <2> QED BY <1>2, <2>1, <2>3
<1> HIDE DEF cause, hit
<1>4. causes' = causes \cup {<<clients[fd].peer, cause[fd]>> : fd \in hit}
  BY <1>1 DEF DropAll
<1>5. \A p \in Peers : peer[p] = "left" => peer'[p] = "left"
  BY <1>1, DropIs
<1>6. CutForCause'
  BY <1>3, <1>4, CausesGrow
<1>7. ASSUME NEW fd \in Open, peer[clients[fd].peer] = "left"
      PROVE  \/ clients'[fd] # NoClient /\ clients'[fd].peer = clients[fd].peer
             \/ <<clients[fd].peer, "hung up">> \in causes'
  <2>1. CASE fd \in hit
    BY <1>3, <1>4, <1>7, <2>1
  <2>2. CASE fd \notin hit
    BY <1>1, <2>2 DEF Open
  <2> QED BY <2>1, <2>2
<1>8. HangUpInv'
  BY <1>1, <1>4, <1>5, <1>7, HangUpKept
<1> QED BY <1>6, <1>8

(* So has a connection that is over: what was read was not all there was,  *)
(* or it was nothing, at the end of a stream.                              *)
LEMMA OverIs ==
    ASSUME ServerAssumption, Typed, PlacesInv, NEW e \in Event, e.fd \in Open,
           ~Wrote(e).ok \/ Over(e)
    PROVE  /\ Cause(e.fd, Wrote(e).out, clients[e.fd].peer) \notin {"none", "stale event"}
           /\ Cause(e.fd, Wrote(e).out, clients[e.fd].peer) = "ended" =>
                 clients[e.fd].peer \in shut /\ toServer[clients[e.fd].peer] = <<>>
           /\ peer[clients[e.fd].peer] = "left" =>
                 Cause(e.fd, Wrote(e).out, clients[e.fd].peer) = "hung up"
<1> DEFINE p == clients[e.fd].peer  h == clients[e.fd].held  s == toServer[p]  out == Wrote(e).out
<1>1. Cause(e.fd, out, p) = IF peer[p] = "left" THEN "hung up"
                            ELSE IF Len(out) > PendingMax THEN "slow"
                            ELSE IF h + Len(s) > InMax + 1 THEN "flood"
                            ELSE IF p \in shut /\ s = <<>> /\ out = <<>> THEN "ended" ELSE "none"
  BY DEF Cause
<1>2. CASE ~Wrote(e).ok
  <2>1. Len(out) > PendingMax \/ peer[p] = "left"
    BY <1>2, WroteIs DEF Sound
  <2> HIDE DEF p, s, out, h
  <2> QED BY <1>1, <2>1 DEF p, s, out
<1>3. CASE Over(e)
  <2>1. out = <<>> /\ ~Alive(clients[e.fd])
    BY <1>3 DEF Over
  <2>2. h + Len(s) > InMax + 1 \/ ((p \in shut \/ peer[p] = "left") /\ s = <<>>)
    <3>1. \/ Len(Fill(clients[e.fd])) # Len(s)
          \/ /\ p \in shut \/ peer[p] = "left"
             /\ Fill(clients[e.fd]) = <<>> /\ Len(Fill(clients[e.fd])) = Len(s)
      BY <2>1, Zenon DEF Alive
    <3> QED BY <3>1, FillIs
  <2> HIDE DEF p, s, out, h
  <2> QED BY <1>1, <2>1, <2>2 DEF p, s, out
<1> QED BY <1>2, <1>3

LEMMA IoCauses ==
    ASSUME ServerAssumption, Typed, PlacesInv, HangUpInv, CutForCause, ShutKept,
           NEW e \in batch \ {Listen, Wakeup}, IoEvent(e)
    PROVE  HangUpInv' /\ CutForCause'
<1>1. e.fd \in Open /\ e.fd \in Fds /\ e \in Event /\ batch' = batch \ {e}
  BY IoIs, OpenIs
<1>2. Sound(Wrote(e)) /\ Wrote(e).open = (peer[clients[e.fd].peer] # "left")
  BY <1>1, WroteIs
<1>3. CASE /\ clients' = [clients EXCEPT ![e.fd] = Kept(Updated(e), Wrote(e))]
           /\ UNCHANGED <<peer, causes>>
  <2>1. /\ Updated(e) \in Client /\ Updated(e).peer = clients[e.fd].peer
    BY <1>1, UpdatedIs
  <2>2. /\ Kept(Updated(e), Wrote(e)) # NoClient
        /\ Kept(Updated(e), Wrote(e)).peer = clients[e.fd].peer
    BY <1>2, <2>1, KeptIs
  <2>3. \A fd \in Open : clients'[fd] # NoClient /\ clients'[fd].peer = clients[fd].peer
    BY <1>1, <1>3, <2>2 DEF Open, Typed, Slots
  <2>4. HangUpInv'
    BY <1>1, <1>3, <2>3, HangUpKept
  <2> QED BY <1>3, <2>4, CausesSame
<1>4. CASE /\ ~Wrote(e).ok \/ Over(e)
           /\ clients' = [clients EXCEPT ![e.fd] = NoClient]
           /\ DropAll({e.fd}, [fd \in {e.fd} |-> Cause(fd, Wrote(e).out, clients[e.fd].peer)])
  <2> DEFINE cause == [fd \in {e.fd} |-> Cause(fd, Wrote(e).out, clients[e.fd].peer)]
  <2>1. /\ cause[e.fd] \notin {"none", "stale event"}
        /\ cause[e.fd] = "ended" =>
              clients[e.fd].peer \in shut /\ toServer[clients[e.fd].peer] = <<>>
        /\ peer[clients[e.fd].peer] = "left" => cause[e.fd] = "hung up"
    <3>1. cause[e.fd] = Cause(e.fd, Wrote(e).out, clients[e.fd].peer)
      OBVIOUS
    <3> HIDE DEF cause
    <3> QED BY <1>1, <1>4, <3>1, OverIs
  <2>2. DropAll({e.fd}, cause) /\ {e.fd} \in SUBSET Open
    BY <1>1, <1>4
  <2> HIDE DEF cause
  <2>3. causes' = causes \cup {<<clients[fd].peer, cause[fd]>> : fd \in {e.fd}}
    BY <2>2 DEF DropAll
  <2>4. \A p \in Peers : peer[p] = "left" => peer'[p] = "left"
    BY <2>2, DropIs
  <2>5. CutForCause'
    BY <2>1, <2>3, CausesGrow
  <2>6. \A fd \in Open : peer[clients[fd].peer] = "left" =>
           \/ clients'[fd] # NoClient /\ clients'[fd].peer = clients[fd].peer
           \/ <<clients[fd].peer, "hung up">> \in causes'
    BY <1>1, <1>4, <2>1, <2>3 DEF Open, Typed, Slots
  <2>7. HangUpInv'
    BY <1>1, <2>3, <2>4, <2>6, HangUpKept
  <2> QED BY <2>5, <2>7
<1> QED BY <1>3, <1>4, IoIs

LEMMA AcceptCauses ==
    ASSUME ServerAssumption, Typed, PlacesInv, HangUpInv, CutForCause, ShutKept, Accept
    PROVE  HangUpInv' /\ CutForCause'
<1>1. /\ batch' \subseteq batch
      /\ causes \subseteq causes' /\ causes' \subseteq causes \cup (Peers \X {"refused"})
  BY AcceptIs
<1>2. \A p \in Peers : peer[p] = "left" => peer'[p] = "left"
  BY AcceptIs
<1>3. \A fd \in Open : clients'[fd] = clients[fd] /\ clients[fd] # NoClient
  BY AcceptIs DEF Seated, Open
<1>4. HangUpInv'
  BY <1>1, <1>2, <1>3, HangUpKept
<1>5. CutForCause'
  BY <1>1, CausesGrow
<1> QED BY <1>4, <1>5

LEMMA CausesStep ==
    ASSUME ServerAssumption, Typed, PlacesInv, HangUpInv, CutForCause, [Next]_vars
    PROVE  HangUpInv' /\ CutForCause'
<1>0. ShutKept
  BY ShutStays
<1>1. CASE UNCHANGED <<clients, causes>> /\ batch' \subseteq batch
           /\ \A p \in Peers : peer[p] = "left" => peer'[p] = "left"
  <2>1. HangUpInv'
    BY <1>1, HangUpKept DEF Open
  <2> QED BY <1>0, <1>1, <2>1, CausesSame
<1>2. CASE EpollWait
  <2>1. /\ batch' = Ready /\ UNCHANGED <<peer, clients, causes>>
    BY <1>2 DEF EpollWait, peerVars
  <2>2. HangUpInv'
    BY <2>1, ReadyIs DEF HangUpInv, Open
  <2> QED BY <1>0, <2>1, <2>2, CausesSame
<1>3. CASE Join
  <2>1. batch' = {} /\ \E left : causes' = causes \cup (left \X {"stopped"})
    BY <1>3 DEF Join
  <2>2. CutForCause'
    BY <1>0, <2>1, CausesGrow
  <2> QED BY <2>1, <2>2 DEF HangUpInv
<1>4. CASE Next
  <2>1. TakeWake \/ Queue \/ WakeLoop \/ Stop
            => UNCHANGED <<clients, causes, peer>> /\ batch' \subseteq batch
    BY DEF TakeWake, Queue, WakeLoop, Stop, Handle, srvVars, peerVars
  <2>2. \A e \in batch : DeadEvent(e) => UNCHANGED <<clients, causes, peer>> /\ batch' \subseteq batch
    BY DEF DeadEvent, Handle, peerVars
  <2>3. \A p \in Peers : (Connect(p) \/ Send(p) \/ Shut(p) \/ Read(p) \/ HangUp(p))
           => /\ UNCHANGED <<clients, causes>> /\ batch' \subseteq batch
              /\ \A q \in Peers : peer[q] = "left" => peer'[q] = "left"
    BY DEF Connect, Shut, Read, HangUp, Send, srvVars, Typed
  <2>4. ASSUME NEW e \in batch \ {Listen, Wakeup}, HupEvent(e) \/ IoEvent(e) \/ DeadEvent(e)
        PROVE  HangUpInv' /\ CutForCause'
    BY <1>0, <1>1, <2>2, <2>4, HupCauses, IoCauses
  <2> QED BY <1>0, <1>1, <1>2, <1>3, <1>4, <2>1, <2>3, <2>4, AcceptCauses, DrainCauses, NextIs
<1> QED BY <1>1, <1>4 DEF vars, peerVars, srvVars

(* The server ends the connection of a peer that is still there only when  *)
(* it is too far behind, has sent too much at a time, has shut its sending *)
(* side and had all of it read, is one too many or in the way of stop; the *)
(* one exception is a hang-up that hits the next holder of a descriptor,   *)
(* after the earlier one was dropped for having left.                      *)
THEOREM ClosesForCause == Spec => []CutForCause
<1>1. Init => Typed /\ PlacesInv /\ HangUpInv /\ CutForCause
  <2>1. Init => HangUpInv /\ CutForCause
    BY DEF Init, HangUpInv, CutForCause
  <2> QED BY <2>1, InitPlaces, ServerAssumption
<1>2. Typed /\ PlacesInv /\ HangUpInv /\ CutForCause /\ [Next]_vars
          => Typed' /\ PlacesInv' /\ HangUpInv' /\ CutForCause'
  BY ServerAssumption, PlacesStep, CausesStep
<1> QED BY <1>1, <1>2, PTL DEF Spec
=============================================================================
