----------------------------- MODULE CtlProofs -----------------------------
(***************************************************************************)
(* Theorems about Ctl, for every size of lines, reads and buffers.         *)
(***************************************************************************)
EXTENDS Ctl, SequenceTheorems, TLAPS

(***************************************************************************)
(* Streams of lines.                                                       *)
(***************************************************************************)

LEMMA LineIsBytes ==
    ASSUME NEW n \in Nat, NEW len \in Nat
    PROVE  /\ LineBytes(n, len) \in Seq(Byte) /\ Len(LineBytes(n, len)) = len
           /\ \A i \in 1..len : LineBytes(n, len)[i] = [of |-> n, nl |-> i = len]
BY DEF LineBytes, Byte

(* Where the lines of a stream begin.                                      *)
Places(at, buf, first, kinds) ==
    /\ at \in [first..(Len(kinds) + 1) -> Int]
    /\ at[first] = 1
    /\ \A n \in first..Len(kinds) :
          /\ at[n + 1] = at[n] + Size[kinds[n]]
          /\ at[n + 1] <= at[Len(kinds) + 1]
          /\ \A i \in DOMAIN buf :
                at[n] <= i /\ i < at[n + 1] => buf[i] = [of |-> n, nl |-> i = at[n + 1] - 1]
    /\ Len(buf) < at[Len(kinds) + 1]

LEMMA LaidPlaces ==
    ASSUME NEW buf, NEW first, NEW kinds, NEW whole \in BOOLEAN
    PROVE  Laid(buf, first, kinds, whole) <=>
              \E at : Places(at, buf, first, kinds) /\ (whole => Len(buf) + 1 = at[Len(kinds) + 1])
BY DEF Laid, Places

(* What is known of a stream is known of its beginning.                    *)
Begins(head, buf) == Len(head) <= Len(buf) /\ \A i \in 1..Len(head) : head[i] = buf[i]

LEMMA LaidPrefix ==
    ASSUME NEW kinds \in Seq(LineKinds), NEW first \in 1..(Len(kinds) + 1), NEW whole \in BOOLEAN,
           NEW buf \in Seq(Byte), NEW head \in Seq(Byte), Laid(buf, first, kinds, whole),
           Begins(head, buf)
    PROVE  Laid(head, first, kinds, FALSE)
<1>1. PICK at : Places(at, buf, first, kinds)
  BY LaidPlaces
<1>2. /\ DOMAIN head \subseteq DOMAIN buf /\ \A i \in DOMAIN head : head[i] = buf[i]
      /\ Len(head) <= Len(buf)
  BY DEF Begins
<1>3. Len(head) < at[Len(kinds) + 1]
  <2>1. Len(kinds) + 1 \in first..(Len(kinds) + 1)
    OBVIOUS
  <2>2. at[Len(kinds) + 1] \in Int /\ Len(buf) < at[Len(kinds) + 1]
    BY <1>1, <2>1 DEF Places
  <2>3. Len(head) \in Nat /\ Len(buf) \in Nat
    OBVIOUS
  <2> QED BY <1>2, <2>2, <2>3
<1>4. Places(at, head, first, kinds)
  BY <1>1, <1>2, <1>3 DEF Places
<1> QED BY <1>4, LaidPlaces

(* A stream that goes on with bytes of line n, which ends before end.      *)
GoesOn(new, buf, from, n, end) ==
    /\ Len(buf) <= Len(new) /\ Len(new) < end
    /\ \A i \in 1..Len(buf) : new[i] = buf[i]
    /\ \A i \in 1..Len(new) : i < from => i <= Len(buf)
    /\ \A i \in 1..Len(new) : from <= i => new[i] = [of |-> n, nl |-> i = end - 1]

(* What is left of a stream without its first bytes.                       *)
Rest(rest, buf, size) ==
    /\ Len(rest) = Len(buf) - size
    /\ \A i \in 1..Len(rest) : rest[i] = buf[i + size]

LEMMA Shifted ==
    ASSUME NEW i \in Int, NEW from \in Int, NEW to \in Int, NEW by \in Int
    PROVE  /\ from - by <= i => from <= i + by
           /\ i < to - by => i + by < to
           /\ i <= to => i - by <= to - by
           /\ i = from + to => i - by = (from - by) + to
OBVIOUS

LEMMA ShiftedEnd ==
    ASSUME NEW i \in Int, NEW end \in Int, NEW by \in Int
    PROVE  (i + by = end - 1) <=> (i = (end - by) - 1)
OBVIOUS

(* One more line, of which the stream holds all, some or nothing.          *)
LEMMA OneMoreLine ==
    ASSUME NEW kinds \in Seq(LineKinds), NEW first \in 1..(Len(kinds) + 1), NEW kind \in LineKinds,
           NEW buf \in Seq(Byte), NEW new \in Seq(Byte), NEW at, Places(at, buf, first, kinds),
           GoesOn(new, buf, at[Len(kinds) + 1], Len(kinds) + 1, at[Len(kinds) + 1] + Size[kind])
    PROVE  \E to : /\ Places(to, new, first, Append(kinds, kind))
                   /\ to[Len(kinds) + 2] = at[Len(kinds) + 1] + Size[kind]
<1> DEFINE size == Size[kind]
           n == Len(kinds) + 1
           end == at[n] + size
           all == Append(kinds, kind)
<1>1. n \in Nat /\ size \in Nat \ {0} /\ n = Len(kinds) + 1
  BY CtlAssumption
<1> HIDE DEF size
<1>2. /\ Len(all) = n /\ all[n] = kind /\ \A m \in 1..Len(kinds) : all[m] = kinds[m]
  OBVIOUS
<1>3. /\ at \in [first..n -> Int] /\ Len(buf) \in Nat /\ DOMAIN buf = 1..Len(buf)
      /\ Len(new) \in Nat /\ DOMAIN new = 1..Len(new)
  BY DEF Places
<1>0. GoesOn(new, buf, at[n], n, end)
  BY DEF size
<1> HIDE DEF all, n, end
<1> DEFINE to == [m \in first..(n + 1) |-> IF m = n + 1 THEN end ELSE at[m]]
<1>4. /\ to \in [first..(n + 1) -> Int] /\ to[n + 1] = end /\ end \in Int /\ end = at[n] + size
      /\ \A m \in first..n : to[m] = at[m]
  <2>1. n \in first..n /\ n + 1 \in first..(n + 1) /\ first \in Int /\ n \in Int
    BY <1>1
  <2>2. \A m \in first..n : m \in first..(n + 1) /\ m # n + 1
    BY <2>1
  <2>3. end \in Int /\ end = at[n] + size
    <3>1. at[n] \in Int /\ end = at[n] + size
      BY <1>3, <2>1 DEF end
    <3> QED BY <1>1, <3>1
  <2>4. \A m \in first..(n + 1) : m # n + 1 => m \in first..n
    BY <2>1
  <2> QED BY <1>3, <2>1, <2>2, <2>3, <2>4
<1> HIDE DEF to
<1>5. ASSUME NEW m \in first..n
      PROVE  /\ to[m + 1] = to[m] + Size[all[m]]
             /\ to[m + 1] <= to[n + 1]
             /\ \A i \in DOMAIN new :
                   to[m] <= i /\ i < to[m + 1] => new[i] = [of |-> m, nl |-> i = to[m + 1] - 1]
  <2>1. CASE m = n
    <3>1. to[m] = at[n] /\ to[m + 1] = end /\ all[m] = kind /\ at[n] \in Int
      BY <1>2, <1>3, <1>4, <2>1
    <3>2. ASSUME NEW i \in DOMAIN new, to[m] <= i, i < to[m + 1]
          PROVE  new[i] = [of |-> m, nl |-> i = to[m + 1] - 1]
      BY <1>0, <1>3, <2>1, <3>1, <3>2 DEF GoesOn
    <3> QED BY <1>1, <1>4, <2>1, <3>1, <3>2 DEF size
  <2>2. CASE m # n
    <3>1. m \in first..Len(kinds) /\ m + 1 \in first..n /\ m \in 1..Len(kinds)
      BY <1>1, <2>2
    <3>2. /\ at[m + 1] = at[m] + Size[kinds[m]] /\ at[m + 1] <= at[n]
          /\ \A i \in DOMAIN buf :
                at[m] <= i /\ i < at[m + 1] => buf[i] = [of |-> m, nl |-> i = at[m + 1] - 1]
      BY <3>1 DEF Places, n
    <3>3. to[m] = at[m] /\ to[m + 1] = at[m + 1] /\ all[m] = kinds[m]
      BY <1>2, <1>4, <3>1
    <3>4. at[m + 1] \in Int /\ at[n] \in Int
      <4>1. n \in first..n
        BY <1>1
      <4> QED BY <1>3, <3>1, <4>1
    <3>5. ASSUME NEW i \in DOMAIN new, to[m] <= i, i < to[m + 1]
          PROVE  new[i] = [of |-> m, nl |-> i = to[m + 1] - 1]
      <4>1. i \in 1..Len(buf)
        BY <1>0, <1>3, <3>2, <3>3, <3>4, <3>5 DEF GoesOn
      <4> QED BY <1>0, <1>3, <3>2, <3>3, <3>5, <4>1 DEF GoesOn
    <3> QED BY <1>1, <1>4, <3>2, <3>3, <3>4, <3>5, SMTT(20)
  <2> QED BY <2>1, <2>2
<1>6. Len(new) < to[n + 1] /\ to[first] = 1
  BY <1>0, <1>1, <1>4 DEF Places, GoesOn, n
<1>7. Places(to, new, first, all)
  BY <1>1, <1>2, <1>4, <1>5, <1>6 DEF Places
<1>8. Len(kinds) + 2 = n + 1
  BY <1>1
<1> QED BY <1>4, <1>7, <1>8 DEF all, size, n, end

(* One more line at the end of a whole stream.                             *)
LEMMA LaidAppend ==
    ASSUME NEW kinds \in Seq(LineKinds), NEW first \in 1..(Len(kinds) + 1),
           NEW buf \in Seq(Byte), NEW kind \in LineKinds, Laid(buf, first, kinds, TRUE)
    PROVE  Laid(buf \o LineBytes(Len(kinds) + 1, Size[kind]), first, Append(kinds, kind), TRUE)
<1> DEFINE n == Len(kinds) + 1
           size == Size[kind]
           line == LineBytes(n, size)
           all == Append(kinds, kind)
           new == buf \o line
           end == Len(buf) + 1 + size
<1>1. n \in Nat /\ size \in Nat \ {0} /\ Len(buf) \in Nat
  BY CtlAssumption
<1>2. /\ line \in Seq(Byte) /\ Len(line) = size
      /\ \A i \in 1..size : line[i] = [of |-> n, nl |-> i = size]
  BY <1>1, LineIsBytes
<1> HIDE DEF line, size
<1>3. /\ new \in Seq(Byte) /\ Len(new) = Len(buf) + size
      /\ \A i \in 1..Len(buf) : new[i] = buf[i]
      /\ \A i \in (Len(buf) + 1)..(Len(buf) + size) : new[i] = line[i - Len(buf)]
  <2>1. /\ buf \o line \in Seq(Byte) /\ Len(buf \o line) = Len(buf) + Len(line)
        /\ \A i \in 1..(Len(buf) + Len(line)) :
              (buf \o line)[i] = IF i <= Len(buf) THEN buf[i] ELSE line[i - Len(buf)]
    BY <1>2, ConcatProperties
  <2> HIDE DEF new
  <2>2. new = buf \o line
    BY DEF new
  <2> QED BY <1>1, <1>2, <2>1, <2>2
<1> HIDE DEF new, all
<1>4. PICK at : Places(at, buf, first, kinds) /\ Len(buf) + 1 = at[n]
  BY DEF Laid, Places
<1>5. ASSUME NEW i \in 1..Len(new), at[n] <= i
      PROVE  new[i] = [of |-> n, nl |-> i = end - 1]
  <2>1. i \in (Len(buf) + 1)..(Len(buf) + size) /\ i - Len(buf) \in 1..size
    BY <1>1, <1>3, <1>4, <1>5
  <2>2. new[i] = [of |-> n, nl |-> i - Len(buf) = size]
    <3>1. new[i] = line[i - Len(buf)]
      BY <1>3, <2>1
    <3> DEFINE j == i - Len(buf)
    <3>2. j \in 1..size
      BY <2>1
    <3> HIDE DEF j
    <3>3. line[j] = [of |-> n, nl |-> j = size]
      BY <1>2, <3>2
    <3> QED BY <3>1, <3>3 DEF j
  <2>3. (i - Len(buf) = size) <=> (i = end - 1)
    BY <1>1
  <2> QED BY <2>2, <2>3
<1>6. /\ Len(buf) <= Len(new) /\ Len(new) < end
      /\ \A i \in 1..Len(new) : i < at[n] => i <= Len(buf)
  BY <1>1, <1>3, <1>4
<1>7. end = at[n] + Size[kind] /\ Len(new) + 1 = end
  BY <1>1, <1>3, <1>4 DEF size
<1>8. GoesOn(new, buf, at[n], n, end)
  BY <1>3, <1>5, <1>6 DEF GoesOn
<1>9. PICK to : Places(to, new, first, all) /\ to[Len(kinds) + 2] = end
  <2> HIDE DEF end
  <2> QED BY <1>3, <1>4, <1>7, <1>8, OneMoreLine DEF all
<1>10. Len(kinds) + 2 = Len(all) + 1
  BY DEF all
<1>11. (TRUE => Len(new) + 1 = to[Len(all) + 1]) /\ TRUE \in BOOLEAN
  BY <1>7, <1>9, <1>10
<1> QED BY <1>9, <1>11, LaidPlaces DEF new, line, all, size

(* A line of which nothing is in the stream.                               *)
LEMMA LaidLater ==
    ASSUME NEW kinds \in Seq(LineKinds), NEW first \in 1..(Len(kinds) + 1),
           NEW buf \in Seq(Byte), NEW kind \in LineKinds, Laid(buf, first, kinds, FALSE)
    PROVE  Laid(buf, first, Append(kinds, kind), FALSE)
<1> DEFINE n == Len(kinds) + 1
<1>1. PICK at : Places(at, buf, first, kinds)
  BY DEF Laid, Places
<1>2. /\ Len(buf) \in Nat /\ at[n] \in Int /\ Len(buf) < at[n]
      /\ Size[kind] \in Nat \ {0}
  BY <1>1, CtlAssumption DEF Places
<1>3. GoesOn(buf, buf, at[n], n, at[n] + Size[kind])
  <2> HIDE DEF n
  <2> QED BY <1>2 DEF GoesOn
<1>4. PICK to : Places(to, buf, first, Append(kinds, kind))
  BY <1>1, <1>3, OneMoreLine
<1>5. FALSE \in BOOLEAN
  OBVIOUS
<1> QED BY <1>4, <1>5, LaidPlaces

(* The first line of a stream that has one is whole and is the next.       *)
LEMMA LaidFirst ==
    ASSUME NEW kinds \in Seq(LineKinds), NEW first \in 1..(Len(kinds) + 1),
           NEW buf \in Seq(Byte), Laid(buf, first, kinds, FALSE), HasLine(buf)
    PROVE  /\ first \in 1..Len(kinds)
           /\ LineEnd(buf) = Size[kinds[first]]
           /\ LineEnd(buf) \in 1..Len(buf)
           /\ FirstLine(buf) = LineBytes(first, Size[kinds[first]])
<1> DEFINE size == Size[kinds[first]]
<1>1. PICK at : Places(at, buf, first, kinds)
  BY DEF Laid, Places
<1>2. PICK k \in 1..Len(buf) : buf[k].nl
  BY DEF HasLine
<1>3. first \in 1..Len(kinds)
  <2>1. SUFFICES ASSUME first = Len(kinds) + 1 PROVE FALSE
    OBVIOUS
  <2> QED BY <1>1, <1>2, <2>1 DEF Places
<1>4. size \in Nat \ {0} /\ at[first] = 1 /\ at[first + 1] = 1 + size
  BY <1>1, <1>3, CtlAssumption DEF Places
<1> HIDE DEF size
<1>5. \A i \in 1..Len(buf) : i <= size => buf[i] = [of |-> first, nl |-> i = size]
  <2> TAKE i \in 1..Len(buf)
  <2> HAVE i <= size
  <2>1. at[first] <= i /\ i < at[first + 1]
    BY <1>4
  <2>2. buf[i] = [of |-> first, nl |-> i = at[first + 1] - 1]
    BY <1>1, <1>3, <2>1, SMTT(20) DEF Places
  <2>3. at[first + 1] - 1 = size
    BY <1>4
  <2> QED BY <2>2, <2>3
<1>6. \A i \in 1..Len(buf) : i <= size => (buf[i].nl <=> i = size)
  <2> TAKE i \in 1..Len(buf)
  <2> HAVE i <= size
  <2>1. buf[i] = [of |-> first, nl |-> i = size]
    BY <1>5
  <2>2. [of |-> first, nl |-> i = size].nl <=> i = size
    OBVIOUS
  <2> QED BY <2>1, <2>2
<1>7. size \in 1..Len(buf) /\ buf[size].nl
  <2>1. ~(k < size)
    BY <1>2, <1>4, <1>6
  <2>2. size \in 1..Len(buf)
    BY <1>2, <1>4, <2>1
  <2> QED BY <1>6, <2>2
<1>8. LineEnd(buf) = size
  <2> DEFINE Ends(i) == buf[i].nl /\ \A j \in 1..(i - 1) : ~buf[j].nl
  <2>1. Ends(size)
    BY <1>4, <1>6, <1>7
  <2>2. \A i \in 1..Len(buf) : Ends(i) => i = size
    <3> SUFFICES ASSUME NEW i \in 1..Len(buf), Ends(i), i # size
                 PROVE  FALSE
      OBVIOUS
    <3>1. CASE i < size
      <4>1. buf[i].nl <=> i = size
        BY <1>4, <1>6, <3>1
      <4> QED BY <1>4, <3>1, <4>1
    <3>2. CASE size < i
      BY <1>4, <1>7, <3>2
    <3> QED BY <1>4, <3>1, <3>2
  <2> QED BY <1>7, <2>1, <2>2 DEF LineEnd
<1>9. FirstLine(buf) = LineBytes(first, size)
  <2>1. FirstLine(buf) = [i \in 1..size |-> buf[i]]
    BY <1>4, <1>7, <1>8 DEF FirstLine
  <2>2. \A i \in 1..size : buf[i] = [of |-> first, nl |-> i = size]
    BY <1>4, <1>5, <1>7
  <2> QED BY <2>1, <2>2 DEF LineBytes
<1> QED BY <1>3, <1>7, <1>8, <1>9 DEF size

(* What is left when the first line is gone.                               *)
LEMMA LaidRest ==
    ASSUME NEW kinds \in Seq(LineKinds), NEW first \in 1..Len(kinds), NEW whole \in BOOLEAN,
           NEW buf \in Seq(Byte), NEW rest \in Seq(Byte), Laid(buf, first, kinds, whole),
           Rest(rest, buf, Size[kinds[first]])
    PROVE  Laid(rest, first + 1, kinds, whole)
<1> DEFINE n == Len(kinds) + 1
           size == Size[kinds[first]]
<1>1. PICK at : Places(at, buf, first, kinds) /\ (whole => Len(buf) + 1 = at[n])
  BY LaidPlaces
<1>2. /\ size \in Nat \ {0} /\ Len(buf) \in Nat /\ Len(rest) \in Nat
      /\ Len(rest) = Len(buf) - size
      /\ DOMAIN buf = 1..Len(buf) /\ DOMAIN rest = 1..Len(rest)
      /\ n \in Nat /\ first \in Nat /\ first < n
  BY CtlAssumption DEF Rest
<1>3. at \in [first..n -> Int] /\ at[first] = 1 /\ at[first + 1] = 1 + size
  BY <1>1 DEF Places
<1> HIDE DEF n, size
<1> DEFINE to == [m \in (first + 1)..n |-> at[m] - size]
<1>4. /\ to \in [(first + 1)..n -> Int]
      /\ \A m \in (first + 1)..n : to[m] = at[m] - size /\ at[m] \in Int
  <2>1. \A m \in (first + 1)..n : m \in first..n
    BY <1>2
  <2>2. \A m \in (first + 1)..n : at[m] \in Int /\ at[m] - size \in Int
    BY <1>2, <1>3, <2>1
  <2> QED BY <2>2
<1> HIDE DEF to
<1>5. to[first + 1] = 1
  BY <1>2, <1>3, <1>4
<1>6. Len(rest) < to[n] /\ (whole => Len(rest) + 1 = to[n])
  <2>1. n \in (first + 1)..n
    BY <1>2
  <2>2. to[n] = at[n] - size /\ at[n] \in Int /\ Len(buf) < at[n]
    BY <1>1, <1>4, <2>1 DEF Places, n
  <2> QED BY <1>1, <1>2, <2>2
<1>7. ASSUME NEW m \in (first + 1)..Len(kinds)
      PROVE  /\ to[m + 1] = to[m] + Size[kinds[m]]
             /\ to[m + 1] <= to[n]
             /\ \A i \in DOMAIN rest :
                   to[m] <= i /\ i < to[m + 1] => rest[i] = [of |-> m, nl |-> i = to[m + 1] - 1]
  <2>1. m \in first..Len(kinds) /\ m \in (first + 1)..n /\ m + 1 \in (first + 1)..n
        /\ n \in (first + 1)..n
    BY <1>2 DEF n
  <2>2. /\ at[m + 1] = at[m] + Size[kinds[m]] /\ at[m + 1] <= at[n]
        /\ \A i \in DOMAIN buf :
              at[m] <= i /\ i < at[m + 1] => buf[i] = [of |-> m, nl |-> i = at[m + 1] - 1]
    BY <1>1, <2>1 DEF Places, n
  <2>3. /\ to[m] = at[m] - size /\ to[m + 1] = at[m + 1] - size /\ to[n] = at[n] - size
        /\ at[m] \in Int /\ at[m + 1] \in Int /\ at[n] \in Int
    BY <1>4, <2>1
  <2>4. Size[kinds[m]] \in Nat
    BY <2>1, CtlAssumption
  <2>5. ASSUME NEW i \in 1..Len(rest), to[m] <= i, i < to[m + 1]
        PROVE  rest[i] = [of |-> m, nl |-> i = to[m + 1] - 1]
    <3>1. i + size \in 1..Len(buf) /\ at[m] <= i + size /\ i + size < at[m + 1]
      <4>1. i \in Int /\ size \in Int /\ 0 < size /\ 1 <= i /\ i <= Len(rest)
        BY <1>2
      <4>2. Len(rest) = Len(buf) - size /\ Len(buf) \in Int
        BY <1>2
      <4>3. at[m] - size <= i /\ i < at[m + 1] - size
        BY <2>3, <2>5
      <4>4. at[m] <= i + size /\ i + size < at[m + 1]
        BY <2>3, <4>1, <4>3, Shifted
      <4>5. 1 <= i + size /\ i + size <= Len(buf) /\ i + size \in Int
        BY <4>1, <4>2
      <4> QED BY <4>2, <4>4, <4>5
    <3>2. buf[i + size] = [of |-> m, nl |-> i + size = at[m + 1] - 1]
      BY <1>2, <2>2, <3>1
    <3>3. (i + size = at[m + 1] - 1) <=> (i = (at[m + 1] - size) - 1)
      <4>1. i \in Int /\ size \in Int /\ at[m + 1] \in Int
        BY <1>2, <2>3
      <4>2. ASSUME NEW end \in Int PROVE (i + size = end - 1) <=> (i = (end - size) - 1)
        BY <4>1, ShiftedEnd
      <4> QED BY <4>1, <4>2 DEF Begins
    <3> QED BY <2>3, <3>2, <3>3 DEF Rest, size
  <2>6. to[m + 1] = to[m] + Size[kinds[m]] /\ to[m + 1] <= to[n]
    <3>1. Size[kinds[m]] \in Int /\ size \in Int
      BY <1>2, <2>4
    <3>2. at[m + 1] - size = (at[m] - size) + Size[kinds[m]]
      BY <2>2, <2>3, <3>1, Shifted, SMTT(20)
    <3>3. at[m + 1] - size <= at[n] - size
      BY <2>2, <2>3, <3>1, Shifted
    <3> QED BY <2>3, <3>2, <3>3
  <2> QED BY <1>2, <2>5, <2>6
<1>8. Places(to, rest, first + 1, kinds)
  BY <1>2, <1>4, <1>5, <1>6, <1>7 DEF Places, n
<1> QED BY <1>6, <1>8, LaidPlaces DEF n

(* A stream with at most one line is no longer than it.                    *)
LEMMA LaidShort ==
    ASSUME NEW kinds \in Seq(LineKinds), NEW first \in 1..(Len(kinds) + 1), NEW whole \in BOOLEAN,
           NEW buf \in Seq(Byte), Laid(buf, first, kinds, whole)
    PROVE  /\ first = Len(kinds) + 1 => Len(buf) = 0 /\ Laid(buf, first, kinds, TRUE)
           /\ first = Len(kinds) => Len(buf) <= Size[kinds[first]]
<1>1. PICK at : Places(at, buf, first, kinds)
  BY LaidPlaces
<1>2. Len(buf) \in Nat /\ at[first] = 1 /\ Len(buf) < at[Len(kinds) + 1]
  BY <1>1 DEF Places
<1>3. ASSUME first = Len(kinds) + 1
      PROVE  Len(buf) = 0 /\ Laid(buf, first, kinds, TRUE)
  <2>1. Len(buf) = 0
    BY <1>2, <1>3
  <2>2. Places(at, buf, first, kinds) /\ (TRUE => Len(buf) + 1 = at[Len(kinds) + 1])
    BY <1>1, <1>2, <1>3, <2>1
  <2>3. TRUE \in BOOLEAN
    OBVIOUS
  <2> QED BY <2>1, <2>2, <2>3, LaidPlaces
<1>4. ASSUME first = Len(kinds)
      PROVE  Len(buf) <= Size[kinds[first]]
  <2>1. at[first + 1] = at[first] + Size[kinds[first]] /\ Size[kinds[first]] \in Nat
    BY <1>1, <1>4, CtlAssumption DEF Places
  <2> QED BY <1>2, <1>4, <2>1
<1> QED BY <1>3, <1>4

(***************************************************************************)
(* Bytes on the move.                                                      *)
(***************************************************************************)

LEMMA Cut ==
    ASSUME NEW S, NEW a \in Seq(S), NEW k \in 0..Len(a)
    PROVE  /\ SubSeq(a, 1, k) \in Seq(S) /\ Len(SubSeq(a, 1, k)) = k
           /\ SubSeq(a, k + 1, Len(a)) \in Seq(S) /\ Len(SubSeq(a, k + 1, Len(a))) = Len(a) - k
           /\ SubSeq(a, 1, k) \o SubSeq(a, k + 1, Len(a)) = a
<1>1. Len(a) \in Nat /\ k \in Nat /\ k <= Len(a)
  OBVIOUS
<1>2. \A i \in 1..Len(a) : a[i] \in S
  BY ElementOfSeq
<1>3. SubSeq(a, 1, k) \in Seq(S) /\ Len(SubSeq(a, 1, k)) = k
  <2>1. \A i \in 1..k : a[i] \in S
    BY <1>1, <1>2
  <2>2. /\ SubSeq(a, 1, k) \in Seq(S)
        /\ Len(SubSeq(a, 1, k)) = IF 1 <= k THEN k - 1 + 1 ELSE 0
    BY <1>1, <2>1, SubSeqProperties
  <2> QED BY <1>1, <2>2
<1>4. SubSeq(a, k + 1, Len(a)) \in Seq(S) /\ Len(SubSeq(a, k + 1, Len(a))) = Len(a) - k
  <2>1. k + 1 \in Int /\ \A i \in (k + 1)..Len(a) : a[i] \in S
    BY <1>1, <1>2
  <2>2. /\ SubSeq(a, k + 1, Len(a)) \in Seq(S)
        /\ Len(SubSeq(a, k + 1, Len(a))) = IF k + 1 <= Len(a) THEN Len(a) - (k + 1) + 1 ELSE 0
    BY <1>1, <2>1, SubSeqProperties
  <2> QED BY <1>1, <2>2
<1>5. SubSeq(a, 1, k) \o SubSeq(a, k + 1, Len(a)) = a
  <2>1. 1 \in 1..(Len(a) + 1) /\ k \in (1 - 1)..Len(a) /\ Len(a) \in k..Len(a)
    BY <1>1
  <2>2. SubSeq(a, 1, k) \o SubSeq(a, k + 1, Len(a)) = SubSeq(a, 1, Len(a))
    BY <2>1, ConcatAdjacentSubSeq
  <2> QED BY <2>2, SubSeqFull
<1> QED BY <1>3, <1>4, <1>5

LEMMA Grouped == \A s, t, u \in Seq(Byte) : (s \o t) \o u = s \o (t \o u)
BY ConcatAssociative

(* What is left of a line's bytes and of all that follows them.            *)
LEMMA Dropped ==
    ASSUME NEW S, NEW a \in Seq(S), NEW t \in Seq(S), NEW size \in 1..Len(a)
    PROVE  /\ Rest(SubSeq(a, size + 1, Len(a)), a, size)
           /\ Rest(SubSeq(a, size + 1, Len(a)) \o t, a \o t, size)
<1> DEFINE r == SubSeq(a, size + 1, Len(a))
<1>1. Len(a) \in Nat /\ size \in Nat /\ size <= Len(a) /\ Len(t) \in Nat
  OBVIOUS
<1>2. r \in Seq(S) /\ Len(r) = Len(a) - size
  BY <1>1, Cut
<1>3. \A i \in 1..Len(r) : r[i] = a[i + size]
  <2> TAKE i \in 1..Len(r)
  <2>1. i \in 1..(Len(a) - (size + 1) + 1)
    BY <1>1, <1>2
  <2>2. r[i] = a[size + 1 + i - 1]
    <3>1. \A j \in (size + 1)..Len(a) : a[j] \in S
      BY <1>1, ElementOfSeq
    <3> QED BY <1>1, <2>1, <3>1, SubSeqProperties
  <2>3. size + 1 + i - 1 = i + size
    BY <1>1, <1>2
  <2> QED BY <2>2, <2>3
<1> HIDE DEF r
<1>4. /\ Len(r \o t) = Len(r) + Len(t) /\ Len(a \o t) = Len(a) + Len(t)
      /\ \A i \in 1..(Len(r) + Len(t)) : (r \o t)[i] = IF i <= Len(r) THEN r[i] ELSE t[i - Len(r)]
      /\ \A i \in 1..(Len(a) + Len(t)) : (a \o t)[i] = IF i <= Len(a) THEN a[i] ELSE t[i - Len(a)]
  BY <1>2, ConcatProperties
<1>5. Len(r \o t) = Len(a \o t) - size
  BY <1>1, <1>2, <1>4
<1>6. \A i \in 1..Len(r \o t) : (r \o t)[i] = (a \o t)[i + size]
  <2> TAKE i \in 1..Len(r \o t)
  <2>1. i \in 1..(Len(r) + Len(t)) /\ i + size \in 1..(Len(a) + Len(t))
    BY <1>1, <1>2, <1>4
  <2>2. CASE i <= Len(r)
    <3>1. i + size <= Len(a) /\ i \in 1..Len(r)
      BY <1>1, <1>2, <2>1, <2>2
    <3> QED BY <1>3, <1>4, <2>1, <2>2, <3>1
  <2>3. CASE ~(i <= Len(r))
    <3>1. ~(i + size <= Len(a)) /\ i + size - Len(a) = i - Len(r)
      BY <1>1, <1>2, <2>1, <2>3
    <3> QED BY <1>4, <2>1, <2>3, <3>1
  <2> QED BY <2>2, <2>3
<1> QED BY <1>2, <1>3, <1>5, <1>6 DEF Rest, r

(***************************************************************************)
(* The invariant.                                                          *)
(***************************************************************************)

LEMMA StreamShape ==
    ASSUME TypeOK, StreamInv
    PROVE  /\ sock \o pending \in Seq(Byte) /\ rbuf \o (sock \o pending) \in Seq(Byte)
           /\ Stream \in Seq(Byte) /\ Begins(rbuf, Stream)
           /\ Len(took) + 1 \in 1..(Len(wrote) + 1)
           /\ Whole \in BOOLEAN
<1>1. rbuf \in Seq(Byte) /\ sock \in Seq(Byte) /\ pending \in Seq(Byte) /\ wrote \in Seq(LineKinds)
      /\ took \in Seq(Seq(Byte)) /\ Len(took) <= Len(wrote)
  BY DEF StreamInv, TypeOK
<1>2. sock \o pending \in Seq(Byte)
  BY <1>1, ConcatProperties
<1> DEFINE rest == sock \o pending
<1> HIDE DEF rest
<1>3. /\ rbuf \o rest \in Seq(Byte) /\ Len(rbuf \o rest) = Len(rbuf) + Len(rest)
      /\ \A i \in 1..(Len(rbuf) + Len(rest)) :
            (rbuf \o rest)[i] = IF i <= Len(rbuf) THEN rbuf[i] ELSE rest[i - Len(rbuf)]
  <2>1. rest \in Seq(Byte)
    BY <1>2 DEF rest
  <2> QED BY <1>1, <2>1, ConcatProperties
<1>4. Len(rbuf) \in Nat /\ Len(rest) \in Nat
  BY <1>1, <1>2 DEF rest
<1>5. Begins(rbuf, rbuf \o rest)
  BY <1>3, <1>4 DEF Begins
<1>6. Len(took) + 1 \in 1..(Len(wrote) + 1)
  <2>1. Len(took) \in Nat /\ Len(wrote) \in Nat /\ Len(took) <= Len(wrote)
    BY <1>1
  <2> QED BY <2>1
<1>7. Stream \in Seq(Byte) /\ Begins(rbuf, Stream)
  <2>1. CASE cause = "too long"
    <3>1. Stream = rbuf
      BY <2>1 DEF Stream
    <3> QED BY <1>1, <1>4, <3>1 DEF Begins
  <2>2. CASE cause # "too long"
    <3>1. Stream = rbuf \o rest
      BY <2>2 DEF Stream, rest
    <3> QED BY <1>3, <1>5, <3>1
  <2> QED BY <2>1, <2>2
<1>8. rbuf \o (sock \o pending) \in Seq(Byte)
  BY <1>3 DEF rest
<1>9. Whole \in BOOLEAN
  BY DEF Whole
<1> QED BY <1>2, <1>6, <1>7, <1>8, <1>9

(* The line that next_line finds is the next one the daemon wrote.         *)
LEMMA NextIsNext ==
    ASSUME TypeOK, StreamInv, pc # "exit", HasLine(rbuf)
    PROVE  /\ Len(took) + 1 \in 1..Len(wrote)
           /\ LineEnd(rbuf) = Size[wrote[Len(took) + 1]] /\ LineEnd(rbuf) \in 1..Len(rbuf)
           /\ FirstLine(rbuf) = LineBytes(Len(took) + 1, Size[wrote[Len(took) + 1]])
           /\ FirstLine(rbuf) \in Seq(Byte) /\ FirstLine(rbuf)[1].of = Len(took) + 1
<1> DEFINE f == Len(took) + 1
<1>1. /\ rbuf \in Seq(Byte) /\ wrote \in Seq(LineKinds) /\ f \in 1..(Len(wrote) + 1)
      /\ Stream \in Seq(Byte) /\ Begins(rbuf, Stream) /\ Whole \in BOOLEAN
  BY StreamShape DEF StreamInv, TypeOK
<1>2. Laid(Stream, f, wrote, Whole)
  BY DEF StreamInv
<1> HIDE DEF f
<1>3. Laid(rbuf, f, wrote, FALSE)
  BY <1>1, <1>2, LaidPrefix
<1>4. /\ f \in 1..Len(wrote) /\ LineEnd(rbuf) = Size[wrote[f]] /\ LineEnd(rbuf) \in 1..Len(rbuf)
      /\ FirstLine(rbuf) = LineBytes(f, Size[wrote[f]])
  BY <1>1, <1>3, LaidFirst
<1> DEFINE size == Size[wrote[f]]
<1>5. f \in Nat /\ size \in Nat \ {0} /\ FirstLine(rbuf) = LineBytes(f, size)
  BY <1>4, <1>1, CtlAssumption
<1> HIDE DEF size
<1>6. FirstLine(rbuf) \in Seq(Byte)
  BY <1>5, LineIsBytes
<1>7. FirstLine(rbuf)[1].of = f
  <2>1. 1 \in 1..size
    BY <1>5
  <2>2. LineBytes(f, size)[1] = [of |-> f, nl |-> 1 = size]
    BY <1>5, <2>1, LineIsBytes
  <2> QED BY <1>5, <2>2
<1> QED BY <1>4, <1>6, <1>7 DEF f

LEMMA StreamTakeLine ==
    ASSUME TypeOK, StreamInv, LinesAreExact, pc # "exit", TakeLine
    PROVE  StreamInv' /\ LinesAreExact'
<1> DEFINE f == Len(took) + 1
           size == Size[wrote[f]]
           line == FirstLine(rbuf)
<1>1. /\ f \in 1..Len(wrote) /\ LineEnd(rbuf) = size /\ LineEnd(rbuf) \in 1..Len(rbuf)
      /\ line = LineBytes(f, size) /\ line \in Seq(Byte)
  BY NextIsNext DEF TakeLine
<1>2. /\ took' = Append(took, line) /\ rbuf' = SubSeq(rbuf, size + 1, Len(rbuf))
      /\ sock' = sock /\ pending' = pending /\ wrote' = wrote /\ link' = link
  BY <1>1 DEF TakeLine, AfterLine, daemonVars, decided
<1>3. pc' = "exit" \/ cause' = cause
  BY DEF TakeLine, Taken, Exit, Go
<1>4. rbuf \in Seq(Byte) /\ sock \in Seq(Byte) /\ pending \in Seq(Byte) /\ wrote \in Seq(LineKinds)
      /\ took \in Seq(Seq(Byte)) /\ Len(took) <= Len(wrote)
  BY DEF StreamInv, TypeOK
<1>5. Laid(Stream, f, wrote, Whole)
  BY DEF StreamInv
<1> HIDE DEF size, line
<1>6. /\ took' \in Seq(Seq(Byte)) /\ Len(took') = f /\ took'[f] = line
      /\ \A n \in 1..Len(took) : took'[n] = took[n]
  BY <1>1, <1>2, <1>4, AppendProperties
<1>7. rbuf' \in Seq(Byte)
  <2>1. size \in 0..Len(rbuf)
    BY <1>1
  <2> QED BY <1>2, <1>4, <2>1, Cut
<1>8. sock \o pending \in Seq(Byte) /\ Stream \in Seq(Byte)
      /\ Whole \in BOOLEAN
  BY StreamShape
<1>9. ASSUME pc' # "exit"
      PROVE  Laid(Stream', Len(took') + 1, wrote', Whole')
  <2>1. Rest(Stream', Stream, size)
    <3>1. size \in 1..Len(rbuf)
      BY <1>1
    <3>2. /\ Rest(SubSeq(rbuf, size + 1, Len(rbuf)), rbuf, size)
          /\ Rest(SubSeq(rbuf, size + 1, Len(rbuf)) \o (sock \o pending), rbuf \o (sock \o pending), size)
      BY <1>4, <1>8, <3>1, Dropped
    <3> QED BY <1>2, <1>3, <1>9, <3>2 DEF Stream
  <2>2. Stream' \in Seq(Byte)
    <3>1. rbuf' \o (sock \o pending) \in Seq(Byte)
      BY <1>7, <1>8, ConcatProperties
    <3> QED BY <1>2, <1>7, <3>1 DEF Stream
  <2>3. Laid(Stream', f + 1, wrote, Whole)
    <3>2. Rest(Stream', Stream, Size[wrote[f]])
      BY <2>1 DEF size
    <3> HIDE DEF f
    <3>3. Laid(Stream', f + 1, wrote, Whole)
      BY <1>1, <1>4, <1>5, <1>8, <2>2, <3>2, LaidRest
    <3> QED BY <3>3
  <2>4. Whole' = Whole
    BY <1>2, <1>3, <1>9 DEF Whole
  <2> QED BY <1>2, <1>6, <2>3, <2>4
<1>10. Len(took') <= Len(wrote')
  <2>1. Len(wrote) \in Nat
    BY <1>4
  <2> QED BY <1>1, <1>2, <1>6, <2>1
<1>11. \A n \in DOMAIN took' : took'[n] = LineBytes(n, Size[wrote'[n]])
  <2> TAKE n \in DOMAIN took'
  <2>1. n \in 1..f /\ Len(took) \in Nat
    BY <1>4, <1>6
  <2>2. CASE n = f
    BY <1>1, <1>2, <1>6, <2>2 DEF size
  <2>3. CASE n # f
    <3>1. n \in 1..Len(took) /\ n \in DOMAIN took
      BY <1>4, <2>1, <2>3
    <3> QED BY <1>2, <1>6, <3>1 DEF LinesAreExact
  <2> QED BY <2>2, <2>3
<1> QED BY <1>2, <1>4, <1>6, <1>7, <1>9, <1>10, <1>11 DEF StreamInv, LinesAreExact

(* A step that moves no byte and takes or writes no line.                  *)
LEMMA StreamUntouched ==
    ASSUME StreamInv, LinesAreExact, UNCHANGED <<rbuf, sock, pending, took, wrote>>,
           pc' # "exit" => /\ pc # "exit" /\ cause' = cause
                           /\ link' = link \/ (link = "none" /\ link' = "queued")
    PROVE  StreamInv' /\ LinesAreExact'
<1>1. LinesAreExact'
  BY DEF LinesAreExact
<1>2. ASSUME pc' # "exit"
      PROVE  Laid(Stream', Len(took') + 1, wrote', Whole')
  <2>1. Stream' = Stream /\ wrote' = wrote /\ took' = took
    BY <1>2 DEF Stream
  <2>2. Whole' <=> Whole
    BY <1>2 DEF Whole
  <2>3. Whole' = Whole
    BY <2>2 DEF Whole
  <2>4. Laid(Stream, Len(took) + 1, wrote, Whole)
    BY <1>2 DEF StreamInv
  <2> QED BY <2>1, <2>3, <2>4
<1> QED BY <1>1, <1>2 DEF StreamInv

LEMMA StreamWrite ==
    ASSUME TypeOK, StreamInv, LinesAreExact, NEW kind \in LineKinds, Write(kind),
           UNCHANGED <<clientVars, sock>>, link' = "open",
           link = "open" \/ Len(wrote) = 0
    PROVE  StreamInv' /\ LinesAreExact'
<1> DEFINE n == Len(wrote) + 1
           f == Len(took) + 1
           line == LineBytes(n, Size[kind])
<1>1. rbuf \in Seq(Byte) /\ sock \in Seq(Byte) /\ pending \in Seq(Byte) /\ wrote \in Seq(LineKinds)
      /\ took \in Seq(Seq(Byte)) /\ Len(took) <= Len(wrote)
  BY DEF StreamInv, TypeOK
<1>2. line \in Seq(Byte)
  <2>1. n \in Nat /\ Size[kind] \in Nat
    BY <1>1, CtlAssumption
  <2> QED BY <2>1, LineIsBytes
<1>3. /\ wrote' = Append(wrote, kind) /\ pending' = pending \o line
      /\ rbuf' = rbuf /\ sock' = sock /\ took' = took /\ pc' = pc /\ cause' = cause
  BY DEF Write, clientVars
<1>4. /\ sock \o pending \in Seq(Byte) /\ rbuf \o (sock \o pending) \in Seq(Byte)
      /\ Stream \in Seq(Byte) /\ f \in 1..(Len(wrote) + 1)
  BY StreamShape
<1> HIDE DEF line, f
<1>5. Len(wrote') = Len(wrote) + 1 /\ \A m \in 1..Len(wrote) : wrote'[m] = wrote[m]
  BY <1>1, <1>3
<1>6. pending' \in Seq(Byte)
  BY <1>1, <1>2, <1>3, ConcatProperties
<1>7. ASSUME pc' # "exit"
      PROVE  Laid(Stream', Len(took') + 1, wrote', Whole')
  <2>1. Laid(Stream, f, wrote, Whole)
    BY <1>3, <1>7 DEF StreamInv, f
  <2>2. CASE cause = "too long"
    <3>1. Stream' = Stream
      BY <1>3, <2>2 DEF Stream
    <3>2. Whole = FALSE /\ Whole' = FALSE
      BY <1>3, <2>2 DEF Whole
    <3>3. Laid(Stream, f, Append(wrote, kind), FALSE)
      BY <1>1, <1>4, <2>1, <3>2, LaidLater
    <3> QED BY <1>3, <3>1, <3>2, <3>3 DEF f
  <2>3. CASE cause # "too long"
    <3>1. Laid(Stream, f, wrote, TRUE)
      <4>1. CASE link = "open"
        <5>1. Whole = TRUE
          BY <2>3, <4>1 DEF Whole
        <5> QED BY <2>1, <5>1
      <4>2. CASE link # "open"
        <5>1. f = Len(wrote) + 1 /\ Whole \in BOOLEAN
          BY <1>1, <1>4, <4>2 DEF Whole, f
        <5> QED BY <1>1, <1>4, <2>1, <5>1, LaidShort
      <4> QED BY <4>1, <4>2
    <3>2. Stream' = Stream \o line
      <4>1. sock \o (pending \o line) = (sock \o pending) \o line
        <5>1. sock \in Seq(Byte) /\ pending \in Seq(Byte) /\ line \in Seq(Byte)
          BY <1>1, <1>2
        <5> QED BY <5>1, Grouped
      <4>2. ASSUME NEW rest \in Seq(Byte)
            PROVE  rbuf \o (rest \o line) = (rbuf \o rest) \o line
        <5>1. rbuf \in Seq(Byte) /\ line \in Seq(Byte)
          BY <1>1, <1>2
        <5> QED BY <5>1, Grouped
      <4>3. Stream' = rbuf \o (sock \o (pending \o line)) /\ Stream = rbuf \o (sock \o pending)
        BY <1>3, <2>3 DEF Stream
      <4> QED BY <1>4, <4>1, <4>2, <4>3
    <3>3. Laid(Stream \o line, f, Append(wrote, kind), TRUE)
      BY <1>1, <1>4, <3>1, LaidAppend DEF line
    <3>4. Whole' = TRUE
      BY <1>3, <2>3 DEF Whole
    <3> QED BY <1>3, <3>2, <3>3, <3>4 DEF f
  <2> QED BY <2>2, <2>3
<1>8. LinesAreExact'
  <2>1. Len(took') <= Len(wrote')
    <3>1. Len(took) \in Nat /\ Len(wrote) \in Nat
      BY <1>1
    <3> QED BY <1>1, <1>3, <1>5, <3>1
  <2>2. \A m \in DOMAIN took' : took'[m] = LineBytes(m, Size[wrote'[m]])
    <3> TAKE m \in DOMAIN took'
    <3>1. m \in DOMAIN took /\ m \in 1..Len(wrote)
      BY <1>1, <1>3
    <3> QED BY <1>3, <1>5, <3>1 DEF LinesAreExact
  <2> QED BY <2>1, <2>2 DEF LinesAreExact
<1> QED BY <1>1, <1>3, <1>6, <1>7, <1>8 DEF StreamInv, LinesAreExact

(* fill: a read moves the bytes, or drops all that follow the buffer.      *)
LEMMA StreamFillRead ==
    ASSUME TypeOK, StreamInv, LinesAreExact, ReaderInv, FillRead
    PROVE  StreamInv' /\ LinesAreExact'
<1>1. PICK k \in 1..ReadMax : k <= Len(sock) /\ ReadInto(k) /\ sock' = SubSeq(sock, k + 1, Len(sock))
  BY DEF FillRead
<1>2. rbuf \in Seq(Byte) /\ sock \in Seq(Byte) /\ pending \in Seq(Byte) /\ wrote \in Seq(LineKinds)
  BY DEF StreamInv, TypeOK
<1>3. /\ pending' = pending /\ took' = took /\ wrote' = wrote /\ pc' = pc /\ link' = link
      /\ pc # "exit" /\ cause # "too long"
  BY DEF FillRead, daemonVars, Reading, ReaderInv, decided
<1>4. k \in 0..Len(sock)
  BY <1>1, <1>2, LineAssumption
<1>5. SubSeq(sock, 1, k) \in Seq(Byte) /\ sock' \in Seq(Byte)
  BY <1>1, <1>2, <1>4, Cut
<1>6. LinesAreExact'
  BY <1>3 DEF LinesAreExact
<1>7. Laid(Stream, Len(took) + 1, wrote, Whole)
  BY <1>3 DEF StreamInv
<1>8. /\ Stream \in Seq(Byte) /\ Begins(rbuf, Stream) /\ Whole \in BOOLEAN
      /\ Len(took) + 1 \in 1..(Len(wrote) + 1)
  BY StreamShape
<1>9. CASE TooLong(rbuf)
  <2>1. cause' = "too long" /\ rbuf' = rbuf /\ Stream' = rbuf
    BY <1>1, <1>9 DEF ReadInto, Stream
  <2>2. Laid(rbuf, Len(took) + 1, wrote, FALSE)
    BY <1>2, <1>7, <1>8, LaidPrefix
  <2>3. Whole' = FALSE
    BY <2>1 DEF Whole
  <2>4. Laid(Stream', Len(took') + 1, wrote', Whole')
    BY <1>3, <2>1, <2>2, <2>3
  <2> QED BY <1>2, <1>3, <1>5, <1>6, <2>1, <2>4 DEF StreamInv
<1>10. CASE ~TooLong(rbuf)
  <2>1. cause' = cause /\ rbuf' = rbuf \o SubSeq(sock, 1, k)
    BY <1>1, <1>10 DEF ReadInto
  <2>2. rbuf' \in Seq(Byte)
    BY <1>2, <1>5, <2>1, ConcatProperties
  <2>3. Stream' = rbuf' \o (sock' \o pending) /\ Stream = rbuf \o (sock \o pending)
    BY <1>3, <2>1 DEF Stream
  <2>4. Stream' = Stream
    <3> DEFINE read == SubSeq(sock, 1, k)
    <3>1. read \in Seq(Byte) /\ sock' \in Seq(Byte) /\ read \o sock' = sock /\ rbuf' = rbuf \o read
      BY <1>1, <1>2, <1>4, <2>1, Cut
    <3> HIDE DEF read
    <3>2. rbuf \in Seq(Byte) /\ pending \in Seq(Byte)
      BY <1>2
    <3>3. ASSUME NEW rest \in Seq(Byte)
          PROVE  (rbuf \o read) \o rest = rbuf \o (read \o rest)
      <4>1. rbuf \in Seq(Byte) /\ read \in Seq(Byte)
        BY <3>1, <3>2
      <4> QED BY <4>1, Grouped
    <3>4. sock' \o pending \in Seq(Byte)
      BY <3>1, <3>2, ConcatProperties
    <3>5. read \o (sock' \o pending) = (read \o sock') \o pending
      <4>1. read \in Seq(Byte) /\ sock' \in Seq(Byte) /\ pending \in Seq(Byte)
        BY <3>1, <3>2
      <4> QED BY <4>1, Grouped
    <3> QED BY <2>3, <3>1, <3>3, <3>4, <3>5
  <2>5. Laid(Stream', Len(took') + 1, wrote', Whole')
    BY <1>3, <1>7, <2>1, <2>4 DEF Whole
  <2> QED BY <1>2, <1>3, <1>5, <1>6, <2>2, <2>5 DEF StreamInv
<1> QED BY <1>9, <1>10

LEMMA StreamFlush ==
    ASSUME TypeOK, StreamInv, LinesAreExact, Flush
    PROVE  StreamInv' /\ LinesAreExact' /\ Len(sock') <= SockBuf
<1> DEFINE room == SockBuf - Len(sock)
           k == IF Len(pending) < room THEN Len(pending) ELSE room
<1>1. rbuf \in Seq(Byte) /\ sock \in Seq(Byte) /\ pending \in Seq(Byte) /\ wrote \in Seq(LineKinds)
      /\ Len(sock) <= SockBuf
  BY DEF StreamInv, TypeOK
<1>2. /\ k > 0 /\ sock' = sock \o SubSeq(pending, 1, k)
      /\ pending' = SubSeq(pending, k + 1, Len(pending))
      /\ UNCHANGED <<rbuf, took, wrote, pc, cause, link>>
  BY DEF Flush, clientVars
<1>3. k \in 0..Len(pending) /\ k <= SockBuf - Len(sock)
  <2>1. Len(pending) \in Nat /\ Len(sock) \in Nat /\ SockBuf \in Nat
    BY <1>1, CtlAssumption
  <2> QED BY <1>2, <2>1
<1> HIDE DEF k
<1>4. /\ SubSeq(pending, 1, k) \in Seq(Byte) /\ Len(SubSeq(pending, 1, k)) = k
      /\ pending' \in Seq(Byte) /\ SubSeq(pending, 1, k) \o pending' = pending
  BY <1>1, <1>2, <1>3, Cut
<1>5. sock' \in Seq(Byte) /\ Len(sock') = Len(sock) + k
  BY <1>1, <1>2, <1>4, ConcatProperties
<1>6. Len(sock') <= SockBuf
  <2>1. Len(sock) \in Nat /\ SockBuf \in Nat /\ k \in Int
    BY <1>1, <1>3, CtlAssumption
  <2> QED BY <1>3, <1>5, <2>1
<1>7. sock' \o pending' = sock \o pending
  <2> DEFINE head == SubSeq(pending, 1, k)
  <2>1. head \in Seq(Byte) /\ sock' = sock \o head /\ head \o pending' = pending
    BY <1>2, <1>4
  <2> HIDE DEF head
  <2>2. (sock \o head) \o pending' = sock \o (head \o pending')
    <3>1. sock \in Seq(Byte) /\ pending' \in Seq(Byte) /\ head \in Seq(Byte)
      BY <1>1, <1>4, <2>1
    <3> QED BY <3>1, Grouped
  <2> QED BY <2>1, <2>2
<1>8. Stream' = Stream
  BY <1>2, <1>7 DEF Stream
<1>9. ASSUME pc' # "exit"
      PROVE  Laid(Stream', Len(took') + 1, wrote', Whole')
  BY <1>2, <1>8, <1>9 DEF StreamInv, Whole
<1>10. LinesAreExact'
  BY <1>2 DEF LinesAreExact
<1> QED BY <1>1, <1>2, <1>4, <1>5, <1>6, <1>9, <1>10 DEF StreamInv

(* What had not been written is gone: the stream is cut, not changed.      *)
LEMMA StreamClose ==
    ASSUME TypeOK, StreamInv, LinesAreExact, Close
    PROVE  StreamInv' /\ LinesAreExact'
<1>1. rbuf \in Seq(Byte) /\ sock \in Seq(Byte) /\ pending \in Seq(Byte) /\ wrote \in Seq(LineKinds)
  BY DEF StreamInv, TypeOK
<1>2. link' = "closed" /\ pending' = <<>> /\ UNCHANGED <<rbuf, sock, took, wrote, pc, cause>>
  BY DEF Close, clientVars
<1>3. /\ rbuf \o (sock \o pending) \in Seq(Byte) /\ Stream \in Seq(Byte) /\ sock \o pending \in Seq(Byte)
      /\ Len(took) + 1 \in 1..(Len(wrote) + 1) /\ Whole \in BOOLEAN
  BY StreamShape
<1>4. pending' \in Seq(Byte) /\ sock \o pending' = sock
  BY <1>1, <1>2, ConcatEmptySeq
<1>5. ASSUME pc' # "exit"
      PROVE  Laid(Stream', Len(took') + 1, wrote', Whole')
  <2>1. Stream' \in Seq(Byte) /\ Begins(Stream', Stream)
    <3>1. CASE cause = "too long"
      <4>1. Stream' = Stream
        BY <1>2, <3>1 DEF Stream
      <4>2. Stream \in Seq(Byte) /\ Len(Stream) \in Nat
        BY <1>3, LenProperties
      <4> QED BY <4>1, <4>2 DEF Begins
    <3>2. CASE cause # "too long"
      <4> DEFINE rest == sock \o pending
      <4>1. Stream' = rbuf \o sock /\ Stream = rbuf \o rest
        BY <1>2, <1>4, <3>2 DEF Stream
      <4>2. /\ rest \in Seq(Byte) /\ Len(rest) = Len(sock) + Len(pending)
            /\ \A i \in 1..(Len(sock) + Len(pending)) :
                  rest[i] = IF i <= Len(sock) THEN sock[i] ELSE pending[i - Len(sock)]
        BY <1>1, ConcatProperties
      <4> HIDE DEF rest
      <4>3. /\ Len(rbuf \o rest) = Len(rbuf) + Len(rest)
            /\ \A i \in 1..(Len(rbuf) + Len(rest)) :
                  (rbuf \o rest)[i] = IF i <= Len(rbuf) THEN rbuf[i] ELSE rest[i - Len(rbuf)]
        <5>1. rbuf \in Seq(Byte) /\ rest \in Seq(Byte)
          BY <1>1, <4>2
        <5> QED BY <5>1, ConcatProperties
      <4>4. /\ rbuf \o sock \in Seq(Byte) /\ Len(rbuf \o sock) = Len(rbuf) + Len(sock)
            /\ \A i \in 1..(Len(rbuf) + Len(sock)) :
                  (rbuf \o sock)[i] = IF i <= Len(rbuf) THEN rbuf[i] ELSE sock[i - Len(rbuf)]
        BY <1>1, ConcatProperties
      <4>5. Len(rbuf) \in Nat /\ Len(sock) \in Nat /\ Len(pending) \in Nat
        BY <1>1
      <4>6. ASSUME NEW i \in 1..(Len(rbuf) + Len(sock))
            PROVE  (rbuf \o sock)[i] = (rbuf \o rest)[i]
        <5>1. i \in 1..(Len(rbuf) + Len(rest))
          BY <4>2, <4>5
        <5>2. CASE i <= Len(rbuf)
          BY <4>3, <4>4, <5>1, <5>2
        <5>3. CASE ~(i <= Len(rbuf))
          <6>1. i - Len(rbuf) \in 1..(Len(sock) + Len(pending)) /\ i - Len(rbuf) <= Len(sock)
            BY <4>5, <5>3
          <6> QED BY <4>2, <4>3, <4>4, <5>1, <5>3, <6>1
        <5> QED BY <5>2, <5>3
      <4>7. Len(rbuf \o sock) <= Len(rbuf \o rest)
        BY <4>2, <4>3, <4>4, <4>5
      <4> QED BY <4>1, <4>4, <4>6, <4>7 DEF Begins
    <3> QED BY <3>1, <3>2
  <2>2. Laid(Stream, Len(took) + 1, wrote, Whole)
    BY <1>2, <1>5 DEF StreamInv
  <2>3. Laid(Stream', Len(took) + 1, wrote, FALSE)
    BY <1>1, <1>3, <2>1, <2>2, LaidPrefix
  <2>4. Whole' = FALSE
    BY <1>2 DEF Whole
  <2> QED BY <1>2, <2>3, <2>4
<1>6. LinesAreExact'
  BY <1>2 DEF LinesAreExact
<1> QED BY <1>1, <1>2, <1>4, <1>5, <1>6 DEF StreamInv

(* The greeting is read past, the answer ends a command, and what watch    *)
(* reads does not.                                                         *)
LEMMA TakenWhat ==
    ASSUME TypeOK, StreamInv, ConversationInv, pc \in {"hello", "answer", "watch"}, TakeLine
    PROVE  \/ pc = "hello" /\ Go("request")
           \/ pc = "watch" /\ Go("watch")
           \/ /\ pc = "answer" /\ asked = "answered" /\ pc' = "exit" /\ cause' = "none"
              /\ exit' = IF verdict = "refusal" THEN "refused" ELSE "ok"
<1>1. Taken(FirstLine(rbuf)) /\ FirstLine(rbuf)[1].of = Len(took) + 1 /\ Len(took) + 1 \in 1..Len(wrote)
  BY NextIsNext DEF TakeLine
<1>2. CASE pc = "answer"
  <2>1. Len(took) + 1 = 2 /\ Len(wrote) \in Nat /\ Len(wrote) >= 2
    <3>1. Len(took) = 1 /\ wrote \in Seq(LineKinds)
      BY <1>2 DEF ConversationInv, TypeOK
    <3>2. Len(wrote) \in Nat
      BY <3>1, LenProperties
    <3> QED BY <1>1, <3>1, <3>2
  <2>2. asked = "answered" /\ wrote[2] = verdict /\ verdict # "alert"
    BY <2>1 DEF ConversationInv, TypeOK
  <2>3. \/ verdict = "refusal" /\ Exit("refused", "none")
        \/ verdict \notin {"refusal", "alert"} /\ Exit("ok", "none")
    BY <1>1, <1>2, <2>1, <2>2 DEF Taken
  <2> QED BY <1>2, <2>2, <2>3 DEF Exit
<1>3. CASE pc # "answer"
  BY <1>1, <1>3 DEF Taken
<1> QED BY <1>2, <1>3

LEMMA TakesLine ==
    ASSUME CtlInv, pc \in {"hello", "answer", "watch"}, TakeLine
    PROVE  CtlInv'
<1>1. StreamInv' /\ LinesAreExact'
  BY StreamTakeLine DEF CtlInv
<1>2. \/ pc = "hello" /\ Go("request")
      \/ pc = "watch" /\ Go("watch")
      \/ /\ pc = "answer" /\ asked = "answered" /\ pc' = "exit" /\ cause' = "none"
         /\ exit' = IF verdict = "refusal" THEN "refused" ELSE "ok"
  BY TakenWhat DEF CtlInv
<1>3. /\ reading' = "line" /\ UNCHANGED <<eof, got, daemonVars, fixed, sock>>
      /\ took' = Append(took, FirstLine(rbuf))
  BY DEF TakeLine
<1>4. TypeOK'
  <2>1. Len(rbuf') <= LineMax + ReadMax
    <3>1. rbuf \in Seq(Byte) /\ Len(rbuf) <= LineMax + ReadMax /\ LineEnd(rbuf) \in 1..Len(rbuf)
      BY NextIsNext DEF CtlInv, TypeOK, StreamInv, TakeLine
    <3>2. Len(rbuf) \in Nat /\ LineEnd(rbuf) \in 0..Len(rbuf)
      BY <3>1
    <3>3. Len(rbuf') = Len(rbuf) - LineEnd(rbuf)
      BY <3>1, <3>2, Cut DEF TakeLine, AfterLine
    <3> QED BY <3>1, <3>2, <3>3, LineAssumption
  <2>2. /\ pc' \in {"start", "hello", "request", "answer", "watch", "exit"} /\ cause' \in Causes
        /\ exit' \in {"none", "ok", "refused", "failed"}
    BY <1>2 DEF CtlInv, TypeOK, Go, Causes
  <2> QED BY <1>3, <2>1, <2>2 DEF CtlInv, TypeOK, daemonVars, fixed, decided
<1>5. ConversationInv'
  <2>1. Len(took') = Len(took) + 1
    <3>1. took \in Seq(Seq(Byte)) /\ FirstLine(rbuf) \in Seq(Byte)
      BY NextIsNext DEF CtlInv, StreamInv, TakeLine
    <3> QED BY <1>3, <3>1, AppendProperties
  <2>2. LongOwn' = LongOwn /\ Executed' = Executed
    BY <1>3 DEF LongOwn, Executed, fixed, daemonVars, decided
  <2> QED BY <1>2, <1>3, <2>1, <2>2 DEF CtlInv, ConversationInv, Go, daemonVars, fixed, decided
<1>6. ReaderInv'
  <2>1. LongOwn' = LongOwn
    BY <1>3 DEF LongOwn, daemonVars, decided
  <2> QED BY <1>2, <1>3, <2>1 DEF CtlInv, ReaderInv, ConversationInv, Go, daemonVars, fixed, decided
<1> QED BY <1>1, <1>4, <1>5, <1>6 DEF CtlInv

LEMMA GivesUp ==
    ASSUME CtlInv, pc \in {"hello", "answer", "watch"}, NEW why \in Causes, GiveUp(why),
           why = "closed" => link = "closed", why \notin {"none", "unreachable"},
           why = "too long" => cause = "too long"
    PROVE  CtlInv'
<1>1. /\ pc' = "exit" /\ cause' = why /\ exit' = IF pc = "watch" THEN "ok" ELSE "failed"
      /\ UNCHANGED <<reading, rbuf, eof, got, took, daemonVars, fixed, sock>>
  BY DEF GiveUp, Exit
<1>2. StreamInv' /\ LinesAreExact'
  BY <1>1, StreamUntouched DEF CtlInv, daemonVars, decided
<1>3. TypeOK'
  <2>1. TypeOK
    BY DEF CtlInv
  <2>2. /\ verdict' \in {"none", "done", "refusal", "listing"} /\ executed' \in Nat
        /\ firewall' \in {"same", "told"} /\ cmd' \in Commands
        /\ daemon' \in BOOLEAN /\ link' \in {"none", "queued", "open", "closed"}
        /\ asked' \in {"none", "sent", "working", "answered"} /\ wrote' \in Seq(LineKinds)
    BY <1>1, <2>1 DEF TypeOK, daemonVars, decided, fixed
  <2>3. privileged' \in BOOLEAN /\ subscribed' \in BOOLEAN
    BY <1>1, <2>1, Zenon DEF TypeOK, daemonVars, fixed
  <2>4. Len(rbuf') <= LineMax + ReadMax /\ Len(sock') <= SockBuf
    BY <1>1, <2>1 DEF TypeOK
  <2>5. /\ pc' \in {"start", "hello", "request", "answer", "watch", "exit"}
        /\ reading' \in {"line", "poll", "fill", "last"} /\ eof' \in BOOLEAN /\ got' \in BOOLEAN
        /\ exit' \in {"none", "ok", "refused", "failed"} /\ cause' \in Causes
    BY <1>1, <2>1 DEF TypeOK
  <2> QED BY <2>2, <2>3, <2>4, <2>5, Zenon DEF TypeOK
<1>4. LongOwn' = LongOwn /\ Executed' = Executed
  BY <1>1 DEF LongOwn, Executed, daemonVars, fixed, decided
<1>5. ConversationInv'
  BY <1>1, <1>4 DEF CtlInv, ConversationInv, daemonVars, fixed, decided
<1>6. ReaderInv'
  BY <1>1, <1>4 DEF CtlInv, ReaderInv, ConversationInv, daemonVars, fixed, decided
<1> QED BY <1>2, <1>3, <1>5, <1>6 DEF CtlInv

LEMMA Just1 ==
    ASSUME NEW n \in Nat, n >= 1, n <= 1
    PROVE  n = 1
OBVIOUS

LEMMA Next1 ==
    ASSUME NEW m \in Nat, NEW n \in Nat, m < n, m = 0, n <= 1
    PROVE  m + 1 = n
OBVIOUS

(* Too much is read only when the one line to be read is too long.         *)
LEMMA ReadsTooMuch ==
    ASSUME CtlInv, pc \in {"hello", "answer"}, TooLong(rbuf)
    PROVE  LongOwn
<1>1. /\ rbuf \in Seq(Byte) /\ wrote \in Seq(LineKinds) /\ Len(took) + 1 \in 1..(Len(wrote) + 1)
      /\ Stream \in Seq(Byte) /\ Len(rbuf) <= Len(Stream) /\ Whole \in BOOLEAN
  BY StreamShape DEF CtlInv, StreamInv, TypeOK, Begins
<1>2. Len(rbuf) > LineMax /\ Len(rbuf) \in Nat /\ Len(Stream) \in Nat /\ LineMax \in Nat
  BY <1>1, LineAssumption, LenProperties DEF TooLong
<1>3. Laid(Stream, Len(took) + 1, wrote, Whole)
  BY DEF CtlInv, StreamInv
<1>4. Len(took) + 1 # Len(wrote) + 1
  <2>1. Len(took) + 1 = Len(wrote) + 1 => Len(Stream) = 0
    BY <1>1, <1>3, LaidShort
  <2> QED BY <1>1, <1>2, <2>1
<1>5. Len(took) + 1 = Len(wrote)
  <2>1. Len(took) \in Nat /\ Len(wrote) \in Nat /\ Len(took) < Len(wrote)
    <3>1. took \in Seq(Seq(Byte)) /\ wrote \in Seq(LineKinds) /\ Len(took) <= Len(wrote)
      BY <1>1 DEF CtlInv, StreamInv
    <3>2. Len(took) \in Nat /\ Len(wrote) \in Nat
      BY <3>1
    <3> QED BY <1>4, <3>1, <3>2
  <2>2. CASE pc = "hello"
    <3>1. Len(took) = 0 /\ Len(wrote) <= 1
      BY <2>2 DEF CtlInv, ConversationInv
    <3> QED BY <2>1, <3>1, Next1
  <2>3. CASE pc = "answer"
    <3>1. Len(took) = 1 /\ cmd # "watch"
      BY <2>3 DEF CtlInv, ConversationInv
    <3>2. asked = "answered"
      BY <2>1, <3>1 DEF CtlInv, ConversationInv
    <3>3. Len(wrote) = 2
      BY <3>1, <3>2 DEF CtlInv, ConversationInv
    <3> QED BY <3>1, <3>3
  <2> QED BY <2>2, <2>3
<1>6. Len(Stream) <= Size[wrote[Len(took) + 1]]
  BY <1>1, <1>3, <1>5, LaidShort
<1>7. Len(took) + 1 \in 1..Len(wrote)
  BY <1>1, <1>5
<1>8. Size[wrote[Len(took) + 1]] > LineMax
  <2>1. wrote[Len(took) + 1] \in LineKinds
    BY <1>1, <1>7, ElementOfSeq
  <2>2. Size[wrote[Len(took) + 1]] \in Nat
    BY <2>1, CtlAssumption
  <2> QED BY <1>1, <1>2, <1>6, <2>2
<1>9. wrote[Len(took) + 1] \in {"hello", verdict}
  <2>1. Len(took) \in {0, 1} /\ Len(wrote) = Len(took) + 1
    BY <1>5 DEF CtlInv, ConversationInv
  <2>2. CASE Len(took) = 0
    BY <2>1, <2>2 DEF CtlInv, ConversationInv
  <2>3. CASE Len(took) = 1
    BY <2>1, <2>3 DEF CtlInv, ConversationInv
  <2> QED BY <2>1, <2>2, <2>3
<1>10. wrote[Len(took) + 1] \in LineKinds
  BY <1>1, <1>7, ElementOfSeq
<1> QED BY <1>8, <1>9, <1>10 DEF LongOwn

LEMMA CtlInit == Init => CtlInv
<1> SUFFICES ASSUME Init PROVE CtlInv
  OBVIOUS
<1>1. /\ <<>> \in Seq(Byte) /\ <<>> \in Seq(LineKinds) /\ <<>> \in Seq(Seq(Byte)) /\ Len(<<>>) = 0
  OBVIOUS
<1>2. TypeOK
  <2>1. 0 <= LineMax + ReadMax /\ 0 <= SockBuf
    BY CtlAssumption, LineAssumption
  <2>2. Len(rbuf) <= LineMax + ReadMax /\ Len(sock) <= SockBuf /\ wrote \in Seq(LineKinds)
    BY <1>1, <2>1 DEF Init
  <2>3. eof \in BOOLEAN /\ got \in BOOLEAN /\ subscribed \in BOOLEAN
    BY DEF Init
  <2>4. executed \in Nat /\ firewall = "same"
    BY DEF Init
  <2> QED BY <2>2, <2>3, <2>4 DEF Init, TypeOK, Causes
<1>3. ConversationInv /\ ReaderInv
  BY <1>1 DEF Init, ConversationInv, ReaderInv, Executed
<1>4. LinesAreExact
  BY <1>1 DEF Init, LinesAreExact
<1>5. Laid(<<>>, 1, <<>>, FALSE)
  <2> DEFINE at == [m \in 1..1 |-> 1]
  <2>1. at \in [1..(Len(<<>>) + 1) -> Int] /\ at[1] = 1
    BY <1>1
  <2>2. \A n \in 1..Len(<<>>) : FALSE
    BY <1>1
  <2>3. Len(<<>>) < at[Len(<<>>) + 1]
    BY <1>1, <2>1
  <2> HIDE DEF at
  <2>4. Places(at, <<>>, 1, <<>>)
    BY <2>1, <2>2, <2>3 DEF Places
  <2>5. FALSE \in BOOLEAN
    OBVIOUS
  <2> QED BY <2>4, <2>5, LaidPlaces
<1>6. Stream = <<>> /\ Len(took) + 1 = 1 /\ wrote = <<>>
  BY <1>1, ConcatEmptySeq DEF Init, Stream
<1>7. StreamInv
  <2>1. Whole = FALSE
    BY DEF Init, Whole
  <2>2. Laid(Stream, Len(took) + 1, wrote, Whole)
    BY <1>5, <1>6, <2>1
  <2>3. /\ rbuf = <<>> /\ sock = <<>> /\ pending = <<>> /\ took = <<>> /\ wrote = <<>>
    BY DEF Init
  <2>4. Len(took) <= Len(wrote)
    BY <1>1, <2>3
  <2> QED BY <1>1, <2>2, <2>3, <2>4 DEF StreamInv
<1> QED BY <1>2, <1>3, <1>4, <1>7 DEF CtlInv

LEMMA ConnectStep == CtlInv /\ Connect => CtlInv'
<1> SUFFICES ASSUME CtlInv, Connect PROVE CtlInv'
  OBVIOUS
<1>1. /\ pc = "start" /\ UNCHANGED <<reading, rbuf, eof, got, took, daemon, asked, pending,
                                     subscribed, wrote, decided, fixed, sock>>
      /\ \/ link' = "queued" /\ Go("hello")
         \/ ~daemon /\ UNCHANGED link /\ Exit("failed", "unreachable")
  BY DEF Connect
<1>2. StreamInv' /\ LinesAreExact'
  <2>1. link = "none" /\ (pc' # "exit" => cause' = cause /\ link' = "queued")
    BY <1>1 DEF Go, Exit, CtlInv, ConversationInv
  <2> QED BY <1>1, <2>1, StreamUntouched DEF CtlInv
<1>3. TypeOK'
  <2>1. /\ pc' \in {"hello", "exit"} /\ link' \in {"none", "queued", "open", "closed"}
        /\ exit' \in {"none", "ok", "refused", "failed"} /\ cause' \in Causes
    BY <1>1 DEF CtlInv, TypeOK, Go, Exit, Causes
  <2> QED BY <1>1, <2>1 DEF CtlInv, TypeOK, fixed, decided
<1>4. LongOwn' = LongOwn /\ Executed' = Executed
  BY <1>1 DEF LongOwn, Executed, fixed, decided
<1>5. ConversationInv' /\ ReaderInv'
  BY <1>1, <1>4 DEF CtlInv, ConversationInv, ReaderInv, Go, Exit, fixed, decided
<1> QED BY <1>2, <1>3, <1>5 DEF CtlInv

LEMMA SendRequestStep == CtlInv /\ SendRequest => CtlInv'
<1> SUFFICES ASSUME CtlInv, SendRequest PROVE CtlInv'
  OBVIOUS
<1>1. /\ pc = "request" /\ UNCHANGED <<reading, rbuf, eof, got, took, daemon, link, pending,
                                       subscribed, wrote, decided, fixed, sock>>
      /\ \/ link = "closed" /\ Exit("failed", "closed") /\ UNCHANGED asked
         \/ Go(IF cmd = "watch" THEN "watch" ELSE "answer") /\ asked' = "sent"
  BY DEF SendRequest
<1>2. StreamInv' /\ LinesAreExact'
  BY <1>1, StreamUntouched DEF CtlInv, Go, Exit
<1>3. TypeOK'
  <2>1. /\ pc' \in {"watch", "answer", "exit"} /\ cause' \in Causes /\ asked' \in {"none", "sent", "working", "answered"}
        /\ exit' \in {"none", "ok", "refused", "failed"}
    BY <1>1 DEF CtlInv, TypeOK, Go, Exit, Causes
  <2> QED BY <1>1, <2>1 DEF CtlInv, TypeOK, fixed, decided
<1>4. LongOwn' = LongOwn /\ Executed' = Executed
  <2>1. asked = "none" /\ cmd' = cmd /\ privileged' = privileged /\ asked' \in {"none", "sent"}
    BY <1>1 DEF CtlInv, ConversationInv, fixed, decided
  <2>2. verdict' = verdict
    BY <1>1 DEF decided
  <2> QED BY <2>1, <2>2 DEF LongOwn, Executed
<1>5. ConversationInv' /\ ReaderInv'
  BY <1>1, <1>4 DEF CtlInv, ConversationInv, ReaderInv, Go, Exit, fixed, decided
<1> QED BY <1>2, <1>3, <1>5 DEF CtlInv

(* The reader's own steps: the wait, and what fill finds.                  *)
LEMMA WaitStep ==
    ASSUME CtlInv, reading' \in {"line", "poll", "fill", "last"},
           eof' \in BOOLEAN, got' \in BOOLEAN,
           UNCHANGED <<pc, rbuf, exit, took, cause, daemonVars, fixed, sock>>,
           pc # "exit" => /\ eof' => link = "closed" \/ cause = "too long"
                          /\ cause = "too long" => eof'
                          /\ reading' \in {"poll", "fill"} => ~eof'
                          /\ reading' = "last" => eof'
    PROVE  CtlInv'
<1>1. StreamInv' /\ LinesAreExact'
  BY StreamUntouched DEF CtlInv, daemonVars, decided
<1>2. TypeOK'
  <2>1. TypeOK
    BY DEF CtlInv
  <2>2. /\ verdict' \in {"none", "done", "refusal", "listing"} /\ executed' \in Nat
        /\ firewall' \in {"same", "told"} /\ cmd' \in Commands
        /\ daemon' \in BOOLEAN /\ link' \in {"none", "queued", "open", "closed"}
        /\ asked' \in {"none", "sent", "working", "answered"} /\ wrote' \in Seq(LineKinds)
    BY <2>1 DEF TypeOK, daemonVars, decided, fixed
  <2>3. privileged' \in BOOLEAN /\ subscribed' \in BOOLEAN
    BY <2>1, Zenon DEF TypeOK, daemonVars, fixed
  <2>4. Len(rbuf') <= LineMax + ReadMax /\ Len(sock') <= SockBuf
    BY <2>1 DEF TypeOK
  <2>5. /\ pc' \in {"start", "hello", "request", "answer", "watch", "exit"}
        /\ reading' \in {"line", "poll", "fill", "last"} /\ eof' \in BOOLEAN /\ got' \in BOOLEAN
        /\ exit' \in {"none", "ok", "refused", "failed"} /\ cause' \in Causes
    BY <2>1 DEF TypeOK
  <2> QED BY <2>2, <2>3, <2>4, <2>5, Zenon DEF TypeOK
<1>3. LongOwn' = LongOwn /\ Executed' = Executed
  BY DEF LongOwn, Executed, daemonVars, fixed, decided
<1>4. ConversationInv'
  BY <1>3 DEF CtlInv, ConversationInv, daemonVars, fixed, decided
<1>5. ReaderInv'
  BY <1>3 DEF CtlInv, ReaderInv, daemonVars, fixed, decided
<1> QED BY <1>1, <1>2, <1>4, <1>5 DEF CtlInv

LEMMA WhyEofHolds ==
    ASSUME CtlInv, pc # "exit", eof
    PROVE  /\ WhyEof \in {"closed", "too long"}
           /\ WhyEof = "closed" => link = "closed"
           /\ WhyEof = "too long" => cause = "too long"
BY DEF WhyEof, CtlInv, ReaderInv

LEMMA ReadLineStep == CtlInv /\ (NextLine \/ LastLine \/ TimeOut) => CtlInv'
<1> SUFFICES ASSUME CtlInv, NextLine \/ LastLine \/ TimeOut PROVE CtlInv'
  OBVIOUS
<1>1. pc \in {"hello", "answer", "watch"}
  BY DEF NextLine, LastLine, TimeOut, Reading
<1>2. CASE TakeLine
  BY <1>1, <1>2, TakesLine
<1>3. CASE eof /\ GiveUp(WhyEof)
  <2>1. /\ WhyEof \in {"closed", "too long"}
        /\ WhyEof = "closed" => link = "closed"
        /\ WhyEof = "too long" => cause = "too long"
    BY <1>1, <1>3, WhyEofHolds
  <2>2. WhyEof \in Causes /\ WhyEof \notin {"none", "unreachable"}
    BY <2>1 DEF Causes
  <2> QED BY <1>1, <1>3, <2>1, <2>2, GivesUp
<1>4. CASE GiveUp("timeout")
  BY <1>1, <1>4, GivesUp DEF Causes
<1>5. CASE /\ ~eof /\ reading = "line" /\ reading' = "poll"
           /\ UNCHANGED <<pc, rbuf, eof, got, exit, took, cause, daemonVars, fixed, sock>>
  <2>1. eof' \in BOOLEAN /\ got' \in BOOLEAN
    BY <1>5 DEF CtlInv, TypeOK
  <2>2. cause # "too long"
    BY <1>1, <1>5 DEF CtlInv, ReaderInv
  <2> QED BY <1>5, <2>1, <2>2, WaitStep
<1>6. reading = "last" => eof
  BY <1>1 DEF CtlInv, ReaderInv
<1> QED BY <1>2, <1>3, <1>4, <1>5, <1>6 DEF NextLine, LastLine, TimeOut, Reading

LEMMA PollStep == CtlInv /\ Poll => CtlInv'
<1> SUFFICES ASSUME CtlInv, Poll PROVE CtlInv'
  OBVIOUS
<1>1. /\ pc \in {"hello", "answer", "watch"} /\ reading = "poll" /\ reading' = "fill" /\ got' = FALSE
      /\ UNCHANGED <<pc, rbuf, eof, exit, took, cause, daemonVars, fixed, sock>>
  BY DEF Poll, Reading
<1>2. ~eof' /\ cause # "too long"
  BY <1>1 DEF CtlInv, ReaderInv
<1>3. eof' \in BOOLEAN /\ got' \in BOOLEAN
  BY <1>1 DEF CtlInv, TypeOK
<1> QED BY <1>1, <1>2, <1>3, WaitStep

LEMMA FillEndStep == CtlInv /\ FillEnd => CtlInv'
<1> SUFFICES ASSUME CtlInv, FillEnd PROVE CtlInv'
  OBVIOUS
<1>1. /\ pc \in {"hello", "answer", "watch"} /\ reading = "fill"
      /\ reading' = IF link = "closed" /\ ~got THEN "last" ELSE "line"
      /\ UNCHANGED <<pc, rbuf, got, exit, took, cause, daemonVars, fixed, sock>>
  BY DEF FillEnd, Reading
<1>2. eof' <=> link = "closed"
  BY DEF FillEnd
<1>3. eof' \in BOOLEAN
  BY DEF FillEnd
<1>4. got' \in BOOLEAN
  BY <1>1 DEF CtlInv, TypeOK
<1>5. cause # "too long"
  BY <1>1 DEF CtlInv, ReaderInv
<1> QED BY <1>1, <1>2, <1>3, <1>4, <1>5, WaitStep

LEMMA FillReadStep == CtlInv /\ FillRead => CtlInv'
<1> SUFFICES ASSUME CtlInv, FillRead PROVE CtlInv'
  OBVIOUS
<1>1. StreamInv' /\ LinesAreExact'
  BY StreamFillRead DEF CtlInv
<1>2. PICK k \in 1..ReadMax : k <= Len(sock) /\ ReadInto(k) /\ sock' = SubSeq(sock, k + 1, Len(sock))
  BY DEF FillRead
<1>3. /\ pc \in {"hello", "answer", "watch"} /\ reading = "fill"
      /\ UNCHANGED <<pc, exit, took, daemonVars, fixed>>
  BY DEF FillRead, Reading
<1>4. rbuf \in Seq(Byte) /\ sock \in Seq(Byte)
  BY DEF CtlInv, StreamInv
<1>5. k \in 0..Len(sock) /\ k <= ReadMax /\ k \in Nat
  BY <1>2, <1>4, LineAssumption
<1>6. Len(sock') <= SockBuf
  <2>1. Len(sock') = Len(sock) - k
    BY <1>2, <1>4, <1>5, Cut
  <2>2. Len(sock) \in Nat /\ Len(sock) <= SockBuf /\ SockBuf \in Nat
    BY <1>4, CtlAssumption DEF CtlInv, TypeOK
  <2> QED BY <1>5, <2>1, <2>2
<1>7. Len(rbuf') <= LineMax + ReadMax
  <2>1. CASE TooLong(rbuf)
    BY <1>2, <2>1 DEF ReadInto, CtlInv, TypeOK
  <2>2. CASE ~TooLong(rbuf)
    <3>1. SubSeq(sock, 1, k) \in Seq(Byte) /\ Len(SubSeq(sock, 1, k)) = k
      BY <1>4, <1>5, Cut
    <3>2. Len(rbuf') = Len(rbuf) + k
      BY <1>2, <1>4, <2>2, <3>1, ConcatProperties DEF ReadInto
    <3>3. Len(rbuf) <= LineMax /\ Len(rbuf) \in Nat
      BY <1>4, <2>2, LineAssumption DEF TooLong
    <3> QED BY <1>5, <3>2, <3>3, LineAssumption
  <2> QED BY <2>1, <2>2
<1>8. \/ /\ TooLong(rbuf) /\ eof' = TRUE /\ reading' = "last" /\ cause' = "too long" /\ got' = got
      \/ got' = TRUE /\ UNCHANGED <<eof, reading, cause>>
  BY <1>2 DEF ReadInto
<1>9. TypeOK'
  <2>1. eof' \in BOOLEAN
    BY <1>8 DEF CtlInv, TypeOK
  <2>2. got' \in BOOLEAN
    BY <1>8 DEF CtlInv, TypeOK
  <2>3. reading' \in {"line", "poll", "fill", "last"} /\ cause' \in Causes
    BY <1>8 DEF CtlInv, TypeOK, Causes
  <2> QED BY <1>3, <1>6, <1>7, <2>1, <2>2, <2>3 DEF CtlInv, TypeOK, daemonVars, fixed, decided
<1>10. LongOwn' = LongOwn /\ Executed' = Executed
  BY <1>3 DEF LongOwn, Executed, daemonVars, fixed, decided
<1>11. ConversationInv'
  BY <1>3, <1>10 DEF CtlInv, ConversationInv, daemonVars, fixed, decided
<1>12. ReaderInv'
  <2>1. TooLong(rbuf) => pc = "watch" \/ LongOwn
    BY <1>3, ReadsTooMuch
  <2>2. ~eof /\ cause = "none" /\ exit = "none"
    BY <1>3 DEF CtlInv, ReaderInv, ConversationInv
  <2>3. CASE eof' /\ reading' = "last" /\ cause' = "too long" /\ TooLong(rbuf)
    BY <1>3, <1>10, <2>1, <2>2, <2>3 DEF ReaderInv, daemonVars, decided
  <2>4. CASE ~eof' /\ reading' = "fill" /\ cause' = "none"
    BY <1>3, <2>2, <2>4 DEF ReaderInv, daemonVars, decided
  <2>5. CASE TooLong(rbuf) /\ eof' = TRUE /\ reading' = "last" /\ cause' = "too long"
    BY <2>3, <2>5
  <2>6. CASE UNCHANGED <<eof, reading, cause>>
    BY <1>3, <2>2, <2>4, <2>6
  <2> QED BY <1>8, <2>5, <2>6
<1> QED BY <1>1, <1>9, <1>11, <1>12 DEF CtlInv

(* The daemon's writes.                                                    *)
LEMMA AcceptStep == CtlInv /\ Accept => CtlInv'
<1> SUFFICES ASSUME CtlInv, Accept PROVE CtlInv'
  OBVIOUS
<1>1. /\ link = "queued" /\ UNCHANGED <<clientVars, daemon, asked, subscribed, decided, fixed, sock>>
      /\ \/ link' = "open" /\ Write("hello")
         \/ link' = "closed" /\ UNCHANGED <<pending, wrote>>
  BY DEF Accept
<1>2. Len(wrote) = 0 /\ wrote \in Seq(LineKinds) /\ "hello" \in LineKinds
  BY <1>1 DEF CtlInv, ConversationInv, TypeOK, LineKinds
<1>3. LongOwn' = LongOwn /\ Executed' = Executed
  BY <1>1 DEF LongOwn, Executed, fixed, decided
<1>4. CASE link' = "open" /\ Write("hello")
  <2>1. StreamInv' /\ LinesAreExact'
    BY <1>1, <1>2, <1>4, StreamWrite DEF CtlInv
  <2>2. wrote' \in Seq(LineKinds) /\ Len(wrote') = 1 /\ wrote'[1] = "hello"
    <3>1. wrote' = Append(wrote, "hello")
      BY <1>4 DEF Write
    <3> QED BY <1>2, <3>1
  <2>3. TypeOK'
    BY <1>1, <1>4, <2>2 DEF CtlInv, TypeOK, clientVars, fixed, decided
  <2>4. asked' = asked /\ asked # "answered"
    BY <1>1, <1>2 DEF CtlInv, ConversationInv
  <2>5. ConversationInv'
    BY <1>1, <1>3, <1>4, <2>2, <2>4 DEF CtlInv, ConversationInv, clientVars, fixed, decided
  <2>6. ReaderInv'
    BY <1>1, <1>3, <1>4 DEF CtlInv, ReaderInv, clientVars
  <2> QED BY <2>1, <2>3, <2>5, <2>6 DEF CtlInv
<1>5. CASE link' = "closed" /\ UNCHANGED <<pending, wrote>>
  <2>1. StreamInv' /\ LinesAreExact'
    <3>1. Whole' = FALSE /\ Whole = FALSE
      BY <1>1, <1>5 DEF Whole
    <3>2. Stream' = Stream /\ UNCHANGED <<rbuf, sock, pending, took, wrote, pc, cause>>
      BY <1>1, <1>5 DEF Stream, clientVars
    <3> QED BY <3>1, <3>2 DEF CtlInv, StreamInv, LinesAreExact
  <2>2. TypeOK'
    BY <1>1, <1>5 DEF CtlInv, TypeOK, clientVars, fixed, decided
  <2>3. ConversationInv'
    BY <1>1, <1>3, <1>5 DEF CtlInv, ConversationInv, clientVars, fixed, decided
  <2>4. ReaderInv'
    BY <1>1, <1>3, <1>5 DEF CtlInv, ReaderInv, clientVars
  <2> QED BY <2>1, <2>2, <2>3, <2>4 DEF CtlInv
<1> QED BY <1>1, <1>4, <1>5

LEMMA HandleStep == CtlInv /\ Handle => CtlInv'
<1> SUFFICES ASSUME CtlInv, Handle PROVE CtlInv'
  OBVIOUS
<1>1. /\ link = "open" /\ asked = "sent" /\ asked' = "working"
      /\ UNCHANGED <<clientVars, daemon, link, pending, wrote, fixed, sock>>
  BY DEF Handle
<1>2. subscribed' <=> cmd = "watch"
  BY DEF Handle
<1>3. subscribed' \in BOOLEAN
  BY DEF Handle
<1>4. StreamInv' /\ LinesAreExact'
  BY <1>1, StreamUntouched DEF CtlInv, clientVars
<1>5. /\ verdict = "none" /\ executed = 0 /\ firewall = "same"
      /\ cmd \in Commands /\ cmd' = cmd /\ privileged' = privileged /\ Decide
  <2>1. verdict = "none" /\ cmd \in Commands /\ firewall \in {"same", "told"}
    BY <1>1 DEF CtlInv, TypeOK, ConversationInv
  <2>2. executed = 0
    BY <1>1, <2>1 DEF CtlInv, ConversationInv, Executed
  <2>3. firewall = "same"
    BY <2>1 DEF CtlInv, ConversationInv
  <2> QED BY <1>1, <2>1, <2>2, <2>3 DEF Handle, fixed
<1>6. /\ verdict' \in {"done", "refusal", "listing"} /\ executed' = Executed'
      /\ verdict' = "listing" => cmd = "list"
      /\ executed' \in Nat /\ firewall' \in {"same", "told"}
      /\ firewall' = "told" => /\ privileged /\ cmd \in Changes
                               /\ verdict' = "done" \/ (verdict' = "refusal" /\ cmd = "unblock")
  BY <1>5 DEF Decide, Refused, Made, May, Executed, Changes, Commands
<1>7. TypeOK'
  BY <1>1, <1>3, <1>6 DEF CtlInv, TypeOK, clientVars, fixed
<1>8. ConversationInv'
  BY <1>1, <1>2, <1>5, <1>6 DEF CtlInv, ConversationInv, clientVars, fixed
<1>9. ReaderInv'
  <2>1. LongOwn => LongOwn'
    BY <1>5 DEF LongOwn, LineKinds
  <2> QED BY <1>1, <2>1 DEF CtlInv, ReaderInv, clientVars
<1> QED BY <1>4, <1>7, <1>8, <1>9 DEF CtlInv

LEMMA AnswerStep == CtlInv /\ Answer => CtlInv'
<1> SUFFICES ASSUME CtlInv, Answer PROVE CtlInv'
  OBVIOUS
<1>1. /\ link = "open" /\ asked = "working" /\ asked' = "answered" /\ Write(verdict)
      /\ UNCHANGED <<clientVars, daemon, link, subscribed, decided, fixed, sock>>
  BY DEF Answer
<1>2. verdict \in LineKinds /\ LongOwn' = LongOwn /\ Executed' = Executed
  <2>1. verdict \in LineKinds
    BY <1>1 DEF CtlInv, TypeOK, ConversationInv, LineKinds
  <2> QED BY <1>1, <2>1 DEF LongOwn, Executed, fixed, decided
<1>3. wrote \in Seq(LineKinds) /\ Len(wrote) \in Nat /\ Len(wrote) = 1
  <2>1. wrote \in Seq(LineKinds) /\ Len(wrote) >= 1 /\ Len(wrote) <= 1
    BY <1>1 DEF CtlInv, TypeOK, ConversationInv
  <2>2. Len(wrote) \in Nat
    BY <2>1, LenProperties
  <2> QED BY <2>1, <2>2, Just1
<1>4. wrote' \in Seq(LineKinds) /\ Len(wrote') = 2 /\ wrote'[1] = wrote[1] /\ wrote'[2] = verdict
  <2>1. wrote' = Append(wrote, verdict)
    BY <1>1 DEF Write
  <2>2. /\ wrote' \in Seq(LineKinds) /\ Len(wrote') = Len(wrote) + 1
        /\ \A i \in 1..Len(wrote) : wrote'[i] = wrote[i]
        /\ wrote'[Len(wrote) + 1] = verdict
    <3>1. wrote \in Seq(LineKinds) /\ verdict \in LineKinds
      BY <1>2, <1>3
    <3> QED BY <2>1, <3>1, AppendProperties
  <2>3. 1 \in 1..Len(wrote) /\ Len(wrote) + 1 = 2
    BY <1>3
  <2> QED BY <2>2, <2>3
<1>5. StreamInv' /\ LinesAreExact'
  BY <1>1, <1>2, StreamWrite DEF CtlInv
<1>6. TypeOK'
  BY <1>1, <1>4 DEF CtlInv, TypeOK, clientVars, fixed, decided
<1>7. ConversationInv'
  <2>1. wrote[1] = "hello"
    BY <1>3 DEF CtlInv, ConversationInv
  <2> QED BY <1>1, <1>2, <1>4, <2>1 DEF CtlInv, ConversationInv, clientVars, fixed, decided
<1>8. ReaderInv'
  BY <1>1, <1>2 DEF CtlInv, ReaderInv, clientVars
<1> QED BY <1>5, <1>6, <1>7, <1>8 DEF CtlInv

LEMMA BroadcastStep == CtlInv /\ Broadcast => CtlInv'
<1> SUFFICES ASSUME CtlInv, Broadcast PROVE CtlInv'
  OBVIOUS
<1>1. /\ link = "open" /\ subscribed /\ asked = "answered" /\ Write("alert") /\ "alert" \in LineKinds
      /\ UNCHANGED <<clientVars, daemon, link, asked, subscribed, decided, fixed, sock>>
  BY DEF Broadcast, LineKinds
<1>2. LongOwn' = LongOwn /\ Executed' = Executed
  BY <1>1 DEF LongOwn, Executed, fixed, decided
<1>3. wrote \in Seq(LineKinds) /\ Len(wrote) \in Nat /\ Len(wrote) >= 2
  <2>1. wrote \in Seq(LineKinds) /\ Len(wrote) >= 2
    BY <1>1 DEF CtlInv, TypeOK, ConversationInv
  <2> QED BY <2>1, LenProperties
<1>4. /\ wrote' \in Seq(LineKinds) /\ Len(wrote') = Len(wrote) + 1
      /\ wrote'[1] = wrote[1] /\ wrote'[2] = wrote[2]
  <2>1. wrote' = Append(wrote, "alert")
    BY <1>1 DEF Write
  <2>2. 1 \in 1..Len(wrote) /\ 2 \in 1..Len(wrote)
    BY <1>3
  <2> QED BY <1>1, <1>3, <2>1, <2>2, AppendProperties
<1>5. StreamInv' /\ LinesAreExact'
  BY <1>1, StreamWrite DEF CtlInv
<1>6. TypeOK'
  BY <1>1, <1>4 DEF CtlInv, TypeOK, clientVars, fixed, decided
<1>7. ConversationInv'
  <2>1. wrote[1] = "hello" /\ wrote[2] = verdict /\ cmd = "watch"
    BY <1>1, <1>3 DEF CtlInv, ConversationInv
  <2>2. Len(wrote') >= 2
    BY <1>3, <1>4
  <2> QED BY <1>1, <1>2, <1>4, <2>1, <2>2 DEF CtlInv, ConversationInv, clientVars, fixed, decided
<1>8. ReaderInv'
  BY <1>1, <1>2 DEF CtlInv, ReaderInv, clientVars
<1> QED BY <1>5, <1>6, <1>7, <1>8 DEF CtlInv

LEMMA FlushStep == CtlInv /\ Flush => CtlInv'
<1> SUFFICES ASSUME CtlInv, Flush PROVE CtlInv'
  OBVIOUS
<1>1. StreamInv' /\ LinesAreExact' /\ Len(sock') <= SockBuf
  BY StreamFlush DEF CtlInv
<1>2. UNCHANGED <<clientVars, daemon, link, asked, subscribed, wrote, decided, fixed>>
  BY DEF Flush
<1>3. LongOwn' = LongOwn /\ Executed' = Executed
  BY <1>2 DEF LongOwn, Executed, fixed, decided
<1>4. TypeOK'
  BY <1>1, <1>2 DEF CtlInv, TypeOK, clientVars, fixed, decided
<1>5. ConversationInv'
  BY <1>2, <1>3 DEF CtlInv, ConversationInv, clientVars, fixed, decided
<1>6. ReaderInv'
  BY <1>2, <1>3 DEF CtlInv, ReaderInv, clientVars
<1> QED BY <1>1, <1>4, <1>5, <1>6 DEF CtlInv

LEMMA CloseStep == CtlInv /\ Close => CtlInv'
<1> SUFFICES ASSUME CtlInv, Close PROVE CtlInv'
  OBVIOUS
<1>1. StreamInv' /\ LinesAreExact'
  BY StreamClose DEF CtlInv
<1>2. /\ link \in {"queued", "open"} /\ link' = "closed" /\ daemon' \in BOOLEAN
      /\ UNCHANGED <<clientVars, asked, subscribed, wrote, decided, fixed, sock>>
  BY DEF Close
<1>3. LongOwn' = LongOwn /\ Executed' = Executed
  BY <1>2 DEF LongOwn, Executed, fixed, decided
<1>4. TypeOK'
  BY <1>2 DEF CtlInv, TypeOK, clientVars, fixed, decided
<1>5. ConversationInv'
  BY <1>2, <1>3 DEF CtlInv, ConversationInv, clientVars, fixed, decided
<1>6. ReaderInv'
  BY <1>2, <1>3 DEF CtlInv, ReaderInv, clientVars
<1> QED BY <1>1, <1>4, <1>5, <1>6 DEF CtlInv

LEMMA CtlStep == CtlInv /\ [Next]_vars => CtlInv'
<1> SUFFICES ASSUME CtlInv, [Next]_vars PROVE CtlInv'
  OBVIOUS
<1>1. CASE Client
  BY <1>1, ConnectStep, SendRequestStep, ReadLineStep, PollStep, FillReadStep, FillEndStep DEF Client
<1>2. CASE TimeOut
  BY <1>2, ReadLineStep
<1>3. CASE Server
  BY <1>3, AcceptStep, HandleStep, AnswerStep, FlushStep DEF Server
<1>4. CASE Broadcast
  BY <1>4, BroadcastStep
<1>5. CASE Close
  BY <1>5, CloseStep
<1>6. CASE UNCHANGED vars
  <2>1. StreamInv' /\ LinesAreExact'
    BY <1>6, StreamUntouched DEF CtlInv, vars, clientVars, daemonVars, decided
  <2>2. LongOwn' = LongOwn /\ Executed' = Executed
    BY <1>6 DEF LongOwn, Executed, vars, daemonVars, fixed, decided
  <2>3. TypeOK'
    BY <1>6 DEF CtlInv, TypeOK, vars, clientVars, daemonVars, fixed, decided
  <2>4. ConversationInv'
    BY <1>6, <2>2 DEF CtlInv, ConversationInv, vars, clientVars, daemonVars, fixed, decided
  <2>5. ReaderInv'
    BY <1>6, <2>2 DEF CtlInv, ReaderInv, vars, clientVars, daemonVars, decided
  <2> QED BY <2>1, <2>3, <2>4, <2>5 DEF CtlInv
<1> QED BY <1>1, <1>2, <1>3, <1>4, <1>5, <1>6 DEF Next

LEMMA CtlInvariant == Spec => []CtlInv
BY CtlInit, CtlStep, PTL DEF Spec

(* Every variable stays in its domain, and the client's buffer never holds *)
(* more than one read beyond the limit.                                    *)
THEOREM TypeCorrect == Spec => []TypeOK
<1>1. CtlInv => TypeOK
  BY DEF CtlInv
<1> QED BY <1>1, CtlInvariant, PTL

(* next_line returns the daemon's lines whole, in order, with none left    *)
(* out, however the bytes are cut into reads and wherever the stream ends. *)
THEOREM LinesComeWhole == Spec => []LinesAreExact
<1>1. CtlInv => LinesAreExact
  BY DEF CtlInv
<1> QED BY <1>1, CtlInvariant, PTL

(* The end of the client says whether a change was made: ok, once; refused,*)
(* not at all, except that a refused unblock by somebody who may has told  *)
(* nft to forget the address.                                              *)
THEOREM ExitsTellTruth == Spec => []ExitTellsTruth
<1>1. CtlInv => ExitTellsTruth
  <2> SUFFICES ASSUME CtlInv PROVE ExitTellsTruth
    OBVIOUS
  <2>1. executed = Executed /\ executed <= 1
    BY DEF CtlInv, ConversationInv, Executed
  <2>2. exit = "ok" /\ cmd \in Changes => executed = 1
    <3> SUFFICES ASSUME exit = "ok", cmd \in Changes PROVE executed = 1
      OBVIOUS
    <3>1. asked = "answered" /\ verdict # "refusal" /\ verdict # "none"
      BY DEF CtlInv, ConversationInv, Changes
    <3>2. verdict # "listing"
      BY DEF CtlInv, ConversationInv, Changes
    <3> QED BY <2>1, <3>1, <3>2 DEF CtlInv, TypeOK, Executed
  <2>3. exit = "refused" => executed = 0 /\ (firewall = "told" => privileged /\ cmd = "unblock")
    BY <2>1 DEF CtlInv, ConversationInv, Executed
  <2> QED BY <2>1, <2>2, <2>3 DEF ExitTellsTruth
<1> QED BY <1>1, CtlInvariant, PTL

(* A command fails for a reason outside it, or over a line that does not   *)
(* fit its buffer.                                                         *)
THEOREM FailuresHaveCauses == Spec => []FailureHasCause
<1>1. CtlInv => FailureHasCause
  <2> SUFFICES ASSUME CtlInv, exit = "failed" PROVE FailureHasCause
    BY DEF FailureHasCause
  <2>1. /\ cause \in Causes /\ cause # "none"
        /\ cause = "unreachable" => ~daemon
        /\ cause = "closed" => link = "closed"
    BY DEF CtlInv, TypeOK, ReaderInv
  <2>2. cause = "too long" => LongOwn
    BY DEF CtlInv, ReaderInv, ConversationInv
  <2> QED BY <2>1, <2>2 DEF FailureHasCause, Causes
<1> QED BY <1>1, CtlInvariant, PTL
=============================================================================
