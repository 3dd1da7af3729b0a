---------------------------- MODULE TunnelProofs ----------------------------
(***************************************************************************)
(* Proofs about Tunnel, for any channels, any number of chunks and either  *)
(* setting of compression at both ends: the types, the client's count of   *)
(* its channels, and that each direction of a channel implements           *)
(* ChannelStream.                                                          *)
(***************************************************************************)
EXTENDS Tunnel, FiniteSetTheorems, TLAPS

Frames == [t : {"new", "ready", "close"}, ch : Chan]
              \cup [t : {"data"}, ch : Chan, n : Nat, z : BOOLEAN]

(* What the proofs need to know of a queue q of frames.                     *)
IsData(q, i, c) == q[i].t = "data" /\ q[i].ch = c
IsNew(q, i, c)  == q[i].t = "new" /\ q[i].ch = c
NewIn(q, c)     == \E i \in 1 .. Len(q) : IsNew(q, i, c)
NoneOf(q, c)    == \A i \in 1 .. Len(q) : q[i].ch # c

\* A channel is announced once, before its data.
NewFirst(q, c) ==
    \A i, j \in 1 .. Len(q) :
        IsNew(q, i, c) /\ (IsNew(q, j, c) \/ IsData(q, j, c)) => i <= j

\* The chunks of c in q are those after lo up to hi, in order.
Pending(q, c, lo, hi) ==
    /\ \A i \in 1 .. Len(q) : IsData(q, i, c) => q[i].n \in lo + 1 .. hi
    /\ \A m \in lo + 1 .. hi : \E i \in 1 .. Len(q) : IsData(q, i, c) /\ q[i].n = m
    /\ \A i, j \in 1 .. Len(q) :
         i < j /\ IsData(q, i, c) /\ IsData(q, j, c) => q[i].n < q[j].n

\* Some of the chunks of c after lo up to hi are in q, in order.
Ordered(q, c, lo, hi) ==
    /\ \A i \in 1 .. Len(q) : IsData(q, i, c) => q[i].n \in lo + 1 .. hi
    /\ \A i, j \in 1 .. Len(q) :
         i < j /\ IsData(q, i, c) /\ IsData(q, j, c) => q[i].n < q[j].n

\* What is in flight for a stream, and for a channel that may have gaps.
Flow(q, c, lo, hi, gaps) == IF gaps THEN Ordered(q, c, lo, hi) ELSE Pending(q, c, lo, hi)

Readable(q) == \A i \in 1 .. Len(q) : q[i].t = "data" => CliReadable(q[i])

(* A frame is appended.                                                     *)
LEMMA QueueGrows ==
    ASSUME NEW q \in Seq(Frames), NEW f \in Frames, NEW c \in Chan
    PROVE  /\ Append(q, f) \in Seq(Frames)
           /\ NewIn(Append(q, f), c) <=> NewIn(q, c) \/ (f.t = "new" /\ f.ch = c)
           /\ NoneOf(Append(q, f), c) <=> NoneOf(q, c) /\ f.ch # c
           /\ NewFirst(q, c) /\ (f.t = "new" /\ f.ch = c => NoneOf(q, c))
                => NewFirst(Append(q, f), c)
           /\ Readable(q) /\ (f.t = "data" => CliReadable(f)) => Readable(Append(q, f))
<1> DEFINE n == Len(q)
           z == Append(q, f)
<1>1. /\ z \in Seq(Frames) /\ n \in Nat /\ Len(z) = n + 1
      /\ z[n + 1] = f /\ \A i \in 1 .. n : z[i] = q[i]
  <2> HIDE DEF Frames
  <2> QED
    OBVIOUS
<1>2. \A i : i \in 1 .. n + 1 <=> i \in 1 .. n \/ i = n + 1
  BY <1>1
<1>3. /\ \A i \in 1 .. n : IsNew(z, i, c) <=> IsNew(q, i, c)
      /\ \A i \in 1 .. n : IsData(z, i, c) <=> IsData(q, i, c)
      /\ IsNew(z, n + 1, c) <=> f.t = "new" /\ f.ch = c
      /\ IsData(z, n + 1, c) <=> f.t = "data" /\ f.ch = c
  BY <1>1 DEF IsNew, IsData
<1>4. /\ NewIn(q, c) <=> \E i \in 1 .. n : IsNew(q, i, c)
      /\ NewIn(z, c) <=> \E i \in 1 .. n + 1 : IsNew(z, i, c)
      /\ NoneOf(q, c) <=> \A i \in 1 .. n : q[i].ch # c
      /\ NoneOf(z, c) <=> \A i \in 1 .. n + 1 : z[i].ch # c
  BY <1>1 DEF NewIn, NoneOf
<1>5. /\ Readable(q) <=> \A i \in 1 .. n : q[i].t = "data" => CliReadable(q[i])
      /\ Readable(z) <=> \A i \in 1 .. n + 1 : z[i].t = "data" => CliReadable(z[i])
  BY <1>1 DEF Readable
<1>6. ASSUME NewFirst(q, c), f.t = "new" /\ f.ch = c => NoneOf(q, c) PROVE NewFirst(z, c)
  <2> SUFFICES ASSUME NEW i \in 1 .. n + 1, NEW j \in 1 .. n + 1,
                      IsNew(z, i, c), IsNew(z, j, c) \/ IsData(z, j, c)
               PROVE  i <= j
    BY <1>1 DEF NewFirst
  <2>1. CASE j = n + 1
    BY <1>1, <2>1
  <2>2. CASE j \in 1 .. n /\ i \in 1 .. n
    BY <1>3, <1>6, <2>2 DEF NewFirst
  <2>3. CASE j \in 1 .. n /\ i = n + 1
    <3>1. q[j].ch = c
      BY <1>1, <2>3 DEF IsNew, IsData
    <3>2. NoneOf(q, c)
      BY <1>3, <1>6, <2>3
    <3> QED
      BY <1>4, <2>3, <3>1, <3>2
  <2> QED
    BY <1>2, <2>1, <2>2, <2>3
<1> HIDE DEF n, z
<1>7. NewIn(z, c) <=> NewIn(q, c) \/ (f.t = "new" /\ f.ch = c)
  BY <1>2, <1>3, <1>4
<1>8. NoneOf(z, c) <=> NoneOf(q, c) /\ f.ch # c
  BY <1>1, <1>2, <1>4
<1>9. Readable(q) /\ (f.t = "data" => CliReadable(f)) => Readable(z)
  BY <1>1, <1>2, <1>5
<1> QED
  BY <1>1, <1>6, <1>7, <1>8, <1>9 DEF z

(* ... which is the channel's next chunk, or not one of its chunks.         *)
LEMMA PendingGrows ==
    ASSUME NEW q \in Seq(Frames), NEW f \in Frames, NEW c \in Chan, NEW lo \in Nat, NEW hi \in Nat,
           Pending(q, c, lo, hi)
    PROVE  /\ ~(f.t = "data" /\ f.ch = c) => Pending(Append(q, f), c, lo, hi)
           /\ f.t = "data" /\ f.ch = c /\ f.n = hi + 1 /\ lo <= hi
                => Pending(Append(q, f), c, lo, hi + 1)
<1> DEFINE n == Len(q)
           z == Append(q, f)
<1>1. /\ n \in Nat /\ Len(z) = n + 1 /\ z[n + 1] = f /\ \A i \in 1 .. n : z[i] = q[i]
  <2> HIDE DEF Frames
  <2> QED
    OBVIOUS
<1>2. \A i : i \in 1 .. n + 1 <=> i \in 1 .. n \/ i = n + 1
  BY <1>1
<1>3. /\ \A i \in 1 .. n : IsData(z, i, c) <=> IsData(q, i, c)
      /\ IsData(z, n + 1, c) <=> f.t = "data" /\ f.ch = c
  BY <1>1 DEF IsData
<1>4. /\ \A i \in 1 .. n : IsData(q, i, c) => q[i].n \in lo + 1 .. hi
      /\ \A m \in lo + 1 .. hi : \E i \in 1 .. n : IsData(q, i, c) /\ q[i].n = m
      /\ \A i, j \in 1 .. n : i < j /\ IsData(q, i, c) /\ IsData(q, j, c) => q[i].n < q[j].n
  BY DEF Pending
<1>5. ASSUME NEW top,
             /\ \A i \in 1 .. n + 1 : IsData(z, i, c) => z[i].n \in lo + 1 .. top
             /\ \A m \in lo + 1 .. top : \E i \in 1 .. n + 1 : IsData(z, i, c) /\ z[i].n = m
             /\ \A i, j \in 1 .. n + 1 :
                  i < j /\ IsData(z, i, c) /\ IsData(z, j, c) => z[i].n < z[j].n
      PROVE  Pending(z, c, lo, top)
  BY <1>1, <1>5 DEF Pending
<1> HIDE DEF n, z
<1>6. ASSUME ~(f.t = "data" /\ f.ch = c) PROVE Pending(z, c, lo, hi)
  <2>1. \A i \in 1 .. n + 1 : IsData(z, i, c) => i \in 1 .. n
    BY <1>2, <1>3, <1>6
  <2>2. \A i \in 1 .. n + 1 : IsData(z, i, c) => z[i].n \in lo + 1 .. hi
    BY <1>1, <1>3, <1>4, <2>1
  <2>3. ASSUME NEW m \in lo + 1 .. hi PROVE \E i \in 1 .. n + 1 : IsData(z, i, c) /\ z[i].n = m
    <3>1. PICK i \in 1 .. n : IsData(q, i, c) /\ q[i].n = m
      BY <1>4
    <3> QED
      BY <1>1, <1>2, <1>3, <3>1
  <2>4. \A i, j \in 1 .. n + 1 : i < j /\ IsData(z, i, c) /\ IsData(z, j, c) => z[i].n < z[j].n
    BY <1>1, <1>3, <1>4, <2>1
  <2> QED
    BY <1>5, <2>2, <2>3, <2>4
<1>7. ASSUME f.t = "data", f.ch = c, f.n = hi + 1, lo <= hi PROVE Pending(z, c, lo, hi + 1)
  <2>1. \A i \in 1 .. n + 1 : IsData(z, i, c) => z[i].n \in lo + 1 .. hi + 1
    BY <1>1, <1>2, <1>3, <1>4, <1>7
  <2>2. ASSUME NEW m \in lo + 1 .. hi + 1
        PROVE  \E i \in 1 .. n + 1 : IsData(z, i, c) /\ z[i].n = m
    <3>1. CASE m = hi + 1
      BY <1>1, <1>2, <1>3, <1>7, <3>1
    <3>2. CASE m \in lo + 1 .. hi
      <4>1. PICK i \in 1 .. n : IsData(q, i, c) /\ q[i].n = m
        BY <1>4, <3>2
      <4> QED
        BY <1>1, <1>2, <1>3, <4>1
    <3> QED
      BY <3>1, <3>2
  <2>3. ASSUME NEW i \in 1 .. n + 1, NEW j \in 1 .. n + 1, i < j, IsData(z, i, c), IsData(z, j, c)
        PROVE  z[i].n < z[j].n
    <3>1. i \in 1 .. n /\ IsData(q, i, c) /\ z[i] = q[i]
      BY <1>1, <1>2, <1>3, <2>3
    <3>2. CASE j = n + 1
      BY <1>1, <1>4, <1>7, <3>1, <3>2
    <3>3. CASE j \in 1 .. n
      BY <1>1, <1>3, <1>4, <2>3, <3>1, <3>3
    <3> QED
      BY <1>2, <3>2, <3>3
  <2> QED
    BY <1>5, <2>1, <2>2, <2>3
<1> QED
  BY <1>6, <1>7 DEF z

(* The first frame is read.                                                 *)
LEMMA QueueShrinks ==
    ASSUME NEW q \in Seq(Frames), q # <<>>, NEW c \in Chan
    PROVE  /\ Tail(q) \in Seq(Frames) /\ Head(q) \in Frames
           /\ NewIn(Tail(q), c) => NewIn(q, c)
           /\ Head(q).t = "new" /\ Head(q).ch = c => NewIn(q, c)
           /\ NewIn(q, c) => NewIn(Tail(q), c) \/ (Head(q).t = "new" /\ Head(q).ch = c)
           /\ NoneOf(q, c) => NoneOf(Tail(q), c) /\ Head(q).ch # c
           /\ NewFirst(q, c) =>
                /\ NewFirst(Tail(q), c)
                /\ Head(q).t \in {"new", "data"} /\ Head(q).ch = c => ~NewIn(Tail(q), c)
           /\ Readable(q) => Readable(Tail(q)) /\ (Head(q).t = "data" => CliReadable(Head(q)))
<1> DEFINE n == Len(q)
           z == Tail(q)
<1>1. /\ z \in Seq(Frames) /\ Head(q) \in Frames /\ n \in Nat /\ n >= 1 /\ Len(z) = n - 1
      /\ Head(q) = q[1] /\ \A i \in 1 .. n - 1 : z[i] = q[i + 1]
  <2> HIDE DEF Frames
  <2> QED
    OBVIOUS
<1>2. /\ \A i \in 1 .. n - 1 : i + 1 \in 1 .. n
      /\ \A i \in 1 .. n : i = 1 \/ (i - 1 \in 1 .. n - 1 /\ (i - 1) + 1 = i)
      /\ 1 \in 1 .. n
  BY <1>1
<1>3. /\ \A i \in 1 .. n - 1 : IsNew(z, i, c) <=> IsNew(q, i + 1, c)
      /\ \A i \in 1 .. n - 1 : IsData(z, i, c) <=> IsData(q, i + 1, c)
      /\ IsNew(q, 1, c) <=> Head(q).t = "new" /\ Head(q).ch = c
      /\ IsData(q, 1, c) <=> Head(q).t = "data" /\ Head(q).ch = c
  BY <1>1 DEF IsNew, IsData
<1>4. /\ NewIn(q, c) <=> \E i \in 1 .. n : IsNew(q, i, c)
      /\ NewIn(z, c) <=> \E i \in 1 .. n - 1 : IsNew(z, i, c)
      /\ NoneOf(q, c) <=> \A i \in 1 .. n : q[i].ch # c
      /\ NoneOf(z, c) <=> \A i \in 1 .. n - 1 : z[i].ch # c
  BY <1>1 DEF NewIn, NoneOf
<1>5. /\ Readable(q) <=> \A i \in 1 .. n : q[i].t = "data" => CliReadable(q[i])
      /\ Readable(z) <=> \A i \in 1 .. n - 1 : z[i].t = "data" => CliReadable(z[i])
  BY <1>1 DEF Readable
<1>6. /\ NewFirst(q, c) <=>
           \A i, j \in 1 .. n :
               IsNew(q, i, c) /\ (IsNew(q, j, c) \/ IsData(q, j, c)) => i <= j
      /\ NewFirst(z, c) <=>
           \A i, j \in 1 .. n - 1 :
               IsNew(z, i, c) /\ (IsNew(z, j, c) \/ IsData(z, j, c)) => i <= j
  BY <1>1 DEF NewFirst
<1> HIDE DEF n, z
<1>7. NewIn(z, c) => NewIn(q, c)
  BY <1>2, <1>3, <1>4
<1>8. ASSUME NewIn(q, c) PROVE NewIn(z, c) \/ IsNew(q, 1, c)
  <2>1. PICK i \in 1 .. n : IsNew(q, i, c)
    BY <1>4, <1>8
  <2>2. CASE i # 1
    <3>1. IsNew(z, i - 1, c) /\ i - 1 \in 1 .. n - 1
      BY <1>2, <1>3, <2>1, <2>2
    <3> QED
      BY <1>4, <3>1
  <2> QED
    BY <2>1, <2>2
<1>9. NoneOf(q, c) => NoneOf(z, c) /\ Head(q).ch # c
  BY <1>1, <1>2, <1>4
<1>10. ASSUME NewFirst(q, c) PROVE NewFirst(z, c)
  <2> SUFFICES ASSUME NEW i \in 1 .. n - 1, NEW j \in 1 .. n - 1,
                      IsNew(z, i, c), IsNew(z, j, c) \/ IsData(z, j, c)
               PROVE  i <= j
    BY <1>6
  <2>1. i + 1 \in 1 .. n /\ j + 1 \in 1 .. n /\ IsNew(q, i + 1, c)
    BY <1>2, <1>3
  <2>2. IsNew(q, j + 1, c) \/ IsData(q, j + 1, c)
    BY <1>3
  <2>3. i + 1 <= j + 1
    BY <1>6, <1>10, <2>1, <2>2
  <2> QED
    BY <1>1, <2>3
<1>11. ASSUME NewFirst(q, c), IsNew(q, 1, c) \/ IsData(q, 1, c) PROVE ~NewIn(z, c)
  <2> SUFFICES ASSUME NEW i \in 1 .. n - 1, IsNew(z, i, c) PROVE FALSE
    BY <1>4
  <2>1. i + 1 \in 1 .. n /\ IsNew(q, i + 1, c) /\ 1 \in 1 .. n
    BY <1>2, <1>3
  <2>2. i + 1 <= 1
    BY <1>6, <1>11, <2>1
  <2> QED
    BY <1>1, <2>2
<1>12. Readable(q) => Readable(z) /\ (Head(q).t = "data" => CliReadable(Head(q)))
  BY <1>1, <1>2, <1>5
<1>13. IsNew(q, 1, c) => NewIn(q, c)
  BY <1>2, <1>4
<1> QED
  BY <1>1, <1>3, <1>7, <1>8, <1>9, <1>10, <1>11, <1>12, <1>13 DEF z

(* ... which is the channel's next chunk, or not one of its chunks.         *)
LEMMA PendingShrinks ==
    ASSUME NEW q \in Seq(Frames), q # <<>>, NEW c \in Chan, NEW lo \in Nat, NEW hi \in Nat,
           Pending(q, c, lo, hi)
    PROVE  IF Head(q).t = "data" /\ Head(q).ch = c
           THEN Head(q).n = lo + 1 /\ lo + 1 <= hi /\ Pending(Tail(q), c, lo + 1, hi)
           ELSE Pending(Tail(q), c, lo, hi)
<1> DEFINE n == Len(q)
           z == Tail(q)
<1>1. /\ n \in Nat /\ n >= 1 /\ Len(z) = n - 1
      /\ Head(q) = q[1] /\ \A i \in 1 .. n - 1 : z[i] = q[i + 1]
  <2> HIDE DEF Frames
  <2> QED
    OBVIOUS
<1>2. /\ \A i \in 1 .. n - 1 : i + 1 \in 1 .. n /\ 1 < i + 1
      /\ \A i \in 1 .. n : i = 1 \/ (i - 1 \in 1 .. n - 1 /\ (i - 1) + 1 = i)
      /\ 1 \in 1 .. n
  BY <1>1
<1>3. /\ \A i \in 1 .. n - 1 : IsData(z, i, c) <=> IsData(q, i + 1, c)
      /\ IsData(q, 1, c) <=> Head(q).t = "data" /\ Head(q).ch = c
  BY <1>1 DEF IsData
<1>4. /\ \A i \in 1 .. n : IsData(q, i, c) => q[i].n \in lo + 1 .. hi
      /\ \A m \in lo + 1 .. hi : \E i \in 1 .. n : IsData(q, i, c) /\ q[i].n = m
      /\ \A i, j \in 1 .. n : i < j /\ IsData(q, i, c) /\ IsData(q, j, c) => q[i].n < q[j].n
  BY DEF Pending
<1>5. ASSUME NEW low,
             \A i \in 1 .. n - 1 : IsData(q, i + 1, c) => q[i + 1].n \in low + 1 .. hi,
             \A m \in low + 1 .. hi : \E i \in 1 .. n : i # 1 /\ IsData(q, i, c) /\ q[i].n = m
      PROVE  Pending(z, c, low, hi)
  <2> HIDE DEF n, z
  <2>1. \A i \in 1 .. n - 1 : IsData(z, i, c) => z[i].n \in low + 1 .. hi
    BY <1>1, <1>3, <1>5
  <2>2. ASSUME NEW m \in low + 1 .. hi PROVE \E i \in 1 .. n - 1 : IsData(z, i, c) /\ z[i].n = m
    <3>1. PICK i \in 1 .. n : i # 1 /\ IsData(q, i, c) /\ q[i].n = m
      BY <1>5
    <3>2. i - 1 \in 1 .. n - 1 /\ (i - 1) + 1 = i
      BY <1>2, <3>1
    <3>3. IsData(z, i - 1, c) /\ z[i - 1] = q[i]
      BY <1>1, <1>3, <3>1, <3>2
    <3> QED
      BY <3>1, <3>2, <3>3
  <2>3. ASSUME NEW i \in 1 .. n - 1, NEW j \in 1 .. n - 1, i < j, IsData(z, i, c), IsData(z, j, c)
        PROVE  z[i].n < z[j].n
    <3>1. i + 1 \in 1 .. n /\ j + 1 \in 1 .. n /\ i + 1 < j + 1
      BY <1>1, <2>3
    <3>2. IsData(q, i + 1, c) /\ IsData(q, j + 1, c) /\ z[i] = q[i + 1] /\ z[j] = q[j + 1]
      BY <1>1, <1>3, <2>3
    <3> QED
      BY <1>4, <3>1, <3>2
  <2> QED
    BY <1>1, <2>1, <2>2, <2>3 DEF Pending
<1> HIDE DEF n, z
<1>6. ASSUME IsData(q, 1, c)
      PROVE  q[1].n = lo + 1 /\ lo + 1 <= hi /\ Pending(z, c, lo + 1, hi)
  <2>1. q[1].n \in lo + 1 .. hi
    BY <1>2, <1>4, <1>6
  <2>2. \A i \in 1 .. n : i # 1 /\ IsData(q, i, c) => q[1].n < q[i].n
    <3>1. \A i \in 1 .. n : i # 1 => 1 < i
      BY <1>1
    <3> QED
      BY <1>2, <1>4, <1>6, <3>1
  <2>3. q[1].n = lo + 1
    <3>1. lo + 1 \in lo + 1 .. hi
      BY <2>1
    <3>2. PICK i \in 1 .. n : IsData(q, i, c) /\ q[i].n = lo + 1
      BY <1>4, <3>1
    <3> QED
      BY <2>1, <2>2, <3>2
  <2>4. ASSUME NEW i \in 1 .. n - 1, IsData(q, i + 1, c) PROVE q[i + 1].n \in (lo + 1) + 1 .. hi
    <3>1. i + 1 \in 1 .. n /\ i + 1 # 1
      BY <1>1
    <3>2. q[1].n < q[i + 1].n /\ q[i + 1].n \in lo + 1 .. hi
      BY <1>4, <2>2, <2>4, <3>1
    <3> QED
      BY <2>3, <3>2
  <2>5. ASSUME NEW m \in (lo + 1) + 1 .. hi
        PROVE  \E i \in 1 .. n : i # 1 /\ IsData(q, i, c) /\ q[i].n = m
    <3>1. m \in lo + 1 .. hi /\ m # lo + 1
      OBVIOUS
    <3>2. PICK i \in 1 .. n : IsData(q, i, c) /\ q[i].n = m
      BY <1>4, <3>1
    <3> QED
      BY <2>3, <3>1, <3>2
  <2> QED
    BY <1>5, <2>1, <2>3, <2>4, <2>5
<1>7. ASSUME ~IsData(q, 1, c) PROVE Pending(z, c, lo, hi)
  <2>1. \A i \in 1 .. n - 1 : IsData(q, i + 1, c) => q[i + 1].n \in lo + 1 .. hi
    BY <1>2, <1>4
  <2>2. ASSUME NEW m \in lo + 1 .. hi
        PROVE  \E i \in 1 .. n : i # 1 /\ IsData(q, i, c) /\ q[i].n = m
    BY <1>4, <1>7
  <2> QED
    BY <1>5, <2>1, <2>2
<1> QED
  BY <1>1, <1>3, <1>6, <1>7 DEF z

(* The same two facts when chunks may be missing.                           *)
LEMMA OrderedGrows ==
    ASSUME NEW q \in Seq(Frames), NEW f \in Frames, NEW c \in Chan, NEW lo \in Nat, NEW hi \in Nat,
           Ordered(q, c, lo, hi)
    PROVE  /\ Ordered(q, c, lo, hi + 1)
           /\ ~(f.t = "data" /\ f.ch = c) => Ordered(Append(q, f), c, lo, hi)
           /\ f.t = "data" /\ f.ch = c /\ f.n = hi + 1 /\ lo <= hi
                => Ordered(Append(q, f), c, lo, hi + 1)
<1> DEFINE n == Len(q)
           z == Append(q, f)
<1>1. /\ n \in Nat /\ Len(z) = n + 1 /\ z[n + 1] = f /\ \A i \in 1 .. n : z[i] = q[i]
  <2> HIDE DEF Frames
  <2> QED
    OBVIOUS
<1>2. \A i : i \in 1 .. n + 1 <=> i \in 1 .. n \/ i = n + 1
  BY <1>1
<1>3. /\ \A i \in 1 .. n : IsData(z, i, c) <=> IsData(q, i, c)
      /\ IsData(z, n + 1, c) <=> f.t = "data" /\ f.ch = c
  BY <1>1 DEF IsData
<1>4. /\ \A i \in 1 .. n : IsData(q, i, c) => q[i].n \in lo + 1 .. hi
      /\ \A i, j \in 1 .. n : i < j /\ IsData(q, i, c) /\ IsData(q, j, c) => q[i].n < q[j].n
  BY DEF Ordered
<1>5. ASSUME NEW top,
             /\ \A i \in 1 .. n + 1 : IsData(z, i, c) => z[i].n \in lo + 1 .. top
             /\ \A i, j \in 1 .. n + 1 :
                  i < j /\ IsData(z, i, c) /\ IsData(z, j, c) => z[i].n < z[j].n
      PROVE  Ordered(z, c, lo, top)
  BY <1>1, <1>5 DEF Ordered
<1>6. Ordered(q, c, lo, hi + 1)
  BY <1>4 DEF Ordered
<1> HIDE DEF n, z
<1>7. ASSUME ~(f.t = "data" /\ f.ch = c) PROVE Ordered(z, c, lo, hi)
  <2>1. \A i \in 1 .. n + 1 : IsData(z, i, c) => i \in 1 .. n
    BY <1>2, <1>3, <1>7
  <2>2. \A i \in 1 .. n + 1 : IsData(z, i, c) => z[i].n \in lo + 1 .. hi
    BY <1>1, <1>3, <1>4, <2>1
  <2>3. \A i, j \in 1 .. n + 1 : i < j /\ IsData(z, i, c) /\ IsData(z, j, c) => z[i].n < z[j].n
    BY <1>1, <1>3, <1>4, <2>1
  <2> QED
    BY <1>5, <2>2, <2>3
<1>8. ASSUME f.t = "data", f.ch = c, f.n = hi + 1, lo <= hi PROVE Ordered(z, c, lo, hi + 1)
  <2>1. \A i \in 1 .. n + 1 : IsData(z, i, c) => z[i].n \in lo + 1 .. hi + 1
    BY <1>1, <1>2, <1>3, <1>4, <1>8
  <2>2. ASSUME NEW i \in 1 .. n + 1, NEW j \in 1 .. n + 1, i < j, IsData(z, i, c), IsData(z, j, c)
        PROVE  z[i].n < z[j].n
    <3>1. i \in 1 .. n /\ IsData(q, i, c) /\ z[i] = q[i]
      BY <1>1, <1>2, <1>3, <2>2
    <3>2. CASE j = n + 1
      BY <1>1, <1>4, <1>8, <3>1, <3>2
    <3>3. CASE j \in 1 .. n
      BY <1>1, <1>3, <1>4, <2>2, <3>1, <3>3
    <3> QED
      BY <1>2, <3>2, <3>3
  <2> QED
    BY <1>5, <2>1, <2>2
<1> QED
  BY <1>6, <1>7, <1>8 DEF z

LEMMA OrderedShrinks ==
    ASSUME NEW q \in Seq(Frames), q # <<>>, NEW c \in Chan, NEW lo \in Nat, NEW hi \in Nat,
           Ordered(q, c, lo, hi)
    PROVE  /\ Ordered(Tail(q), c, lo, hi)
           /\ Head(q).t = "data" /\ Head(q).ch = c =>
                Head(q).n \in lo + 1 .. hi /\ Ordered(Tail(q), c, Head(q).n, hi)
<1> DEFINE n == Len(q)
           z == Tail(q)
<1>1. /\ n \in Nat /\ n >= 1 /\ Len(z) = n - 1
      /\ Head(q) = q[1] /\ \A i \in 1 .. n - 1 : z[i] = q[i + 1]
  <2> HIDE DEF Frames
  <2> QED
    OBVIOUS
<1>2. 1 \in 1 .. n /\ \A i \in 1 .. n - 1 : i + 1 \in 1 .. n /\ 1 < i + 1
  BY <1>1
<1>3. /\ \A i \in 1 .. n - 1 : IsData(z, i, c) <=> IsData(q, i + 1, c)
      /\ IsData(q, 1, c) <=> Head(q).t = "data" /\ Head(q).ch = c
  BY <1>1 DEF IsData
<1>4. /\ \A i \in 1 .. n : IsData(q, i, c) => q[i].n \in lo + 1 .. hi
      /\ \A i, j \in 1 .. n : i < j /\ IsData(q, i, c) /\ IsData(q, j, c) => q[i].n < q[j].n
  BY DEF Ordered
<1>5. ASSUME NEW low, \A i \in 1 .. n - 1 : IsData(q, i + 1, c) => q[i + 1].n \in low + 1 .. hi
      PROVE  Ordered(z, c, low, hi)
  <2> HIDE DEF n, z
  <2>1. \A i \in 1 .. n - 1 : IsData(z, i, c) => z[i].n \in low + 1 .. hi
    BY <1>1, <1>3, <1>5
  <2>2. ASSUME NEW i \in 1 .. n - 1, NEW j \in 1 .. n - 1, i < j, IsData(z, i, c), IsData(z, j, c)
        PROVE  z[i].n < z[j].n
    <3>1. i + 1 \in 1 .. n /\ j + 1 \in 1 .. n /\ i + 1 < j + 1
      BY <1>1, <2>2
    <3>2. IsData(q, i + 1, c) /\ IsData(q, j + 1, c) /\ z[i] = q[i + 1] /\ z[j] = q[j + 1]
      BY <1>1, <1>3, <2>2
    <3> QED
      BY <1>4, <3>1, <3>2
  <2> QED
    BY <1>1, <2>1, <2>2 DEF Ordered
<1> HIDE DEF n, z
<1>6. Ordered(z, c, lo, hi)
  BY <1>2, <1>4, <1>5
<1>7. ASSUME IsData(q, 1, c) PROVE q[1].n \in lo + 1 .. hi /\ Ordered(z, c, q[1].n, hi)
  <2>1. q[1].n \in lo + 1 .. hi
    BY <1>2, <1>4, <1>7
  <2>2. ASSUME NEW i \in 1 .. n - 1, IsData(q, i + 1, c) PROVE q[i + 1].n \in q[1].n + 1 .. hi
    <3>1. q[1].n < q[i + 1].n /\ q[i + 1].n \in lo + 1 .. hi
      BY <1>2, <1>4, <1>7, <2>2
    <3> QED
      BY <2>1, <3>1
  <2> QED
    BY <1>5, <2>1, <2>2
<1> QED
  BY <1>1, <1>3, <1>6, <1>7 DEF z

(* For either kind of channel: a frame is appended, ...                     *)
LEMMA FlowGrows ==
    ASSUME NEW q \in Seq(Frames), NEW f \in Frames, NEW c \in Chan, NEW lo \in Nat, NEW hi \in Nat,
           NEW gaps \in BOOLEAN, Flow(q, c, lo, hi, gaps)
    PROVE  /\ gaps => Flow(q, c, lo, hi + 1, gaps)
           /\ ~(f.t = "data" /\ f.ch = c) => Flow(Append(q, f), c, lo, hi, gaps)
           /\ f.t = "data" /\ f.ch = c /\ f.n = hi + 1 /\ lo <= hi
                => Flow(Append(q, f), c, lo, hi + 1, gaps)
<1>1. CASE gaps
  BY <1>1, OrderedGrows DEF Flow
<1>2. CASE ~gaps
  BY <1>2, PendingGrows DEF Flow
<1> QED
  BY <1>1, <1>2

(* ... and the first one is read; a channel with gaps may do without it.    *)
LEMMA FlowShrinks ==
    ASSUME NEW q \in Seq(Frames), q # <<>>, NEW c \in Chan, NEW lo \in Nat, NEW hi \in Nat,
           NEW gaps \in BOOLEAN, Flow(q, c, lo, hi, gaps)
    PROVE  IF Head(q).t = "data" /\ Head(q).ch = c
           THEN /\ Head(q).n \in lo + 1 .. hi /\ (~gaps => Head(q).n = lo + 1)
                /\ Flow(Tail(q), c, Head(q).n, hi, gaps)
                /\ gaps => Flow(Tail(q), c, lo, hi, gaps)
           ELSE Flow(Tail(q), c, lo, hi, gaps)
<1>1. CASE gaps
  BY <1>1, OrderedShrinks DEF Flow
<1>2. CASE ~gaps
  <2>1. IF Head(q).t = "data" /\ Head(q).ch = c
        THEN Head(q).n = lo + 1 /\ lo + 1 <= hi /\ Pending(Tail(q), c, lo + 1, hi)
        ELSE Pending(Tail(q), c, lo, hi)
    BY <1>2, PendingShrinks DEF Flow
  <2> QED
    BY <1>2, <2>1 DEF Flow
<1> QED
  BY <1>1, <1>2

(* A channel without frames has nothing in flight.                          *)
LEMMA NonePending ==
    ASSUME NEW q \in Seq(Frames), NEW c \in Chan, NoneOf(q, c), NEW k \in Nat, NEW gaps
    PROVE  ~NewIn(q, c) /\ NewFirst(q, c) /\ Flow(q, c, k, k, gaps)
BY DEF NoneOf, NewIn, NewFirst, Flow, Ordered, Pending, IsNew, IsData

(* The number of the last chunk that came out of a channel.                 *)
Top(s) == IF s = <<>> THEN 0 ELSE s[Len(s)]

LEMMA TopGrows ==
    ASSUME NEW s \in Seq(Nat), NEW n \in Nat
    PROVE  Top(s) \in Nat /\ Append(s, n) \in Seq(Nat) /\ Top(Append(s, n)) = n
BY DEF Top

-----------------------------------------------------------------------------
Types ==
    /\ s2c \in Seq(Frames) /\ c2s \in Seq(Frames)
    /\ link \in BOOLEAN /\ udpJam \in BOOLEAN /\ closeCh \in BOOLEAN
    /\ sRd \in {"read", "stuck", "swept", "done"} /\ late \subseteq Chan
    /\ kind \in [Chan -> {"none", "tcp", "udp"}] /\ sTab \subseteq Chan
    /\ cTab \subseteq Chan /\ infos \subseteq Chan
    /\ ext \in [Chan -> ExtStates] /\ local \in [Chan -> ConnStates]
    /\ sPipe \in [Chan -> SrvPipeStates] /\ cPipe \in [Chan -> PipeStates]
    /\ cRd \in {"read", "count", "ready", "done"} /\ cCh \in Chan \cup {NoChan}
    /\ cRd \in {"count", "ready"} => cCh \in Chan
    /\ extSent \in [Chan -> 0 .. MaxIn] /\ locSent \in [Chan -> 0 .. MaxOut]
    /\ locRcvd \in [Chan -> Seq(Nat)] /\ extRcvd \in [Chan -> Seq(Nat)]

(* What the two ends write are frames.                                      *)
LEMMA FramesWritten ==
    /\ \A c \in Chan : New(c) \in Frames /\ Ready(c) \in Frames /\ Close(c) \in Frames
    /\ \A c \in Chan, k \in Nat, z \in BOOLEAN :
          /\ Data(c, k, z) \in Frames /\ Data(c, k, z).t = "data" /\ Data(c, k, z).ch = c
          /\ Data(c, k, z).n = k /\ Data(c, k, z).z = z
    /\ \A c \in Chan : /\ New(c).t = "new" /\ New(c).ch = c
                       /\ Ready(c).t = "ready" /\ Ready(c).ch = c
                       /\ Close(c).t = "close" /\ Close(c).ch = c
    /\ \A f \in Frames : f.ch \in Chan /\ (f.t = "data" => f.n \in Nat)
    /\ SrvCompresses \subseteq BOOLEAN /\ CliCompresses \subseteq BOOLEAN
BY DEF New, Ready, Close, Data, Frames, SrvCompresses, CliCompresses

(* A queue stays a queue of frames when one is written or read.             *)
LEMMA QueueTypes ==
    /\ \A f \in Frames : s2c \in Seq(Frames) /\ ToClient(f) => s2c' \in Seq(Frames)
    /\ \A f \in Frames : c2s \in Seq(Frames) /\ ToServer(f) => c2s' \in Seq(Frames)
    /\ \A q \in Seq(Frames) : q # <<>> => Tail(q) \in Seq(Frames) /\ Head(q) \in Frames
<1> HIDE DEF Frames
<1>1. \A f \in Frames : s2c \in Seq(Frames) /\ ToClient(f) => s2c' \in Seq(Frames)
  BY DEF ToClient
<1>2. \A f \in Frames : c2s \in Seq(Frames) /\ ToServer(f) => c2s' \in Seq(Frames)
  BY DEF ToServer
<1>3. \A q \in Seq(Frames) : q # <<>> => Tail(q) \in Seq(Frames) /\ Head(q) \in Frames
  OBVIOUS
<1> QED
  BY <1>1, <1>2, <1>3

(* A chunk that came out of a channel.                                      *)
LEMMA ChunkTypes ==
    ASSUME NEW f \in [Chan -> Seq(Nat)], NEW d, NEW n \in Nat
    PROVE  [f EXCEPT ![d] = Append(@, n)] \in [Chan -> Seq(Nat)]
<1>1. \A e \in Chan : Append(f[e], n) \in Seq(Nat)
  OBVIOUS
<1> QED
  BY <1>1

(* Every variable but the count keeps its type.                             *)
LEMMA TypesStep == Types /\ [Next]_vars => Types'
<1> SUFFICES ASSUME Types, [Next]_vars PROVE Types'
  OBVIOUS
<1> USE DEF Types, srvVars, tabVars, cliVars, downVars, upVars, ConnStates, ExtStates,
            SrvPipeStates, PipeStates
<1>1. ASSUME NEW c \in Chan, SrvAccept(c) \/ SrvRefuse(c) \/ SrvAnnounceFails(c) PROVE Types'
  <2>1. CASE SrvAccept(c)
    BY <2>1 DEF SrvAccept
  <2>2. CASE SrvRefuse(c)
    BY <2>2 DEF SrvRefuse
  <2>3. CASE SrvAnnounceFails(c)
    BY <2>3 DEF SrvAnnounceFails
  <2> QED
    BY <1>1, <2>1, <2>2, <2>3
<1>2. ASSUME NEW c \in Chan, SrvAnnounce(c) \/ SrvSession(c) PROVE Types'
  <2>1. s2c' \in Seq(Frames)
    BY <1>2, FramesWritten, QueueTypes DEF SrvAnnounce, SrvSession
  <2>2. CASE SrvAnnounce(c)
    BY <2>1, <2>2 DEF SrvAnnounce
  <2>3. CASE SrvSession(c)
    BY <2>1, <2>3 DEF SrvSession
  <2> QED
    BY <1>2, <2>2, <2>3
<1>3. ASSUME NEW c \in Chan, SrvForward(c) \/ SrvSkip(c) PROVE Types'
  <2>1. extSent[c] + 1 \in 0 .. MaxIn
    BY <1>3, TunnelAssumption DEF SrvForward, SrvSkip, SrvReceives
  <2>2. s2c' \in Seq(Frames)
    <3>1. CASE SrvSkip(c)
      BY <3>1 DEF SrvSkip
    <3>2. CASE SrvForward(c)
      <4>1. PICK z \in SrvCompresses : ToClient(Data(c, extSent[c] + 1, z))
        BY <3>2 DEF SrvForward
      <4> QED
        BY <2>1, <4>1, FramesWritten, QueueTypes
    <3> QED
      BY <1>3, <3>1, <3>2
  <2>3. extSent' \in [Chan -> 0 .. MaxIn]
    BY <1>3, <2>1 DEF SrvForward, SrvSkip, SrvReceives
  <2>4. CASE SrvForward(c)
    BY <2>2, <2>3, <2>4 DEF SrvForward
  <2>5. CASE SrvSkip(c)
    BY <2>2, <2>3, <2>5 DEF SrvSkip
  <2> QED
    BY <1>3, <2>4, <2>5
<1>4. ASSUME NEW c \in Chan, ExtHangup(c) \/ SrvPluginCloses(c) \/ SrvPluginCuts(c) PROVE Types'
  <2>1. CASE ExtHangup(c)
    BY <2>1 DEF ExtHangup
  <2>2. CASE SrvPluginCloses(c)
    BY <2>2 DEF SrvPluginCloses
  <2>3. CASE SrvPluginCuts(c)
    BY <2>3 DEF SrvPluginCuts
  <2> QED
    BY <1>4, <2>1, <2>2, <2>3
<1>5. ASSUME NEW c \in Chan, SrvPipeEnds(c) \/ SrvExpire(c) PROVE Types'
  <2>1. s2c' \in Seq(Frames)
    BY <1>5, FramesWritten, QueueTypes DEF SrvPipeEnds, SrvExpire
  <2>2. CASE SrvPipeEnds(c)
    BY <2>1, <2>2 DEF SrvPipeEnds
  <2>3. CASE SrvExpire(c)
    BY <2>1, <2>3 DEF SrvExpire
  <2> QED
    BY <1>5, <2>2, <2>3
<1>6. CASE SrvData
  <2>1. c2s' \in Seq(Frames) /\ Head(c2s).n \in Nat
    BY <1>6, FramesWritten, QueueTypes DEF SrvData, SrvFrame
  <2>2. PICK d : extRcvd' = extRcvd \/ extRcvd' = [extRcvd EXCEPT ![d] = Append(@, Head(c2s).n)]
    BY <1>6 DEF SrvData
  <2>3. [extRcvd EXCEPT ![d] = Append(@, Head(c2s).n)] \in [Chan -> Seq(Nat)]
    BY <2>1, ChunkTypes
  <2>4. extRcvd' \in [Chan -> Seq(Nat)]
    BY <2>2, <2>3
  <2>5. sRd' \in {"read", "stuck"}
    BY <1>6 DEF SrvData
  <2> QED
    BY <1>6, <2>1, <2>4, <2>5 DEF SrvData
<1>7. CASE SrvClose
  <2>1. c2s' \in Seq(Frames)
    BY <1>7, QueueTypes DEF SrvClose, SrvFrame
  <2>2. ext' \in [Chan -> ExtStates] /\ sTab' \subseteq Chan /\ sRd' \in {"read", "stuck"}
    BY <1>7 DEF SrvClose
  <2> QED
    BY <1>7, <2>1, <2>2 DEF SrvClose
<1>8. CASE SrvReady
  BY <1>8, QueueTypes DEF SrvReady, SrvFrame
<1>9. CASE SrvTeardown \/ SrvHangsUp \/ SrvRefuseSession
  <2>1. ext' \in [Chan -> ExtStates] /\ sTab' \subseteq Chan
    BY <1>9 DEF SrvTeardown, SrvHangsUp, SrvRefuseSession
  <2>2. sRd' \in {"read", "stuck", "swept", "done"} /\ udpJam' \in BOOLEAN
    BY <1>9 DEF SrvTeardown, SrvHangsUp, SrvRefuseSession
  <2> QED
    BY <1>9, <2>1, <2>2 DEF SrvTeardown, SrvHangsUp, SrvRefuseSession
<1>10. CASE CliDialFails
  <2>1. s2c' \in Seq(Frames) /\ Head(s2c).ch \in Chan
    BY <1>10, FramesWritten, QueueTypes DEF CliDialFails, CliFrame
  <2>2. c2s' \in Seq(Frames)
    BY <1>10, <2>1, FramesWritten, QueueTypes DEF CliDialFails
  <2> QED
    BY <1>10, <2>1, <2>2 DEF CliDialFails
<1>11. CASE CliDial
  <2>1. s2c' \in Seq(Frames) /\ cCh' \in Chan
    BY <1>11, FramesWritten, QueueTypes DEF CliDial, CliFrame
  <2> QED
    BY <1>11, <2>1 DEF CliDial
<1>12. CASE CliCount
  BY <1>12 DEF CliCount
<1>13. CASE CliReady
  <2>1. c2s' \in Seq(Frames)
    BY <1>13, FramesWritten, QueueTypes DEF CliReady
  <2>2. cPipe' \in [Chan -> PipeStates]
    BY <1>13 DEF CliReady
  <2> QED
    BY <1>13, <2>1, <2>2 DEF CliReady
<1>14. CASE CliData
  <2>1. s2c' \in Seq(Frames) /\ Head(s2c).n \in Nat
    BY <1>14, FramesWritten, QueueTypes DEF CliData, CliFrame
  <2>2. PICK d : locRcvd' = locRcvd \/ locRcvd' = [locRcvd EXCEPT ![d] = Append(@, Head(s2c).n)]
    BY <1>14 DEF CliData
  <2>3. [locRcvd EXCEPT ![d] = Append(@, Head(s2c).n)] \in [Chan -> Seq(Nat)]
    BY <2>1, ChunkTypes
  <2>4. locRcvd' \in [Chan -> Seq(Nat)]
    BY <2>2, <2>3
  <2> QED
    BY <1>14, <2>1, <2>4 DEF CliData
<1>15. CASE CliClose
  <2>1. s2c' \in Seq(Frames)
    BY <1>15, QueueTypes DEF CliClose, CliFrame
  <2>2. local' \in [Chan -> ConnStates]
    BY <1>15 DEF CliClose
  <2> QED
    BY <1>15, <2>1, <2>2 DEF CliClose, CliForget
<1>16. CASE CliLoopEnds \/ CliStop \/ LinkDrops
  BY <1>16 DEF CliLoopEnds, CliStop, LinkDrops
<1>17. ASSUME NEW c \in Chan, LocalHangup(c) PROVE Types'
  BY <1>17 DEF LocalHangup
<1>18. ASSUME NEW c \in Chan, CliForward(c) PROVE Types'
  <2>1. locSent[c] + 1 \in 0 .. MaxOut
    BY <1>18, TunnelAssumption DEF CliForward
  <2>2. PICK z \in CliCompresses : ToServer(Data(c, locSent[c] + 1, z))
    BY <1>18 DEF CliForward
  <2>3. c2s' \in Seq(Frames)
    BY <2>1, <2>2, FramesWritten, QueueTypes
  <2> QED
    BY <1>18, <2>1, <2>3 DEF CliForward
<1>19. ASSUME NEW c \in Chan, CliPipeEnds(c) PROVE Types'
  <2>1. c2s' \in Seq(Frames)
    BY <1>19, FramesWritten, QueueTypes DEF CliPipeEnds
  <2> QED
    BY <1>19, <2>1 DEF CliPipeEnds
<1>20. ASSUME NEW c \in Chan, CliPipeForgets(c) PROVE Types'
  BY <1>20 DEF CliPipeForgets, CliForget
<1>21. CASE UNCHANGED vars
  BY <1>21 DEF vars
<1> QED
  BY <1>1, <1>2, <1>3, <1>4, <1>5, <1>6, <1>7, <1>8, <1>9, <1>10, <1>11, <1>12, <1>13,
     <1>14, <1>15, <1>16, <1>17, <1>18, <1>19, <1>20, <1>21
  DEF Next, SrvNext, SrvRead, CliRead, CliNext

-----------------------------------------------------------------------------
(* The life of a channel id: nothing of it exists before it is handed out,  *)
(* nobody but the server knows of it before it is announced, it is          *)
(* announced once, and only readLoop sets it up.                            *)
SettingUp == cRd \in {"count", "ready"}

Untold(c) == kind[c] = "none" \/ sPipe[c] = "opening"

Quiet(c) ==
    /\ NoneOf(s2c, c) /\ NoneOf(c2s, c)
    /\ c \notin cTab /\ cPipe[c] = "none" /\ (SettingUp => cCh # c)
    /\ extSent[c] = 0 /\ locSent[c] = 0 /\ locRcvd[c] = <<>> /\ extRcvd[c] = <<>>

UnusedIsEmpty ==
    \A c \in Chan : /\ kind[c] = "none" => /\ c \notin sTab /\ ext[c] = "none"
                                           /\ sPipe[c] = "none"
                    /\ sPipe[c] = "opening" => kind[c] = "tcp"

UntoldIsQuiet == \A c \in Chan : Untold(c) => Quiet(c)

AnnouncedOnce ==
    \A c \in Chan :
        /\ NewFirst(s2c, c)
        /\ NewIn(s2c, c) => c \notin cTab /\ cPipe[c] = "none" /\ (SettingUp => cCh # c)

SetUpAlone == SettingUp => cCh \in cTab /\ cPipe[cCh] = "none"

LifeInv == UnusedIsEmpty /\ UntoldIsQuiet /\ AnnouncedOnce /\ SetUpAlone

(* The server's steps that write no frame.                                  *)
SrvKeepsQueues(c) ==
    \/ SrvAccept(c) \/ SrvRefuse(c) \/ SrvAnnounceFails(c) \/ SrvSkip(c)
    \/ ExtHangup(c) \/ SrvPluginCloses(c) \/ SrvPluginCuts(c)

(* What is written to a queue, for the channels.                            *)
LEMMA Written ==
    ASSUME NEW f \in Frames, NEW c \in Chan, Types
    PROVE  /\ ToClient(f) =>
                /\ NoneOf(s2c, c) /\ f.ch # c => NoneOf(s2c', c)
                /\ NewIn(s2c', c) => NewIn(s2c, c) \/ (f.t = "new" /\ f.ch = c)
                /\ NewFirst(s2c, c) /\ (f.t = "new" /\ f.ch = c => NoneOf(s2c, c))
                     => NewFirst(s2c', c)
           /\ ToServer(f) => (NoneOf(c2s, c) /\ f.ch # c => NoneOf(c2s', c))
<1>1. s2c \in Seq(Frames) /\ c2s \in Seq(Frames)
  BY DEF Types
<1>2. ToClient(f) => s2c' = s2c \/ s2c' = Append(s2c, f)
  BY DEF ToClient
<1>3. ToServer(f) => c2s' = c2s \/ c2s' = Append(c2s, f)
  BY DEF ToServer
<1>4. ToClient(f) =>
        /\ NoneOf(s2c, c) /\ f.ch # c => NoneOf(s2c', c)
        /\ NewIn(s2c', c) => NewIn(s2c, c) \/ (f.t = "new" /\ f.ch = c)
        /\ NewFirst(s2c, c) /\ (f.t = "new" /\ f.ch = c => NoneOf(s2c, c))
             => NewFirst(s2c', c)
  <2>1. CASE s2c' = s2c
    BY <2>1
  <2>2. CASE s2c' = Append(s2c, f)
    BY <1>1, <2>2, QueueGrows
  <2> QED
    BY <1>2, <2>1, <2>2
<1>5. ToServer(f) => (NoneOf(c2s, c) /\ f.ch # c => NoneOf(c2s', c))
  <2>1. CASE c2s' = c2s
    BY <2>1
  <2>2. CASE c2s' = Append(c2s, f)
    BY <1>1, <2>2, QueueGrows
  <2> QED
    BY <1>3, <2>1, <2>2
<1> QED
  BY <1>4, <1>5

(* A channel keeps its kind, and a UDP channel is one from its session on.  *)
LEMMA KindStep ==
    ASSUME Types, LifeInv, [Next]_vars, NEW c \in Chan
    PROVE  /\ kind'[c] = kind[c] \/ (kind[c] = "none" /\ (SrvAccept(c) \/ SrvSession(c)))
           /\ Untold(c)' => Untold(c)
           /\ (kind[c] = "none" => c \notin sTab /\ ext[c] = "none" /\ sPipe[c] = "none")'
           /\ (sPipe[c] = "opening" => kind[c] = "tcp")'
<1> USE DEF Types, srvVars, tabVars, cliVars, downVars, upVars
<1>1. /\ kind[c] = "none" => c \notin sTab /\ ext[c] = "none" /\ sPipe[c] = "none"
      /\ sPipe[c] = "opening" => kind[c] = "tcp"
  BY DEF LifeInv, UnusedIsEmpty
<1> DEFINE Goal ==
      /\ kind'[c] = kind[c] \/ (kind[c] = "none" /\ (SrvAccept(c) \/ SrvSession(c)))
      /\ Untold(c)' => Untold(c)
      /\ (kind[c] = "none" => c \notin sTab /\ ext[c] = "none" /\ sPipe[c] = "none")'
      /\ (sPipe[c] = "opening" => kind[c] = "tcp")'
<1> SUFFICES Goal
  OBVIOUS
<1>2. ASSUME NEW d \in Chan, SrvAccept(d) PROVE Goal
  <2>1. CASE d = c
    BY <1>1, <1>2, <2>1 DEF SrvAccept, Untold
  <2>2. CASE d # c
    BY <1>1, <1>2, <2>2 DEF SrvAccept, Untold
  <2> QED
    BY <2>1, <2>2
<1>3. ASSUME NEW d \in Chan, SrvSession(d) PROVE Goal
  <2>1. CASE d = c
    BY <1>1, <1>3, <2>1 DEF SrvSession, Untold
  <2>2. CASE d # c
    BY <1>1, <1>3, <2>2 DEF SrvSession, Untold
  <2> QED
    BY <2>1, <2>2
<1>4. ASSUME UNCHANGED kind, sTab' \subseteq sTab,
             kind[c] = "none" => ext'[c] = ext[c] /\ sPipe'[c] = sPipe[c],
             sPipe'[c] = "opening" => sPipe[c] = "opening"
      PROVE  Goal
  BY <1>1, <1>4 DEF Untold
<1> HIDE DEF Goal
<1>5. ASSUME NEW d \in Chan, SrvRefuse(d) \/ SrvAnnounce(d) \/ SrvAnnounceFails(d) PROVE Goal
  <2>1. d = c => kind[c] # "none"
    BY <1>1, <1>5 DEF SrvRefuse, SrvAnnounce, SrvAnnounceFails
  <2> QED
    BY <1>4, <1>5, <2>1 DEF SrvRefuse, SrvAnnounce, SrvAnnounceFails
<1>6. ASSUME NEW d \in Chan, SrvForward(d) \/ SrvSkip(d) PROVE Goal
  BY <1>4, <1>6 DEF SrvForward, SrvSkip
<1>7. ASSUME NEW d \in Chan, ExtHangup(d) \/ SrvPluginCloses(d) \/ SrvPluginCuts(d) PROVE Goal
  <2>1. d = c => kind[c] # "none"
    BY <1>1, <1>7 DEF ExtHangup, SrvPluginCloses, SrvPluginCuts
  <2>2. UNCHANGED kind /\ sTab' \subseteq sTab /\ (d # c => ext'[c] = ext[c])
    BY <1>7 DEF ExtHangup, SrvPluginCloses, SrvPluginCuts
  <2>3. (d # c => sPipe'[c] = sPipe[c]) /\ (sPipe'[c] = "opening" => sPipe[c] = "opening")
    BY <1>7 DEF ExtHangup, SrvPluginCloses, SrvPluginCuts
  <2> QED
    BY <1>4, <2>1, <2>2, <2>3
<1>8. ASSUME NEW d \in Chan, SrvPipeEnds(d) \/ SrvExpire(d) PROVE Goal
  <2>1. d = c => kind[c] # "none"
    BY <1>1, <1>8 DEF SrvPipeEnds, SrvExpire
  <2> QED
    BY <1>4, <1>8, <2>1 DEF SrvPipeEnds, SrvExpire
<1>9. CASE SrvData \/ SrvReady \/ SrvHangsUp \/ SrvRefuseSession
  BY <1>4, <1>9 DEF SrvData, SrvReady, SrvHangsUp, SrvRefuseSession
<1>10. CASE SrvClose \/ SrvTeardown
  <2>1. c \in Reachable => kind[c] # "none"
    BY <1>1 DEF Reachable
  <2>2. c \notin Reachable => ext'[c] = ext[c]
    BY <1>10 DEF SrvClose, SrvTeardown
  <2> QED
    BY <1>4, <1>10, <2>1, <2>2 DEF SrvClose, SrvTeardown
<1>11. CASE CliRead \/ CliStop \/ LinkDrops
  <2>1. UNCHANGED srvVars
    BY <1>11
    DEF CliRead, CliDialFails, CliDial, CliCount, CliReady, CliData, CliClose, CliLoopEnds,
        CliStop, LinkDrops
  <2> QED
    BY <1>4, <2>1
<1>12. ASSUME NEW d \in Chan, CliNext(d) PROVE Goal
  <2>1. UNCHANGED srvVars
    BY <1>12 DEF CliNext, LocalHangup, CliForward, CliPipeEnds, CliPipeForgets
  <2> QED
    BY <1>4, <2>1
<1>13. CASE UNCHANGED vars
  BY <1>4, <1>13 DEF vars
<1> QED
  BY <1>2, <1>3, <1>5, <1>6, <1>7, <1>8, <1>9, <1>10, <1>11, <1>12, <1>13
  DEF Next, SrvNext, SrvRead

(* Nobody but the server knows of a channel that is not announced.          *)
LEMMA UntoldStep ==
    Types /\ LifeInv /\ [Next]_vars => UntoldIsQuiet'
<1> SUFFICES ASSUME Types, LifeInv, [Next]_vars, NEW c \in Chan, Untold(c)'
             PROVE  Quiet(c)'
  BY DEF UntoldIsQuiet
<1>w. \A d \in Chan : d # c =>
          /\ NoneOf(s2c, c) /\ (\/ ToClient(New(d)) \/ ToClient(Close(d))
                                \/ \E k \in Nat, z \in BOOLEAN : ToClient(Data(d, k, z)))
               => NoneOf(s2c', c)
          /\ NoneOf(c2s, c) /\ (\/ ToServer(Ready(d)) \/ ToServer(Close(d))
                                \/ \E k \in Nat, z \in BOOLEAN : ToServer(Data(d, k, z)))
               => NoneOf(c2s', c)
  <2>1. \A f \in Frames : f.ch # c =>
            /\ ToClient(f) /\ NoneOf(s2c, c) => NoneOf(s2c', c)
            /\ ToServer(f) /\ NoneOf(c2s, c) => NoneOf(c2s', c)
    BY Written
  <2> QED
    BY <2>1, FramesWritten
<1>1. /\ Untold(c) /\ Quiet(c)
      /\ kind[c] = "none" => c \notin sTab /\ ext[c] = "none" /\ sPipe[c] = "none"
      /\ sPipe[c] = "opening" => kind[c] = "tcp"
  BY KindStep DEF LifeInv, UntoldIsQuiet, UnusedIsEmpty
<1> USE DEF Types, srvVars, tabVars, cliVars, downVars, upVars, SettingUp
<1>2. ASSUME NEW d \in Chan,
             \/ SrvAccept(d) \/ SrvRefuse(d) \/ SrvAnnounceFails(d)
             \/ ExtHangup(d) \/ SrvPluginCloses(d) \/ SrvPluginCuts(d)
      PROVE  Quiet(c)'
  BY <1>1, <1>2
  DEF SrvAccept, SrvRefuse, SrvAnnounceFails, ExtHangup, SrvPluginCloses, SrvPluginCuts, Quiet
<1>3. ASSUME NEW d \in Chan, SrvAnnounce(d) \/ SrvSession(d) PROVE Quiet(c)'
  <2>1. d # c
    BY <1>1, <1>3 DEF SrvAnnounce, SrvSession, Untold
  <2>2. NoneOf(s2c', c)
    BY <1>1, <1>3, <2>1, <1>w DEF SrvAnnounce, SrvSession, Quiet
  <2> QED
    BY <1>1, <1>3, <2>2 DEF SrvAnnounce, SrvSession, Quiet
<1>4. ASSUME NEW d \in Chan, SrvForward(d) \/ SrvSkip(d) PROVE Quiet(c)'
  <2>1. d # c
    BY <1>1, <1>4 DEF SrvForward, SrvSkip, SrvReceives, Untold, Udp
  <2>2. NoneOf(s2c', c)
    <3>1. CASE SrvSkip(d)
      BY <1>1, <3>1 DEF SrvSkip, Quiet
    <3>2. CASE SrvForward(d)
      <4>1. PICK z \in SrvCompresses : ToClient(Data(d, extSent[d] + 1, z))
        BY <3>2 DEF SrvForward
      <4> QED
        BY <1>1, <2>1, <4>1, <1>w, FramesWritten DEF Quiet
    <3> QED
      BY <1>4, <3>1, <3>2
  <2>3. extSent'[c] = extSent[c]
    BY <1>4, <2>1 DEF SrvForward, SrvSkip, SrvReceives
  <2> QED
    BY <1>1, <1>4, <2>2, <2>3 DEF SrvForward, SrvSkip, Quiet
<1>5. ASSUME NEW d \in Chan, SrvPipeEnds(d) \/ SrvExpire(d) PROVE Quiet(c)'
  <2>1. d # c
    BY <1>1, <1>5 DEF SrvPipeEnds, SrvExpire, Untold, Udp
  <2>2. NoneOf(s2c', c)
    BY <1>1, <1>5, <2>1, <1>w DEF SrvPipeEnds, SrvExpire, Quiet
  <2> QED
    BY <1>1, <1>5, <2>2 DEF SrvPipeEnds, SrvExpire, Quiet
<1>6. CASE SrvData \/ SrvClose \/ SrvReady
  <2>1. c2s # <<>> /\ c2s' = Tail(c2s)
    BY <1>6 DEF SrvData, SrvClose, SrvReady, SrvFrame
  <2>2. NoneOf(c2s', c) /\ Head(c2s).ch # c
    BY <1>1, <2>1, QueueShrinks DEF Quiet
  <2>3. extRcvd'[c] = extRcvd[c]
    BY <1>6, <2>2 DEF SrvData, SrvClose, SrvReady
  <2> QED
    BY <1>1, <1>6, <2>2, <2>3 DEF SrvData, SrvClose, SrvReady, Quiet
<1>7. CASE SrvTeardown \/ SrvHangsUp \/ SrvRefuseSession
  BY <1>1, <1>7 DEF SrvTeardown, SrvHangsUp, SrvRefuseSession, Quiet
<1>8. ASSUME CliFrame("new") \/ CliFrame("data") \/ CliFrame("close"), s2c' = Tail(s2c)
      PROVE  NoneOf(s2c', c) /\ Head(s2c).ch # c /\ Head(s2c).ch \in Chan
  <2>1. s2c # <<>>
    BY <1>8 DEF CliFrame
  <2> QED
    BY <1>1, <1>8, <2>1, QueueShrinks, FramesWritten DEF Quiet
<1>9. CASE CliDialFails
  <2>1. CliFrame("new") /\ s2c' = Tail(s2c)
    BY <1>9 DEF CliDialFails
  <2>2. NoneOf(c2s', c)
    BY <1>1, <1>8, <1>9, <2>1, <1>w, FramesWritten DEF CliDialFails, Quiet
  <2> QED
    BY <1>1, <1>8, <1>9, <2>1, <2>2 DEF CliDialFails, Quiet
<1>10. CASE CliDial
  <2>1. CliFrame("new") /\ s2c' = Tail(s2c)
    BY <1>10 DEF CliDial
  <2> QED
    BY <1>1, <1>8, <1>10, <2>1 DEF CliDial, Quiet
<1>11. CASE CliCount
  BY <1>1, <1>11 DEF CliCount, Quiet
<1>12. CASE CliReady
  <2>1. cCh # c /\ cCh \in Chan
    BY <1>1, <1>12 DEF CliReady, Quiet
  <2>2. NoneOf(c2s', c)
    BY <1>1, <1>12, <2>1, <1>w, FramesWritten DEF CliReady, Quiet
  <2>3. cPipe'[c] = "none"
    BY <1>1, <1>12, <2>1 DEF CliReady, Quiet
  <2> QED
    BY <1>1, <1>12, <2>1, <2>2, <2>3 DEF CliReady, Quiet
<1>13. CASE CliData
  <2>1. CliFrame("data") /\ s2c' = Tail(s2c)
    BY <1>13 DEF CliData
  <2>2. locRcvd'[c] = locRcvd[c]
    BY <1>8, <1>13, <2>1 DEF CliData
  <2> QED
    BY <1>1, <1>8, <1>13, <2>1, <2>2 DEF CliData, Quiet
<1>14. CASE CliClose
  <2>1. CliFrame("close") /\ s2c' = Tail(s2c)
    BY <1>14 DEF CliClose
  <2> QED
    BY <1>1, <1>8, <1>14, <2>1 DEF CliClose, CliForget, Quiet
<1>15. CASE CliLoopEnds \/ CliStop \/ LinkDrops
  BY <1>1, <1>15 DEF CliLoopEnds, CliStop, LinkDrops, Quiet
<1>16. ASSUME NEW d \in Chan, LocalHangup(d) PROVE Quiet(c)'
  BY <1>1, <1>16 DEF LocalHangup, Quiet
<1>17. ASSUME NEW d \in Chan, CliForward(d) PROVE Quiet(c)'
  <2>1. d # c
    BY <1>1, <1>17 DEF CliForward, Quiet
  <2>2. PICK z \in CliCompresses : ToServer(Data(d, locSent[d] + 1, z))
    BY <1>17 DEF CliForward
  <2>3. NoneOf(c2s', c)
    BY <1>1, <2>1, <2>2, <1>w, FramesWritten DEF Quiet
  <2> QED
    BY <1>1, <1>17, <2>1, <2>3 DEF CliForward, Quiet
<1>18. ASSUME NEW d \in Chan, CliPipeEnds(d) PROVE Quiet(c)'
  <2>1. d # c
    BY <1>1, <1>18 DEF CliPipeEnds, Quiet
  <2>2. NoneOf(c2s', c)
    BY <1>1, <1>18, <2>1, <1>w, FramesWritten DEF CliPipeEnds, Quiet
  <2> QED
    BY <1>1, <1>18, <2>1, <2>2 DEF CliPipeEnds, Quiet
<1>19. ASSUME NEW d \in Chan, CliPipeForgets(d) PROVE Quiet(c)'
  BY <1>1, <1>19 DEF CliPipeForgets, CliForget, Quiet
<1>20. CASE UNCHANGED vars
  BY <1>1, <1>20 DEF vars, Quiet
<1> QED
  BY <1>2, <1>3, <1>4, <1>5, <1>6, <1>7, <1>9, <1>10, <1>11, <1>12, <1>13,
     <1>14, <1>15, <1>16, <1>17, <1>18, <1>19, <1>20
  DEF Next, SrvNext, SrvRead, CliRead, CliNext

(* A channel is announced once, and nothing of it is at the client before.  *)
LEMMA AnnouncedStep ==
    Types /\ LifeInv /\ [Next]_vars => AnnouncedOnce'
<1> SUFFICES ASSUME Types, LifeInv, [Next]_vars, NEW c \in Chan
             PROVE  /\ NewFirst(s2c', c)
                    /\ NewIn(s2c', c) => /\ c \notin cTab' /\ cPipe'[c] = "none"
                                         /\ SettingUp' => cCh' # c
  BY DEF AnnouncedOnce
<1> DEFINE Kept == NewFirst(s2c', c) /\ (NewIn(s2c', c) => NewIn(s2c, c))
           Goal == /\ NewFirst(s2c', c)
                   /\ NewIn(s2c', c) => /\ c \notin cTab' /\ cPipe'[c] = "none"
                                        /\ SettingUp' => cCh' # c
<1> SUFFICES Goal
  OBVIOUS
<1>1. /\ NewFirst(s2c, c)
      /\ NewIn(s2c, c) => c \notin cTab /\ cPipe[c] = "none" /\ (SettingUp => cCh # c)
      /\ Untold(c) =>
           /\ NoneOf(s2c, c) /\ c \notin cTab /\ cPipe[c] = "none"
           /\ SettingUp => cCh # c
  BY DEF LifeInv, AnnouncedOnce, UntoldIsQuiet, Quiet
<1>2. /\ \A d \in Chan :
           /\ ToClient(Close(d)) => Kept
           /\ \A k \in Nat, z \in BOOLEAN : ToClient(Data(d, k, z)) => Kept
           /\ ToClient(New(d)) /\ d # c => Kept
           /\ ToClient(New(d)) /\ NoneOf(s2c, c) => NewFirst(s2c', c)
      /\ s2c # <<>> /\ s2c' = Tail(s2c) =>
           /\ Kept /\ Head(s2c).ch \in Chan
           /\ Head(s2c).t = "new" /\ Head(s2c).ch = c => ~NewIn(s2c', c)
      /\ s2c' = s2c => Kept
  <2>1. \A f \in Frames : ToClient(f) =>
            /\ ~(f.t = "new" /\ f.ch = c) => Kept
            /\ NoneOf(s2c, c) => NewFirst(s2c', c)
    BY <1>1, Written
  <2>2. \A d \in Chan :
           /\ ToClient(Close(d)) => Kept
           /\ \A k \in Nat, z \in BOOLEAN : ToClient(Data(d, k, z)) => Kept
           /\ ToClient(New(d)) /\ d # c => Kept
           /\ ToClient(New(d)) /\ NoneOf(s2c, c) => NewFirst(s2c', c)
    <3> HIDE DEF Kept
    <3> QED
      BY <2>1, FramesWritten
  <2>3. s2c # <<>> /\ s2c' = Tail(s2c) =>
           /\ Kept /\ Head(s2c).ch \in Chan
           /\ Head(s2c).t = "new" /\ Head(s2c).ch = c => ~NewIn(s2c', c)
    <3> SUFFICES ASSUME s2c # <<>>, s2c' = Tail(s2c)
                 PROVE  /\ Kept /\ Head(s2c).ch \in Chan
                        /\ Head(s2c).t = "new" /\ Head(s2c).ch = c => ~NewIn(s2c', c)
      OBVIOUS
    <3>1. s2c \in Seq(Frames)
      BY DEF Types
    <3>2. /\ Head(s2c) \in Frames /\ NewFirst(Tail(s2c), c)
          /\ NewIn(Tail(s2c), c) => NewIn(s2c, c)
          /\ Head(s2c).t = "new" /\ Head(s2c).ch = c => ~NewIn(Tail(s2c), c)
      BY <1>1, <3>1, QueueShrinks
    <3> QED
      BY <3>2, FramesWritten
  <2>4. s2c' = s2c => Kept
    BY <1>1
  <2> HIDE DEF Kept
  <2> QED
    BY <2>2, <2>3, <2>4
<1>3. ASSUME Kept, cTab' \subseteq cTab, cPipe[c] = "none" => cPipe'[c] = "none",
             SettingUp' /\ cCh' = c => SettingUp /\ cCh = c
      PROVE  Goal
  BY <1>1, <1>3
<1> HIDE DEF Kept, Goal
<1> USE DEF Types, srvVars, tabVars, cliVars, downVars, upVars, SettingUp
<1>4. ASSUME NEW d \in Chan, SrvAnnounce(d) \/ SrvSession(d) PROVE Goal
  <2>1. CASE d = c
    BY <1>1, <1>2, <1>4, <2>1 DEF SrvAnnounce, SrvSession, Untold, Goal
  <2>2. CASE d # c
    BY <1>2, <1>3, <1>4, <2>2 DEF SrvAnnounce, SrvSession
  <2> QED
    BY <2>1, <2>2
<1>5. ASSUME NEW d \in Chan, SrvForward(d) PROVE Goal
  <2>1. PICK z \in SrvCompresses : ToClient(Data(d, extSent[d] + 1, z))
    BY <1>5 DEF SrvForward
  <2>2. Kept
    BY <1>2, <2>1, FramesWritten
  <2> QED
    BY <1>3, <1>5, <2>2 DEF SrvForward
<1>6. ASSUME NEW d \in Chan, LocalHangup(d) \/ CliForward(d) \/ SrvKeepsQueues(d) PROVE Goal
  BY <1>2, <1>3, <1>6 DEF LocalHangup, CliForward, SrvKeepsQueues, SrvAccept, SrvRefuse,
     SrvAnnounceFails, SrvSkip, ExtHangup, SrvPluginCloses, SrvPluginCuts
<1>7. ASSUME NEW d \in Chan, SrvPipeEnds(d) \/ SrvExpire(d) PROVE Goal
  BY <1>2, <1>3, <1>7 DEF SrvPipeEnds, SrvExpire
<1>8. CASE SrvRead \/ SrvRefuseSession
  BY <1>2, <1>3, <1>8
  DEF SrvRead, SrvData, SrvClose, SrvReady, SrvTeardown, SrvHangsUp, SrvRefuseSession
<1>9. CASE CliDialFails \/ CliData \/ CliClose
  <2>1. s2c # <<>> /\ s2c' = Tail(s2c) /\ cTab' \subseteq cTab /\ UNCHANGED <<cPipe, cRd, cCh>>
    BY <1>9 DEF CliDialFails, CliData, CliClose, CliForget, CliFrame
  <2> QED
    BY <1>2, <1>3, <2>1
<1>10. CASE CliDial
  <2>1. s2c # <<>> /\ s2c' = Tail(s2c) /\ Head(s2c).t = "new" /\ cCh' = Head(s2c).ch
    BY <1>10 DEF CliDial, CliFrame
  <2>2. CASE cCh' = c
    BY <1>2, <2>1, <2>2 DEF Kept, Goal
  <2>3. CASE cCh' # c
    BY <1>1, <1>2, <1>10, <2>1, <2>3 DEF CliDial, Kept, Goal
  <2> QED
    BY <2>2, <2>3
<1>11. CASE CliCount
  BY <1>2, <1>3, <1>11 DEF CliCount
<1>12. CASE CliReady
  <2>1. UNCHANGED <<s2c, cTab>> /\ ~SettingUp' /\ SettingUp
    BY <1>12 DEF CliReady
  <2>2. cPipe'[c] = IF cCh = c THEN cPipe'[c] ELSE cPipe[c]
    BY <1>12 DEF CliReady
  <2> QED
    BY <1>1, <2>1, <2>2 DEF Goal
<1>13. CASE CliLoopEnds \/ CliStop \/ LinkDrops
  BY <1>2, <1>3, <1>13 DEF CliLoopEnds, CliStop, LinkDrops
<1>14. ASSUME NEW d \in Chan, CliPipeEnds(d) \/ CliPipeForgets(d) PROVE Goal
  BY <1>2, <1>3, <1>14 DEF CliPipeEnds, CliPipeForgets, CliForget
<1>15. CASE UNCHANGED vars
  BY <1>2, <1>3, <1>15 DEF vars
<1> QED
  BY <1>4, <1>5, <1>6, <1>7, <1>8, <1>9, <1>10, <1>11, <1>12, <1>13, <1>14, <1>15
  DEF Next, SrvNext, SrvKeepsQueues, CliRead, CliNext

(* The channel that readLoop sets up stays registered, and has no pipe yet. *)
LEMMA SetUpStep ==
    Types /\ LifeInv /\ [Next]_vars => SetUpAlone'
<1> SUFFICES ASSUME Types, LifeInv, [Next]_vars PROVE SetUpAlone'
  OBVIOUS
<1> USE DEF Types, srvVars, tabVars, cliVars, downVars, upVars, SettingUp
<1>1. SetUpAlone
  BY DEF LifeInv
<1>2. ASSUME NEW d \in Chan, SrvNext(d) PROVE SetUpAlone'
  BY <1>1, <1>2
  DEF SrvNext, SrvAccept, SrvRefuse, SrvAnnounce, SrvAnnounceFails, SrvSession, SrvForward,
      SrvSkip, ExtHangup, SrvPluginCloses, SrvPluginCuts, SrvPipeEnds, SrvExpire, SetUpAlone
<1>3. CASE SrvRead \/ SrvRefuseSession
  BY <1>1, <1>3
  DEF SrvRead, SrvData, SrvClose, SrvReady, SrvTeardown, SrvHangsUp, SrvRefuseSession, SetUpAlone
<1>4. CASE CliDialFails \/ CliData \/ CliClose \/ CliReady \/ CliLoopEnds
  BY <1>4
  DEF CliDialFails, CliData, CliClose, CliReady, CliLoopEnds, CliFrame, SetUpAlone
<1>5. CASE CliDial
  <2>1. NewIn(s2c, Head(s2c).ch) /\ Head(s2c).ch \in Chan
    BY <1>5, QueueShrinks, FramesWritten DEF CliDial, CliFrame
  <2>2. cPipe[Head(s2c).ch] = "none"
    BY <2>1 DEF LifeInv, AnnouncedOnce
  <2> QED
    BY <1>5, <2>2 DEF CliDial, SetUpAlone
<1>6. CASE CliCount \/ CliStop \/ LinkDrops
  BY <1>1, <1>6 DEF CliCount, CliStop, LinkDrops, SetUpAlone
<1>7. ASSUME NEW d \in Chan, CliNext(d) PROVE SetUpAlone'
  BY <1>1, <1>7
  DEF CliNext, LocalHangup, CliForward, CliPipeEnds, CliPipeForgets, CliForget, SetUpAlone
<1>8. CASE UNCHANGED vars
  BY <1>1, <1>8 DEF vars, SetUpAlone
<1> QED
  BY <1>2, <1>3, <1>4, <1>5, <1>6, <1>7, <1>8 DEF Next, CliRead

(* What the life of a channel is like at the start and after every step.    *)
LEMMA LifeInvariant == Spec => [](Types /\ LifeInv)
<1>1. Init => Types /\ LifeInv
  <2> SUFFICES ASSUME Init PROVE Types /\ LifeInv
    OBVIOUS
  <2>1. Types
    <3>1. /\ extSent \in [Chan -> 0 .. MaxIn] /\ locSent \in [Chan -> 0 .. MaxOut]
          /\ locRcvd \in [Chan -> Seq(Nat)] /\ extRcvd \in [Chan -> Seq(Nat)]
      BY TunnelAssumption DEF Init
    <3>2. s2c \in Seq(Frames) /\ c2s \in Seq(Frames)
      BY DEF Init
    <3>3. link \in BOOLEAN /\ udpJam \in BOOLEAN
      BY DEF Init
    <3>4. /\ kind \in [Chan -> {"none", "tcp", "udp"}] /\ ext \in [Chan -> ExtStates]
          /\ local \in [Chan -> ConnStates] /\ cPipe \in [Chan -> PipeStates]
          /\ sPipe \in [Chan -> SrvPipeStates]
      BY DEF Init, ConnStates, ExtStates, SrvPipeStates, PipeStates
    <3> QED
      BY <3>1, <3>2, <3>3, <3>4 DEF Init, Types
  <2>2. \A c \in Chan : NoneOf(s2c, c) /\ NoneOf(c2s, c) /\ NewFirst(s2c, c) /\ ~NewIn(s2c, c)
    BY DEF Init, NoneOf, NewFirst, NewIn
  <2> QED
    BY <2>1, <2>2
    DEF Init, LifeInv, UnusedIsEmpty, UntoldIsQuiet, Quiet, AnnouncedOnce, SetUpAlone, SettingUp
<1>2. Types /\ LifeInv /\ [Next]_vars => Types' /\ LifeInv'
  <2>1. Types /\ LifeInv /\ [Next]_vars => UnusedIsEmpty'
    BY KindStep DEF UnusedIsEmpty
  <2> QED
    BY <2>1, TypesStep, UntoldStep, AnnouncedStep, SetUpStep DEF LifeInv
<1> QED
  BY <1>1, <1>2, PTL DEF Spec

-----------------------------------------------------------------------------
(* The channels that were counted.                                          *)
Counted == IF cRd = "count" THEN cTab \ {cCh} ELSE cTab

(* Registering, counting and forgetting keep the count right.               *)
LEMMA CountStep ==
    Types /\ LifeInv /\ CountMatchesTable /\ [Next]_vars => CountMatchesTable'
<1> SUFFICES ASSUME Types, LifeInv, CountMatchesTable, [Next]_vars
             PROVE  infos' = cTab' /\ active' = Cardinality(Counted')
  BY DEF CountMatchesTable, Counted
<1>1. /\ infos = cTab /\ active = Cardinality(Counted)
      /\ cRd = "count" => cCh \in cTab /\ cPipe[cCh] = "none"
      /\ cTab \subseteq Chan
  BY DEF CountMatchesTable, Counted, LifeInv, SetUpAlone, SettingUp, Types
<1>2. \A S : S \subseteq Chan =>
        \A c : /\ c \in S => Cardinality(S \ {c}) = Cardinality(S) - 1
               /\ Cardinality(S) \in Nat
  <2>1. \A S : S \subseteq Chan => IsFiniteSet(S)
    BY TunnelAssumption, FS_Subset DEF Chan
  <2> QED
    BY <2>1, FS_RemoveElement, FS_CardinalityType
<1> DEFINE Goal == infos' = cTab' /\ active' = Cardinality(Counted')
<1> SUFFICES Goal
  OBVIOUS
<1>3. ASSUME UNCHANGED <<infos, cTab, active>>,
             UNCHANGED <<cRd, cCh>> \/ (cRd # "count" /\ cRd' # "count")
      PROVE  Goal
  BY <1>1, <1>3 DEF Counted
<1>4. ASSUME NEW c, CliForget(c), cRd' = cRd, cCh' = cCh, cRd = "count" => c # cCh
      PROVE  Goal
  <2>1. infos' = cTab' /\ Counted' = Counted \ {c}
    BY <1>1, <1>4 DEF CliForget, Counted
  <2>2. CASE c \in cTab
    <3>1. c \in Counted /\ active' = active - 1
      BY <1>4, <2>2 DEF CliForget, Counted
    <3>2. Counted \subseteq Chan
      BY <1>1 DEF Counted
    <3> QED
      BY <1>1, <1>2, <2>1, <3>1, <3>2
  <2>3. CASE c \notin cTab
    <3>1. Counted \ {c} = Counted /\ active' = active
      BY <1>4, <2>3 DEF CliForget, Counted
    <3> QED
      BY <1>1, <2>1, <3>1
  <2> QED
    BY <2>2, <2>3
<1> USE DEF srvVars, tabVars, cliVars, downVars, upVars
<1>5. CASE CliDial
  <2>1. s2c # <<>> /\ cRd = "read" /\ cCh' = Head(s2c).ch /\ Head(s2c).t = "new"
    BY <1>5 DEF CliDial, CliFrame
  <2>2. cCh' \in Chan /\ NewIn(s2c, cCh')
    BY <2>1, QueueShrinks, FramesWritten DEF Types
  <2>3. cCh' \notin cTab
    BY <2>2 DEF LifeInv, AnnouncedOnce
  <2>4. Counted' = cTab /\ Counted = cTab
    BY <1>5, <2>1, <2>3 DEF CliDial, Counted
  <2> QED
    BY <1>1, <1>5, <2>4 DEF CliDial
<1>6. CASE CliCount
  <2>1. Counted = cTab \ {cCh} /\ Counted' = cTab /\ cCh \in cTab
    BY <1>1, <1>6 DEF CliCount, Counted
  <2> QED
    BY <1>1, <1>2, <1>6, <2>1 DEF CliCount
<1>7. CASE CliClose
  BY <1>4, <1>7 DEF CliClose, CliFrame
<1>8. ASSUME NEW d \in Chan, CliPipeForgets(d) PROVE Goal
  BY <1>1, <1>4, <1>8 DEF CliPipeForgets
<1> HIDE DEF Goal
<1>9. ASSUME NEW d \in Chan, SrvNext(d) PROVE Goal
  BY <1>3, <1>9
  DEF SrvNext, SrvAccept, SrvRefuse, SrvAnnounce, SrvAnnounceFails, SrvSession, SrvForward,
      SrvSkip, ExtHangup, SrvPluginCloses, SrvPluginCuts, SrvPipeEnds, SrvExpire
<1>10. CASE SrvRead \/ SrvRefuseSession
  BY <1>3, <1>10
  DEF SrvRead, SrvData, SrvClose, SrvReady, SrvTeardown, SrvHangsUp, SrvRefuseSession
<1>11. CASE CliDialFails \/ CliData \/ CliReady \/ CliLoopEnds \/ CliStop \/ LinkDrops
  BY <1>3, <1>11 DEF CliDialFails, CliData, CliReady, CliLoopEnds, CliStop, LinkDrops
<1>12. ASSUME NEW d \in Chan, LocalHangup(d) \/ CliForward(d) \/ CliPipeEnds(d) PROVE Goal
  BY <1>3, <1>12 DEF LocalHangup, CliForward, CliPipeEnds
<1>13. CASE UNCHANGED vars
  BY <1>3, <1>13 DEF vars
<1> QED
  BY <1>5, <1>6, <1>7, <1>8, <1>9, <1>10, <1>11, <1>12, <1>13
  DEF Next, CliRead, CliNext

(* connInfos lists the registered channels of a client and activeChans      *)
(* counts them, however frameClose, the ends of the pipes and new channels  *)
(* interleave: what the GUI shows never drifts from what is there.          *)
THEOREM CountMatchesTableHolds == Spec => []CountMatchesTable
<1>1. Init => CountMatchesTable
  BY FS_EmptySet DEF Init, CountMatchesTable
<1> QED
  BY <1>1, CountStep, LifeInvariant, PTL DEF Spec

(* Every variable of Tunnel keeps its type; the count of channels does so   *)
(* because it counts something: it is taken back once for a channel.        *)
THEOREM TunnelTypeCorrect == Spec => []TypeOK
<1>1. Types /\ CountMatchesTable => TypeOK
  <2> SUFFICES ASSUME Types, CountMatchesTable PROVE TypeOK
    OBVIOUS
  <2>1. active \in Nat
    <3>1. IsFiniteSet(cTab) /\ IsFiniteSet(cTab \ {cCh})
      BY TunnelAssumption, FS_Subset DEF Chan, Types
    <3> QED
      BY <3>1, FS_CardinalityType DEF CountMatchesTable
  <2>2. /\ \A i \in 1 .. Len(s2c) : s2c[i].ch \in Chan
        /\ \A i \in 1 .. Len(c2s) : c2s[i].ch \in Chan
    <3>1. /\ \A i \in 1 .. Len(s2c) : s2c[i] \in Frames
          /\ \A i \in 1 .. Len(c2s) : c2s[i] \in Frames
      BY DEF Types
    <3> QED
      BY <3>1, FramesWritten
  <2> QED
    BY <2>1, <2>2 DEF Types, TypeOK
<1> QED
  BY <1>1, CountMatchesTableHolds, LifeInvariant, PTL

-----------------------------------------------------------------------------
(* From outside to the service.  As long as a channel is announced or its   *)
(* local connection is open, the chunks in flight are the ones between what *)
(* the service got and what was read outside, for a session some of them.   *)
InOpen(c)  == NewIn(s2c, c) \/ (c \in cTab /\ local[c] = "open")
InFlow(c)  == InOpen(c) => /\ Top(locRcvd[c]) <= extSent[c]
                           /\ Flow(s2c, c, Top(locRcvd[c]), extSent[c], c \in Udp)
InFlowInv  == Readable(s2c) /\ \A c \in Chan : InFlow(c)

(* The same from the service to outside.                                    *)
OutOpen(c) == c \in sTab /\ ext[c] = "open"
OutFlow(c) == OutOpen(c) => /\ Top(extRcvd[c]) <= locSent[c]
                            /\ Flow(c2s, c, Top(extRcvd[c]), locSent[c], c \in Udp)
OutFlowInv == \A c \in Chan : OutFlow(c)

(* Chunks in flight are not disturbed by frames that are not chunks of the  *)
(* channel, and the link adds the next one.                                 *)
LEMMA FlowWritten ==
    ASSUME Types, NEW c \in Chan, NEW lo \in Nat, NEW hi \in Nat, NEW f \in Frames,
           NEW gaps \in BOOLEAN
    PROVE  /\ ~(f.t = "data" /\ f.ch = c) =>
                /\ ToClient(f) /\ Flow(s2c, c, lo, hi, gaps) => Flow(s2c', c, lo, hi, gaps)
                /\ ToServer(f) /\ Flow(c2s, c, lo, hi, gaps) => Flow(c2s', c, lo, hi, gaps)
           /\ f.t = "data" /\ f.ch = c /\ f.n = hi + 1 /\ lo <= hi /\ link =>
                /\ ToClient(f) /\ Flow(s2c, c, lo, hi, gaps) => Flow(s2c', c, lo, hi + 1, gaps)
                /\ ToServer(f) /\ Flow(c2s, c, lo, hi, gaps) => Flow(c2s', c, lo, hi + 1, gaps)
<1>1. s2c \in Seq(Frames) /\ c2s \in Seq(Frames)
  BY DEF Types
<1>2. /\ ToClient(f) => s2c' = s2c \/ s2c' = Append(s2c, f)
      /\ ToClient(f) /\ link => s2c' = Append(s2c, f)
  BY DEF ToClient
<1>3. /\ ToServer(f) => c2s' = c2s \/ c2s' = Append(c2s, f)
      /\ ToServer(f) /\ link => c2s' = Append(c2s, f)
  BY DEF ToServer
<1> QED
  BY <1>1, <1>2, <1>3, FlowGrows

(* A data frame from the server is one the client can read.                 *)
LEMMA ReadableStep ==
    Types /\ Readable(s2c) /\ [Next]_vars => Readable(s2c')
<1> SUFFICES ASSUME Types, Readable(s2c), [Next]_vars PROVE Readable(s2c')
  OBVIOUS
<1>1. ASSUME NEW f \in Frames, ToClient(f), f.t = "data" => CliReadable(f)
      PROVE  Readable(s2c')
  <2>1. s2c' = s2c \/ s2c' = Append(s2c, f)
    BY <1>1 DEF ToClient
  <2>2. s2c \in Seq(Frames) /\ f.ch \in Chan
    BY FramesWritten DEF Types
  <2> QED
    BY <1>1, <2>1, <2>2, QueueGrows
<1>2. ASSUME NEW d \in Chan, SrvAnnounce(d) \/ SrvSession(d) \/ SrvPipeEnds(d) \/ SrvExpire(d)
      PROVE  Readable(s2c')
  <2>1. ToClient(New(d)) \/ ToClient(Close(d))
    BY <1>2 DEF SrvAnnounce, SrvSession, SrvPipeEnds, SrvExpire
  <2> QED
    BY <1>1, <2>1, FramesWritten
<1>3. ASSUME NEW d \in Chan, SrvForward(d) PROVE Readable(s2c')
  <2>1. PICK z \in SrvCompresses : ToClient(Data(d, extSent[d] + 1, z))
    BY <1>3 DEF SrvForward
  <2>2. extSent[d] + 1 \in Nat
    BY DEF Types
  <2>3. z \in BOOLEAN /\ (z => ClientCompress)
    BY DEF SrvCompresses
  <2>4. CliReadable(Data(d, extSent[d] + 1, z))
    BY <2>2, <2>3, FramesWritten DEF CliReadable
  <2> QED
    BY <1>1, <2>1, <2>2, <2>3, <2>4, FramesWritten
<1>4. ASSUME s2c # <<>>, s2c' = Tail(s2c) PROVE Readable(s2c')
  <2>1. s2c \in Seq(Frames) /\ Head(s2c).ch \in Chan
    BY <1>4, QueueTypes, FramesWritten DEF Types
  <2> QED
    BY <1>4, <2>1, QueueShrinks
<1>5. CASE CliDialFails \/ CliDial \/ CliData \/ CliClose
  BY <1>4, <1>5 DEF CliDialFails, CliDial, CliData, CliClose, CliFrame
<1>6. ASSUME NEW d \in Chan, SrvKeepsQueues(d) \/ CliNext(d) PROVE Readable(s2c')
  BY <1>6
  DEF SrvKeepsQueues, SrvAccept, SrvRefuse, SrvAnnounceFails, SrvSkip, ExtHangup,
      SrvPluginCloses, SrvPluginCuts, CliNext, LocalHangup, CliForward, CliPipeEnds, CliPipeForgets
<1>7. CASE SrvRead \/ SrvRefuseSession
  BY <1>7 DEF SrvRead, SrvData, SrvClose, SrvReady, SrvTeardown, SrvHangsUp, SrvRefuseSession
<1>8. CASE CliCount \/ CliReady \/ CliLoopEnds \/ CliStop \/ LinkDrops
  BY <1>8 DEF CliCount, CliReady, CliLoopEnds, CliStop, LinkDrops
<1>9. CASE UNCHANGED vars
  BY <1>9 DEF vars
<1> QED
  BY <1>2, <1>3, <1>5, <1>6, <1>7, <1>8, <1>9 DEF Next, SrvNext, SrvKeepsQueues, CliRead

(* The chunks in flight to the service stay the right ones.                 *)
LEMMA InFlowStep ==
    Types /\ LifeInv /\ InFlowInv /\ [Next]_vars => \A c \in Chan : InFlow(c)'
<1> SUFFICES ASSUME Types, LifeInv, InFlowInv, [Next]_vars, NEW c \in Chan
             PROVE  InFlow(c)'
  OBVIOUS
<1> DEFINE lo == Top(locRcvd[c])
           hi == extSent[c]
           gaps == c \in Udp
           Same == locRcvd'[c] = locRcvd[c] /\ extSent'[c] = extSent[c]
           Kept == Flow(s2c, c, lo, hi, gaps) => Flow(s2c', c, lo, hi, gaps)
           Goal == InFlow(c)'
<1> SUFFICES Goal
  OBVIOUS
<1>1. /\ lo \in Nat /\ hi \in Nat /\ gaps \in BOOLEAN
      /\ s2c \in Seq(Frames) /\ NewFirst(s2c, c) /\ Readable(s2c)
  BY TopGrows DEF Types, LifeInv, AnnouncedOnce, InFlowInv
<1>2. InOpen(c) => lo <= hi /\ Flow(s2c, c, lo, hi, gaps)
  BY DEF InFlowInv, InFlow
<1>k. kind[c] # "none" \/ kind'[c] = kind[c] => (c \in Udp)' = gaps
  BY KindStep DEF Udp
<1>3. ASSUME Same, Kept, InOpen(c)' => InOpen(c), kind'[c] = kind[c] PROVE Goal
  BY <1>2, <1>3, <1>k DEF InFlow
<1>4. ASSUME NEW f \in Frames, ToClient(f), ~(f.t = "data" /\ f.ch = c) PROVE Kept
  BY <1>1, <1>4, FlowWritten
<1>5. ASSUME NEW f \in Frames, ToClient(f), ~(f.t = "new" /\ f.ch = c), NewIn(s2c', c)
      PROVE  NewIn(s2c, c)
  BY <1>5, Written
<1>6. ASSUME s2c # <<>>, s2c' = Tail(s2c), ~(Head(s2c).t = "data" /\ Head(s2c).ch = c)
      PROVE  Kept /\ (NewIn(s2c', c) => NewIn(s2c, c))
  <2> HIDE DEF lo, hi, gaps
  <2>1. ASSUME Flow(s2c, c, lo, hi, gaps) PROVE Flow(s2c', c, lo, hi, gaps)
    BY <1>1, <1>6, <2>1, FlowShrinks
  <2> QED
    BY <1>1, <1>6, <2>1, QueueShrinks
<1>7. ASSUME s2c' = s2c PROVE Kept /\ NewIn(s2c', c) = NewIn(s2c, c)
  BY <1>7
<1> HIDE DEF lo, hi, gaps, Same, Kept, Goal
<1> USE DEF srvVars, tabVars, cliVars, downVars, upVars
<1>8. ASSUME NEW d \in Chan, SrvAnnounce(d) \/ SrvSession(d) PROVE Goal
  <2>1. ToClient(New(d)) /\ New(d) \in Frames /\ New(d).t = "new" /\ New(d).ch = d
    BY <1>8, FramesWritten DEF SrvAnnounce, SrvSession
  <2>2. CASE d = c
    <3>1. Quiet(c)
      BY <1>8, <2>2 DEF SrvAnnounce, SrvSession, Untold, LifeInv, UntoldIsQuiet
    <3>2. NoneOf(s2c, c) /\ locRcvd[c] = <<>> /\ extSent[c] = 0
      BY <3>1 DEF Quiet
    <3>3. \A g \in BOOLEAN : Flow(s2c, c, 0, 0, g)
      BY <1>1, <3>2, NonePending
    <3>4. \A g \in BOOLEAN : Flow(s2c', c, 0, 0, g)
      BY <2>1, <3>3, FlowWritten
    <3>5. Top(locRcvd'[c]) = 0 /\ extSent'[c] = 0
      BY <1>8, <3>2 DEF SrvAnnounce, SrvSession, Top
    <3>6. Flow(s2c', c, 0, 0, (c \in Udp)')
      <4> DEFINE g == (c \in Udp)'
      <4>1. g \in BOOLEAN
        OBVIOUS
      <4> HIDE DEF g
      <4>2. Flow(s2c', c, 0, 0, g)
        BY <3>4, <4>1
      <4> QED
        BY <4>2 DEF g
    <3> QED
      BY <3>5, <3>6 DEF Goal, InFlow
  <2>3. CASE d # c
    <3>1. NewIn(s2c', c) => NewIn(s2c, c)
      BY <1>5, <2>1, <2>3
    <3>2. Kept
      BY <1>4, <2>1
    <3>3. kind'[c] = kind[c]
      BY <1>8, <2>3 DEF SrvAnnounce, SrvSession, Types
    <3> QED
      BY <1>3, <1>8, <3>1, <3>2, <3>3 DEF SrvAnnounce, SrvSession, Same, InOpen
  <2> QED
    BY <2>2, <2>3
<1>9. ASSUME NEW d \in Chan, SrvForward(d) PROVE Goal
  <2>1. PICK z \in SrvCompresses : ToClient(Data(d, extSent[d] + 1, z))
    BY <1>9 DEF SrvForward
  <2> DEFINE f == Data(d, extSent[d] + 1, z)
  <2>2. f \in Frames /\ f.t = "data" /\ f.ch = d /\ f.n = extSent[d] + 1 /\ ToClient(f)
    <3>1. extSent[d] + 1 \in Nat
      BY DEF Types
    <3> QED
      BY <2>1, <3>1, FramesWritten
  <2> HIDE DEF f
  <2>3. InOpen(c)' => InOpen(c)
    <3>1. NewIn(s2c', c) => NewIn(s2c, c)
      BY <1>5, <2>2
    <3> QED
      BY <1>9, <3>1 DEF SrvForward, InOpen
  <2>4. kind'[c] = kind[c]
    BY <1>9 DEF SrvForward
  <2>5. CASE d = c
    <3>1. locRcvd'[c] = locRcvd[c] /\ extSent'[c] = hi + 1 /\ link /\ f.n = hi + 1
      BY <1>9, <2>2, <2>5 DEF SrvForward, SrvReceives, hi, Types
    <3>2. InOpen(c) => Flow(s2c', c, lo, hi + 1, gaps) /\ lo <= hi + 1
      BY <1>1, <1>2, <2>2, <2>5, <3>1, FlowWritten
    <3> QED
      BY <1>k, <2>3, <2>4, <3>1, <3>2 DEF Goal, InFlow, lo
  <2>6. CASE d # c
    <3>1. Same
      BY <1>9, <2>6 DEF SrvForward, SrvReceives, Same, Types
    <3> QED
      BY <1>3, <1>4, <2>2, <2>3, <2>4, <2>6, <3>1
  <2> QED
    BY <2>5, <2>6
<1>s. ASSUME NEW d \in Chan, SrvSkip(d) PROVE Goal
  <2>1. kind'[c] = kind[c] /\ s2c' = s2c /\ locRcvd' = locRcvd /\ InOpen(c)' = InOpen(c)
    BY <1>s DEF SrvSkip, InOpen
  <2>2. CASE d = c
    <3>1. gaps /\ extSent'[c] = hi + 1
      BY <1>s, <2>2 DEF SrvSkip, SrvReceives, hi, gaps, Types
    <3>2. InOpen(c) => Flow(s2c, c, lo, hi + 1, gaps) /\ lo <= hi + 1
      <4>1. Close(c) \in Frames
        BY FramesWritten
      <4>2. ASSUME Flow(s2c, c, lo, hi, gaps) PROVE Flow(s2c, c, lo, hi + 1, gaps)
        BY <1>1, <3>1, <4>1, <4>2, FlowGrows
      <4> QED
        BY <1>1, <1>2, <4>2
    <3> QED
      BY <1>k, <2>1, <3>1, <3>2 DEF Goal, InFlow, lo
  <2>3. CASE d # c
    <3>1. Same
      BY <1>s, <2>3 DEF SrvSkip, SrvReceives, Same, Types
    <3> QED
      BY <1>3, <1>7, <2>1, <3>1
  <2> QED
    BY <2>2, <2>3
<1>10. ASSUME NEW d \in Chan, SrvPipeEnds(d) \/ SrvExpire(d) PROVE Goal
  <2>1. ToClient(Close(d)) /\ Close(d) \in Frames /\ Close(d).t = "close"
    BY <1>10, FramesWritten DEF SrvPipeEnds, SrvExpire
  <2>2. Kept /\ (NewIn(s2c', c) => NewIn(s2c, c))
    BY <1>4, <1>5, <2>1
  <2> QED
    BY <1>3, <1>10, <2>2 DEF SrvPipeEnds, SrvExpire, Same, InOpen
<1>11. ASSUME NEW d \in Chan, SrvKeepsQueues(d), ~SrvSkip(d) PROVE Goal
  <2>1. s2c' = s2c /\ Same /\ InOpen(c)' = InOpen(c)
    BY <1>11
    DEF SrvKeepsQueues, SrvAccept, SrvRefuse, SrvAnnounceFails, ExtHangup,
        SrvPluginCloses, SrvPluginCuts, Same, InOpen
  <2>2. kind'[c] = kind[c] \/ Untold(c)
    BY KindStep DEF Untold
  <2>3. CASE kind'[c] = kind[c]
    BY <1>3, <1>7, <2>1, <2>3
  <2>4. CASE Untold(c)
    <3>1. Quiet(c)
      BY <2>4 DEF LifeInv, UntoldIsQuiet
    <3>2. ~NewIn(s2c, c) /\ c \notin cTab
      BY <1>1, <3>1, NonePending DEF Quiet
    <3> QED
      BY <2>1, <3>2 DEF Goal, InFlow, InOpen
  <2> QED
    BY <2>2, <2>3, <2>4
<1>c. ASSUME NEW d \in Chan, CliForward(d) \/ CliPipeEnds(d) PROVE Goal
  BY <1>3, <1>7, <1>c DEF CliForward, CliPipeEnds, Same, InOpen
<1>12. CASE SrvRead \/ SrvRefuseSession
  BY <1>3, <1>7, <1>12
  DEF SrvRead, SrvData, SrvClose, SrvReady, SrvTeardown, SrvHangsUp, SrvRefuseSession, Same, InOpen
<1>13. CASE CliCount \/ CliReady \/ CliLoopEnds \/ CliStop \/ LinkDrops
  BY <1>3, <1>7, <1>13 DEF CliCount, CliReady, CliLoopEnds, CliStop, LinkDrops, Same, InOpen
<1>14. ASSUME NEW d \in Chan, LocalHangup(d) \/ CliPipeForgets(d) PROVE Goal
  <2>1. c \in cTab' /\ local'[c] = "open" => c \in cTab /\ local[c] = "open"
    BY <1>14 DEF LocalHangup, CliPipeForgets, CliForget, Types
  <2>2. s2c' = s2c /\ Same /\ kind' = kind
    BY <1>14 DEF LocalHangup, CliPipeForgets, Same
  <2> QED
    BY <1>3, <1>7, <2>1, <2>2 DEF InOpen
<1>15. CASE CliDialFails \/ CliClose
  <2>1. s2c # <<>> /\ s2c' = Tail(s2c) /\ Head(s2c).t # "data" /\ Same /\ kind' = kind
    BY <1>15 DEF CliDialFails, CliClose, CliFrame, Same
  <2>2. c \in cTab' /\ local'[c] = "open" => c \in cTab /\ local[c] = "open"
    BY <1>15 DEF CliDialFails, CliClose, CliForget, Types
  <2> QED
    BY <1>3, <1>6, <2>1, <2>2 DEF InOpen
<1>16. CASE CliDial
  <2>1. s2c # <<>> /\ s2c' = Tail(s2c) /\ Head(s2c).t = "new" /\ Same /\ kind' = kind
    BY <1>16 DEF CliDial, CliFrame, Same
  <2>2. cCh' = Head(s2c).ch /\ (cCh' = c => NewIn(s2c, c))
    BY <1>1, <1>16, <2>1, QueueShrinks DEF CliDial
  <2>3. cCh' # c => (c \in cTab' /\ local'[c] = "open" => c \in cTab /\ local[c] = "open")
    BY <1>16 DEF CliDial, Types
  <2> QED
    BY <1>3, <1>6, <2>1, <2>2, <2>3 DEF InOpen
<1>17. CASE CliData
  <2>1. s2c # <<>> /\ s2c' = Tail(s2c) /\ Head(s2c).t = "data" /\ kind' = kind /\ extSent' = extSent
    BY <1>17 DEF CliData, CliFrame
  <2>2. CASE Head(s2c).ch = c
    <3>1. ~NewIn(s2c', c) /\ CliReadable(Head(s2c)) /\ Head(s2c).n \in Nat
      BY <1>1, <2>1, <2>2, QueueShrinks, FramesWritten
    <3>2. InOpen(c)' => c \in cTab /\ local[c] = "open"
      BY <1>17, <3>1 DEF CliData, InOpen
    <3>3. CASE InOpen(c)'
      <4>1. \/ locRcvd' = [locRcvd EXCEPT ![c] = Append(@, Head(s2c).n)]
            \/ gaps /\ locRcvd' = locRcvd
        BY <1>17, <2>2, <3>1, <3>2, <3>3 DEF CliData, gaps
      <4>2. Flow(s2c, c, lo, hi, gaps)
        BY <1>2, <3>2, <3>3 DEF InOpen
      <4>3. /\ Head(s2c).n \in lo + 1 .. hi
            /\ Flow(s2c', c, Head(s2c).n, hi, gaps)
            /\ gaps => Flow(s2c', c, lo, hi, gaps)
        BY <1>1, <2>1, <2>2, <4>2, FlowShrinks
      <4>4. CASE locRcvd' = [locRcvd EXCEPT ![c] = Append(@, Head(s2c).n)]
        <5>1. locRcvd'[c] = Append(locRcvd[c], Head(s2c).n) /\ locRcvd[c] \in Seq(Nat)
          BY <4>4 DEF Types
        <5>2. Top(locRcvd'[c]) = Head(s2c).n
          BY <3>1, <5>1, TopGrows
        <5> QED
          BY <1>1, <1>k, <2>1, <4>3, <5>2 DEF Goal, InFlow, hi
      <4>5. CASE gaps /\ locRcvd' = locRcvd
        <5>1. lo <= hi
          BY <1>1, <4>3
        <5> QED
          BY <1>k, <2>1, <4>3, <4>5, <5>1 DEF Goal, InFlow, lo, hi
      <4> QED
        BY <4>1, <4>4, <4>5
    <3> QED
      BY <3>3 DEF Goal, InFlow
  <2>3. CASE Head(s2c).ch # c
    <3>1. Same
      BY <1>17, <2>3 DEF CliData, Same, Types
    <3>2. Kept /\ (NewIn(s2c', c) => NewIn(s2c, c))
      BY <1>6, <2>1, <2>3
    <3> QED
      BY <1>3, <1>17, <2>1, <3>1, <3>2 DEF CliData, InOpen
  <2> QED
    BY <2>2, <2>3
<1>18. CASE UNCHANGED vars
  BY <1>3, <1>7, <1>18 DEF vars, Same, InOpen
<1> QED
  BY <1>8, <1>9, <1>s, <1>10, <1>11, <1>c, <1>12, <1>13, <1>14, <1>15, <1>16, <1>17, <1>18
  DEF Next, SrvNext, SrvKeepsQueues, CliRead, CliNext

(* The chunks in flight to the outside stay the right ones.                 *)
LEMMA OutFlowStep ==
    Types /\ LifeInv /\ OutFlowInv /\ [Next]_vars => OutFlowInv'
<1> SUFFICES ASSUME Types, LifeInv, OutFlowInv, [Next]_vars, NEW c \in Chan
             PROVE  OutFlow(c)'
  BY DEF OutFlowInv
<1> DEFINE lo == Top(extRcvd[c])
           hi == locSent[c]
           gaps == c \in Udp
           Same == extRcvd'[c] = extRcvd[c] /\ locSent'[c] = locSent[c]
           Kept == Flow(c2s, c, lo, hi, gaps) => Flow(c2s', c, lo, hi, gaps)
           Goal == OutFlow(c)'
<1> SUFFICES Goal
  OBVIOUS
<1>1. lo \in Nat /\ hi \in Nat /\ gaps \in BOOLEAN /\ c2s \in Seq(Frames)
  BY TopGrows DEF Types
<1>2. OutOpen(c) => lo <= hi /\ Flow(c2s, c, lo, hi, gaps)
  BY DEF OutFlowInv, OutFlow
<1>k. kind[c] # "none" \/ kind'[c] = kind[c] => (c \in Udp)' = gaps
  BY KindStep DEF Udp
<1>3. ASSUME Same, Kept, OutOpen(c)' => OutOpen(c), kind'[c] = kind[c] PROVE Goal
  BY <1>2, <1>3, <1>k DEF OutFlow
<1>4. ASSUME NEW f \in Frames, ToServer(f), ~(f.t = "data" /\ f.ch = c) PROVE Kept
  BY <1>1, <1>4, FlowWritten
<1>5. ASSUME c2s # <<>>, c2s' = Tail(c2s), ~(Head(c2s).t = "data" /\ Head(c2s).ch = c)
      PROVE  Kept
  <2> HIDE DEF lo, hi, gaps
  <2>1. ASSUME Flow(c2s, c, lo, hi, gaps) PROVE Flow(c2s', c, lo, hi, gaps)
    BY <1>1, <1>5, <2>1, FlowShrinks
  <2> QED
    BY <2>1
<1>6. ASSUME c2s' = c2s PROVE Kept
  BY <1>6
<1> HIDE DEF lo, hi, gaps, Same, Kept, Goal
<1> USE DEF srvVars, tabVars, cliVars, downVars, upVars
<1>7. ASSUME NEW d \in Chan, SrvAccept(d) \/ SrvSession(d) PROVE Goal
  <2>1. CASE d = c
    <3>1. Quiet(c)
      BY <1>7, <2>1 DEF SrvAccept, SrvSession, Untold, LifeInv, UntoldIsQuiet
    <3>2. NoneOf(c2s, c) /\ Top(extRcvd'[c]) = 0 /\ locSent'[c] = 0 /\ c2s' = c2s
      BY <1>7, <3>1 DEF SrvAccept, SrvSession, Quiet, Top
    <3>3. Flow(c2s', c, 0, 0, (c \in Udp)')
      BY <1>1, <3>2, NonePending
    <3> QED
      BY <3>2, <3>3 DEF Goal, OutFlow
  <2>2. CASE d # c
    <3>1. kind'[c] = kind[c] /\ OutOpen(c)' = OutOpen(c) /\ c2s' = c2s /\ Same
      BY <1>7, <2>2 DEF SrvAccept, SrvSession, OutOpen, Types, Same
    <3> QED
      BY <1>3, <1>6, <3>1
  <2> QED
    BY <2>1, <2>2
<1>8. ASSUME NEW d \in Chan, SrvRefuse(d) \/ SrvAnnounce(d) \/ SrvAnnounceFails(d) PROVE Goal
  <2>1. OutOpen(c)' => OutOpen(c)
    BY <1>8 DEF SrvRefuse, SrvAnnounce, SrvAnnounceFails, OutOpen, Types
  <2> QED
    BY <1>3, <1>6, <1>8, <2>1 DEF SrvRefuse, SrvAnnounce, SrvAnnounceFails, Same
<1>9. ASSUME NEW d \in Chan, SrvForward(d) \/ SrvSkip(d) PROVE Goal
  BY <1>3, <1>6, <1>9 DEF SrvForward, SrvSkip, Same, OutOpen
<1>10. ASSUME NEW d \in Chan, \/ ExtHangup(d) \/ SrvPluginCloses(d) \/ SrvPluginCuts(d)
                              \/ SrvPipeEnds(d) \/ SrvExpire(d)
       PROVE  Goal
  <2>1. OutOpen(c)' => OutOpen(c)
    BY <1>10
    DEF ExtHangup, SrvPluginCloses, SrvPluginCuts, SrvPipeEnds, SrvExpire, OutOpen, Types
  <2>2. UNCHANGED <<kind, c2s, extRcvd, locSent>>
    BY <1>10 DEF ExtHangup, SrvPluginCloses, SrvPluginCuts, SrvPipeEnds, SrvExpire
  <2> QED
    BY <1>3, <1>6, <2>1, <2>2 DEF Same
<1>11. CASE SrvClose \/ SrvReady
  <2>1. c2s # <<>> /\ c2s' = Tail(c2s) /\ Head(c2s).t # "data" /\ Same /\ kind' = kind
    BY <1>11 DEF SrvClose, SrvReady, SrvFrame, Same
  <2>2. OutOpen(c)' => OutOpen(c)
    BY <1>11 DEF SrvClose, SrvReady, OutOpen, Types
  <2> QED
    BY <1>3, <1>5, <2>1, <2>2
<1>12. CASE SrvData
  <2>1. /\ c2s # <<>> /\ c2s' = Tail(c2s) /\ Head(c2s).t = "data" /\ OutOpen(c)' = OutOpen(c)
        /\ kind' = kind /\ locSent' = locSent
    BY <1>12 DEF SrvData, SrvFrame, OutOpen
  <2>2. CASE Head(c2s).ch = c /\ OutOpen(c)
    <3>1. /\ Head(c2s).n \in lo + 1 .. hi
          /\ Flow(c2s', c, Head(c2s).n, hi, gaps)
          /\ Flow(c2s', c, lo, hi, gaps) \/ ~gaps
      BY <1>1, <1>2, <2>1, <2>2, FlowShrinks
    <3>2. \/ extRcvd' = [extRcvd EXCEPT ![c] = Append(@, Head(c2s).n)]
          \/ gaps /\ extRcvd' = extRcvd
          \/ c \notin Reachable
      BY <1>12, <2>2 DEF SrvData, OutOpen, gaps
    <3>3. c \notin Reachable => gaps /\ extRcvd' = extRcvd
      BY <1>12, <2>2 DEF SrvData, Reachable, OutOpen, gaps
    <3>4. CASE extRcvd' = [extRcvd EXCEPT ![c] = Append(@, Head(c2s).n)]
      <4>1. /\ extRcvd'[c] = Append(extRcvd[c], Head(c2s).n) /\ extRcvd[c] \in Seq(Nat)
            /\ Head(c2s).n \in Nat
        BY <2>1, <3>4, QueueTypes, FramesWritten DEF Types
      <4>2. Top(extRcvd'[c]) = Head(c2s).n
        BY <4>1, TopGrows
      <4> QED
        BY <1>1, <1>k, <2>1, <3>1, <4>2 DEF Goal, OutFlow, hi
    <3>5. CASE gaps /\ extRcvd' = extRcvd
      <4>1. lo <= hi
        BY <1>2, <2>2
      <4> QED
        BY <1>k, <2>1, <3>1, <3>5, <4>1 DEF Goal, OutFlow, lo, hi
    <3> QED
      BY <3>2, <3>3, <3>4, <3>5
  <2>3. CASE Head(c2s).ch # c
    <3>1. Same
      BY <1>12, <2>3 DEF SrvData, Same, Types
    <3> QED
      BY <1>3, <1>5, <2>1, <2>3, <3>1
  <2>4. CASE ~OutOpen(c)
    BY <2>1, <2>4 DEF Goal, OutFlow
  <2> QED
    BY <2>2, <2>3, <2>4
<1>13. CASE SrvTeardown \/ SrvHangsUp \/ SrvRefuseSession
  <2>1. OutOpen(c)' => OutOpen(c)
    BY <1>13 DEF SrvTeardown, SrvHangsUp, SrvRefuseSession, OutOpen, Reachable, Types
  <2> QED
    BY <1>3, <1>6, <1>13, <2>1 DEF SrvTeardown, SrvHangsUp, SrvRefuseSession, Same
<1>14. CASE CliDialFails
  <2>1. Head(s2c).ch \in Chan
    BY <1>14, QueueTypes, FramesWritten DEF CliDialFails, CliFrame, Types
  <2>2. Kept
    BY <1>4, <1>14, <2>1, FramesWritten DEF CliDialFails
  <2> QED
    BY <1>3, <1>14, <2>2 DEF CliDialFails, Same, OutOpen
<1>15. CASE CliReady
  <2>1. Kept
    BY <1>4, <1>6, <1>15, FramesWritten DEF CliReady, Types
  <2> QED
    BY <1>3, <1>15, <2>1 DEF CliReady, Same, OutOpen
<1>16. CASE CliDial \/ CliCount \/ CliData \/ CliClose \/ CliLoopEnds \/ CliStop \/ LinkDrops
  BY <1>3, <1>6, <1>16
  DEF CliDial, CliCount, CliData, CliClose, CliLoopEnds, CliStop, LinkDrops, Same, OutOpen
<1>17. ASSUME NEW d \in Chan, LocalHangup(d) \/ CliPipeForgets(d) PROVE Goal
  BY <1>3, <1>6, <1>17 DEF LocalHangup, CliPipeForgets, Same, OutOpen
<1>18. ASSUME NEW d \in Chan, CliForward(d) PROVE Goal
  <2>1. PICK z \in CliCompresses : ToServer(Data(d, locSent[d] + 1, z))
    BY <1>18 DEF CliForward
  <2> DEFINE f == Data(d, locSent[d] + 1, z)
  <2>2. f \in Frames /\ f.t = "data" /\ f.ch = d /\ f.n = locSent[d] + 1 /\ ToServer(f)
    <3>1. locSent[d] + 1 \in Nat
      BY DEF Types
    <3> QED
      BY <2>1, <3>1, FramesWritten
  <2> HIDE DEF f
  <2>3. OutOpen(c)' = OutOpen(c) /\ kind'[c] = kind[c]
    BY <1>18 DEF CliForward, OutOpen
  <2>4. CASE d = c
    <3>1. extRcvd'[c] = extRcvd[c] /\ locSent'[c] = hi + 1 /\ link /\ f.n = hi + 1
      BY <1>18, <2>2, <2>4 DEF CliForward, hi, Types
    <3>2. OutOpen(c) => Flow(c2s', c, lo, hi + 1, gaps) /\ lo <= hi + 1
      BY <1>1, <1>2, <2>2, <2>4, <3>1, FlowWritten
    <3> QED
      BY <1>k, <2>3, <3>1, <3>2 DEF Goal, OutFlow, lo
  <2>5. CASE d # c
    <3>1. Same
      BY <1>18, <2>5 DEF CliForward, Same, Types
    <3> QED
      BY <1>3, <1>4, <2>2, <2>3, <2>5, <3>1
  <2> QED
    BY <2>4, <2>5
<1>19. ASSUME NEW d \in Chan, CliPipeEnds(d) PROVE Goal
  <2>1. Kept
    BY <1>4, <1>19, FramesWritten DEF CliPipeEnds
  <2> QED
    BY <1>3, <1>19, <2>1 DEF CliPipeEnds, Same, OutOpen
<1>20. CASE UNCHANGED vars
  BY <1>3, <1>6, <1>20 DEF vars, Same, OutOpen
<1> QED
  BY <1>7, <1>8, <1>9, <1>10, <1>11, <1>12, <1>13, <1>14, <1>15, <1>16, <1>17, <1>18, <1>19, <1>20
  DEF Next, SrvNext, SrvRead, CliRead, CliNext

(* What is in flight is right at the start and after every step.            *)
LEMMA FlowInvariant == Spec => []InFlowInv /\ []OutFlowInv
<1>1. Init => InFlowInv /\ OutFlowInv
  BY DEF Init, InFlowInv, OutFlowInv, Readable, InFlow, InOpen, NewIn, OutFlow, OutOpen
<1>2. Types /\ LifeInv /\ InFlowInv /\ [Next]_vars => InFlowInv'
  BY ReadableStep, InFlowStep DEF InFlowInv
<1> QED
  BY <1>1, <1>2, OutFlowStep, LifeInvariant, PTL DEF Spec

-----------------------------------------------------------------------------
Upto(n) == [i \in 1 .. n |-> i]

(* The first n chunks of a channel, and one more.                           *)
LEMMA UptoGrows ==
    ASSUME NEW n \in Nat
    PROVE  /\ Upto(n) \in Seq(Nat) /\ Len(Upto(n)) = n
           /\ Append(Upto(n), n + 1) = Upto(n + 1)
           /\ \A i \in 1 .. n : Upto(n)[i] = i
BY DEF Upto

(* A session is declared as a channel with gaps before a chunk is read.     *)
LEMMA Declared ==
    ASSUME Types, LifeInv, [Next]_vars
    PROVE  \/ Udp' = Udp
           \/ \E d \in Chan : SrvSession(d) /\ Udp' = Udp \cup {d} /\ Quiet(d)
<1>1. CASE \E d \in Chan : SrvSession(d)
  <2>1. PICK d \in Chan : SrvSession(d)
    BY <1>1
  <2>2. Udp' = Udp \cup {d}
    BY <2>1 DEF SrvSession, Udp, Types
  <2>3. Quiet(d)
    BY <2>1 DEF SrvSession, LifeInv, UntoldIsQuiet, Untold
  <2> QED
    BY <2>1, <2>2, <2>3
<1>2. CASE \A d \in Chan : ~SrvSession(d)
  <2>1. ASSUME NEW c \in Chan PROVE kind'[c] = "udp" <=> kind[c] = "udp"
    <3>1. kind'[c] = kind[c] \/ (kind[c] = "none" /\ SrvAccept(c))
      BY <1>2, KindStep
    <3>2. SrvAccept(c) => kind'[c] = "tcp"
      BY DEF SrvAccept, Types
    <3> QED
      BY <3>1, <3>2
  <2> QED
    BY <2>1 DEF Udp
<1> QED
  BY <1>1, <1>2

(* Each step of the tunnel is, for what goes to the services, a session     *)
(* declared, a chunk put into a channel, a chunk taken from it, or nothing. *)
LEMMA InboundStep ==
    Types /\ LifeInv /\ InFlowInv /\ [Next]_vars
      => [Inbound!Next]_<<[c \in Chan |-> [i \in 1 .. extSent[c] |-> i]], locRcvd, Udp>>
<1> SUFFICES ASSUME Types, LifeInv, InFlowInv, [Next]_vars,
                    ~UNCHANGED <<[c \in Chan |-> [i \in 1 .. extSent[c] |-> i]], locRcvd, Udp>>
             PROVE  Inbound!Next
  OBVIOUS
<1> USE DEF srvVars, tabVars, cliVars, downVars, upVars
<1>1. CASE Udp' # Udp
  <2>1. PICK d \in Chan : SrvSession(d) /\ Udp' = Udp \cup {d} /\ Quiet(d)
    BY <1>1, Declared
  <2>2. extSent' = extSent /\ locRcvd' = locRcvd /\ extSent[d] = 0 /\ locRcvd[d] = <<>>
    BY <2>1 DEF SrvSession, Quiet
  <2>3. [c \in Chan |-> Upto(extSent[c])][d] = <<>>
    BY <2>2, UptoGrows DEF Upto
  <2>4. Inbound!Declare(d)
    BY <2>1, <2>2, <2>3 DEF Inbound!Declare, Upto
  <2> QED
    BY <2>4 DEF Inbound!Next
<1>2. CASE Udp' = Udp
  <2>1. ~UNCHANGED <<extSent, locRcvd>>
    BY <1>2
  <2>2. PICK d : (d \in Chan /\ (SrvForward(d) \/ SrvSkip(d))) \/ CliData
    BY <2>1
    DEF Next, SrvNext, SrvAccept, SrvRefuse, SrvAnnounce, SrvAnnounceFails, SrvSession,
        ExtHangup, SrvPluginCloses, SrvPluginCuts, SrvPipeEnds, SrvExpire, SrvRefuseSession,
        SrvRead, SrvData, SrvClose, SrvReady, SrvTeardown, SrvHangsUp,
        CliRead, CliDialFails, CliDial, CliCount, CliReady, CliClose, CliLoopEnds,
        CliNext, LocalHangup, CliForward, CliPipeEnds, CliPipeForgets,
        CliStop, LinkDrops, vars
  <2>3. CASE d \in Chan /\ (SrvForward(d) \/ SrvSkip(d))
    <3>1. /\ extSent \in [Chan -> Nat] /\ extSent' = [extSent EXCEPT ![d] = @ + 1]
          /\ locRcvd' = locRcvd
      <4>1. extSent \in [Chan -> Nat]
        BY DEF Types
      <4> QED
        BY <2>3, <4>1 DEF SrvForward, SrvSkip, SrvReceives
    <3>2. [c \in Chan |-> Upto(extSent'[c])]
            = [[c \in Chan |-> Upto(extSent[c])] EXCEPT ![d] = Append(@, Len(@) + 1)]
      BY <2>3, <3>1, UptoGrows
    <3>3. Inbound!Put(d)
      BY <1>2, <3>1, <3>2 DEF Inbound!Put, Upto
    <3> QED
      BY <2>3, <3>3 DEF Inbound!Next
  <2>4. CASE CliData
    <3> DEFINE c == Head(s2c).ch
               lo == Top(locRcvd[c])
               k == Head(s2c).n
    <3>1. /\ s2c # <<>> /\ Head(s2c).t = "data" /\ c \in cTab /\ local[c] = "open"
          /\ locRcvd' = [locRcvd EXCEPT ![c] = Append(@, k)]
          /\ extSent' = extSent
      BY <2>1, <2>4 DEF CliData, CliFrame
    <3>2. /\ c \in Chan /\ lo \in Nat /\ extSent \in [Chan -> Nat] /\ s2c \in Seq(Frames)
          /\ (c \in Udp) \in BOOLEAN
      BY <3>1, TopGrows DEF Types
    <3>3. Flow(s2c, c, lo, extSent[c], c \in Udp)
      BY <3>1, <3>2 DEF InFlowInv, InFlow, InOpen
    <3> HIDE DEF c, lo, k
    <3>4. k \in lo + 1 .. extSent[c] /\ (c \notin Udp => k = lo + 1)
      BY <3>1, <3>2, <3>3, FlowShrinks DEF c, k
    <3>5. extSent[c] \in Nat /\ k \in 1 .. extSent[c]
      BY <3>2, <3>4
    <3>6. Len(Upto(extSent[c])) = extSent[c] /\ Upto(extSent[c])[k] = k
      BY <3>5, UptoGrows
    <3>7. Inbound!Newest(locRcvd[c]) = lo
      BY DEF Inbound!Newest, Top, lo
    <3>8. IF c \in Udp THEN k > lo ELSE k = lo + 1
      BY <3>2, <3>4
    <3>9. Inbound!Get(c)
      BY <1>2, <3>1, <3>2, <3>5, <3>6, <3>7, <3>8 DEF Inbound!Get, Upto
    <3> QED
      BY <3>2, <3>9 DEF Inbound!Next
  <2> QED
    BY <2>2, <2>3, <2>4
<1> QED
  BY <1>1, <1>2

(* From an outside user to the local service every TCP channel is a stream: *)
(* SrvForward's chunks reach the service each once, in order and without a  *)
(* gap, through the relay connection, the dial of the local service,        *)
(* compression and every way a channel can end.  A session's datagrams that *)
(* get there are in order and none is there twice; on_accept may refuse     *)
(* any, and an error of Write loses one.                                    *)
THEOREM InboundImplementsStream == Spec => InboundIsStream
<1>1. Init => Inbound!Init
  BY DEF Init, Inbound!Init, Udp
<1> QED
  BY <1>1, InboundStep, LifeInvariant, FlowInvariant, PTL DEF Spec, InboundIsStream, Inbound!Spec

(* The same for what comes from the services.                               *)
LEMMA OutboundStep ==
    Types /\ LifeInv /\ OutFlowInv /\ [Next]_vars
      => [Outbound!Next]_<<[c \in Chan |-> [i \in 1 .. locSent[c] |-> i]], extRcvd, Udp>>
<1> SUFFICES ASSUME Types, LifeInv, OutFlowInv, [Next]_vars,
                    ~UNCHANGED <<[c \in Chan |-> [i \in 1 .. locSent[c] |-> i]], extRcvd, Udp>>
             PROVE  Outbound!Next
  OBVIOUS
<1> USE DEF srvVars, tabVars, cliVars, downVars, upVars
<1>1. CASE Udp' # Udp
  <2>1. PICK d \in Chan : SrvSession(d) /\ Udp' = Udp \cup {d} /\ Quiet(d)
    BY <1>1, Declared
  <2>2. locSent' = locSent /\ extRcvd' = extRcvd /\ locSent[d] = 0 /\ extRcvd[d] = <<>>
    BY <2>1 DEF SrvSession, Quiet
  <2>3. [c \in Chan |-> Upto(locSent[c])][d] = <<>>
    BY <2>2, UptoGrows DEF Upto
  <2>4. Outbound!Declare(d)
    BY <2>1, <2>2, <2>3 DEF Outbound!Declare, Upto
  <2> QED
    BY <2>4 DEF Outbound!Next
<1>2. CASE Udp' = Udp
  <2>1. ~UNCHANGED <<locSent, extRcvd>>
    BY <1>2
  <2>2. PICK d : (d \in Chan /\ CliForward(d)) \/ SrvData
    BY <2>1
    DEF Next, SrvNext, SrvAccept, SrvRefuse, SrvAnnounce, SrvAnnounceFails, SrvSession,
        SrvForward, SrvSkip, ExtHangup, SrvPluginCloses, SrvPluginCuts, SrvPipeEnds, SrvExpire,
        SrvRefuseSession, SrvRead, SrvClose, SrvReady, SrvTeardown, SrvHangsUp,
        CliRead, CliDialFails, CliDial, CliCount, CliReady, CliData, CliClose, CliLoopEnds,
        CliNext, LocalHangup, CliPipeEnds, CliPipeForgets,
        CliStop, LinkDrops, vars
  <2>3. CASE d \in Chan /\ CliForward(d)
    <3>1. /\ locSent \in [Chan -> Nat] /\ locSent' = [locSent EXCEPT ![d] = @ + 1]
          /\ extRcvd' = extRcvd
      BY <2>3 DEF CliForward, Types
    <3>2. [c \in Chan |-> Upto(locSent'[c])]
            = [[c \in Chan |-> Upto(locSent[c])] EXCEPT ![d] = Append(@, Len(@) + 1)]
      BY <2>3, <3>1, UptoGrows
    <3>3. Outbound!Put(d)
      BY <1>2, <3>1, <3>2 DEF Outbound!Put, Upto
    <3> QED
      BY <2>3, <3>3 DEF Outbound!Next
  <2>4. CASE SrvData
    <3> DEFINE c == Head(c2s).ch
               lo == Top(extRcvd[c])
               k == Head(c2s).n
    <3>1. /\ c2s # <<>> /\ Head(c2s).t = "data" /\ c \in sTab /\ ext[c] = "open"
          /\ extRcvd' = [extRcvd EXCEPT ![c] = Append(@, k)]
          /\ locSent' = locSent
      BY <2>1, <2>4 DEF SrvData, SrvFrame, Reachable
    <3>2. /\ c \in Chan /\ lo \in Nat /\ locSent \in [Chan -> Nat] /\ c2s \in Seq(Frames)
          /\ (c \in Udp) \in BOOLEAN
      BY <3>1, TopGrows DEF Types
    <3>3. Flow(c2s, c, lo, locSent[c], c \in Udp)
      BY <3>1, <3>2 DEF OutFlowInv, OutFlow, OutOpen
    <3> HIDE DEF c, lo, k
    <3>4. k \in lo + 1 .. locSent[c] /\ (c \notin Udp => k = lo + 1)
      BY <3>1, <3>2, <3>3, FlowShrinks DEF c, k
    <3>5. locSent[c] \in Nat /\ k \in 1 .. locSent[c]
      BY <3>2, <3>4
    <3>6. Len(Upto(locSent[c])) = locSent[c] /\ Upto(locSent[c])[k] = k
      BY <3>5, UptoGrows
    <3>7. Outbound!Newest(extRcvd[c]) = lo
      BY DEF Outbound!Newest, Top, lo
    <3>8. IF c \in Udp THEN k > lo ELSE k = lo + 1
      BY <3>2, <3>4
    <3>9. Outbound!Get(c)
      BY <1>2, <3>1, <3>2, <3>5, <3>6, <3>7, <3>8 DEF Outbound!Get, Upto
    <3> QED
      BY <3>2, <3>9 DEF Outbound!Next
  <2> QED
    BY <2>2, <2>3, <2>4
<1> QED
  BY <1>1, <1>2

(* From the local service to the outside user every TCP channel is a stream *)
(* as well: what CliForward reads is what SrvData writes, each chunk once,  *)
(* in order and without a gap, until the channel ends.  The datagrams of a  *)
(* session are in order, none twice; an ignored error of WriteToUDP leaves  *)
(* one out.                                                                 *)
THEOREM OutboundImplementsStream == Spec => OutboundIsStream
<1>1. Init => Outbound!Init
  BY DEF Init, Outbound!Init, Udp
<1> QED
  BY <1>1, OutboundStep, LifeInvariant, FlowInvariant, PTL DEF Spec, OutboundIsStream, Outbound!Spec
=============================================================================
