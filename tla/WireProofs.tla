----------------------------- MODULE WireProofs -----------------------------
(***************************************************************************)
(* Wire for any number of requests, any sizes and any capacity of the      *)
(* socket: in whatever pieces the bytes travel, requests and answers       *)
(* arrive whole, once and in order.                                        *)
(*                                                                         *)
(* The invariant speaks of streams: what one side's decoder holds, what is *)
(* in the socket and what the other side has yet to write are, joined, the *)
(* frames that have not been decoded yet.  What the recursive functions of *)
(* Wire compute is proved by a least counterexample, for want of an        *)
(* induction rule: see HasLeast.                                           *)
(*                                                                         *)
(* The last part proves of Brokers when the process at the other end of    *)
(* the connection is alone, and when its event numbers may rewind.         *)
(***************************************************************************)
EXTENDS Wire, SequenceTheorems, WellFoundedInduction, TLAPS

(* Facts about functions that are defined by recursion.                    *)
Less == {p \in Nat \X Nat : p[1] < p[2]}

(* A set of numbers that is not empty has a least member: what induction   *)
(* is replaced by. A statement about every n holds if the least n it fails *)
(* for leads to a contradiction.                                           *)
LEMMA HasLeast ==
  ASSUME NEW T \in SUBSET Nat, T # {}
  PROVE  \E x \in T : \A y \in T : x <= y
<1>1. OpToRel(<, Nat) = Less
  BY Zenon DEF OpToRel, Less
<1>2. IsWellFoundedOn(Less, Nat)
  BY <1>1, NatLessThanWellFounded, Zenon
<1>3. PICK x \in T : \A y \in T : ~ (<<y, x>> \in Less)
  BY <1>2, WFMin
<1>4. \A y \in T : ~ (y < x)
  <2> TAKE y \in T
  <2>1. <<y, x>> \in Nat \X Nat /\ <<y, x>>[1] = y /\ <<y, x>>[2] = x
    OBVIOUS
  <2> QED
    BY <1>3, <2>1 DEF Less
<1> QED
  BY <1>4

(* The recursive function that joins g[1], g[2] and so on exists: the one  *)
(* for m extends the one for m - 1.                                        *)
LEMMA JoinedExists ==
  ASSUME NEW n \in Nat, NEW g
  PROVE  \E t : t = [k \in 0..n |-> IF k = 0 THEN <<>> ELSE t[k - 1] \o g[k]]
<1> DEFINE Is(t, m) == t = [k \in 0..m |-> IF k = 0 THEN <<>> ELSE t[k - 1] \o g[k]]
           T == {m \in Nat : ~ \E t : Is(t, m)}
<1>1. SUFFICES ASSUME T # {} PROVE FALSE
  OBVIOUS
<1>2. PICK m \in T : \A y \in T : m <= y
  BY <1>1, HasLeast
<1>3. m # 0
  <2>1. Is([k \in 0..0 |-> <<>>], 0)
    OBVIOUS
  <2> QED
    BY <2>1
<1>4. PICK t : Is(t, m - 1)
  <2>1. m - 1 \in Nat /\ ~ (m <= m - 1)
    BY <1>3
  <2>2. m - 1 \notin T
    BY <1>2, <2>1
  <2> HIDE DEF Is
  <2> QED
    BY <2>1, <2>2
<1>5. Is([k \in 0..m |-> IF k = m THEN t[m - 1] \o g[m] ELSE t[k]], m)
  <2> DEFINE h == [k \in 0..m |-> IF k = m THEN t[m - 1] \o g[m] ELSE t[k]]
  <2>1. \A k \in 0..m : h[k] = IF k = 0 THEN <<>> ELSE h[k - 1] \o g[k]
    BY <1>3, <1>4, SMTT(30)
  <2> QED
    BY <2>1
<1> QED
  BY <1>5, <1>2

(* One step of Decoded.                                                    *)
TakenStep(prev) ==
  IF Complete(prev.rest)
    THEN [frames |-> Append(prev.frames, Front(prev.rest)), rest |-> Rest(prev.rest)]
    ELSE prev
Taking(t, buf, n) ==
  t = [k \in 0..n |-> IF k = 0 THEN [frames |-> <<>>, rest |-> buf] ELSE TakenStep(t[k - 1])]

(* So does the one that takes n frames from a buffer, as Decoded does.     *)
LEMMA TakenExists ==
  ASSUME NEW n \in Nat, NEW buf
  PROVE  \E t : Taking(t, buf, n)
<1> DEFINE T == {m \in Nat : ~ \E t : Taking(t, buf, m)}
<1>1. SUFFICES ASSUME T # {} PROVE FALSE
  OBVIOUS
<1>2. PICK m \in T : \A y \in T : m <= y
  BY <1>1, HasLeast
<1>3. m # 0
  <2>1. Taking([k \in 0..0 |-> [frames |-> <<>>, rest |-> buf]], buf, 0)
    BY DEF Taking
  <2> QED
    BY <2>1
<1>4. PICK t : Taking(t, buf, m - 1)
  <2>1. m - 1 \in Nat /\ ~ (m <= m - 1)
    BY <1>3
  <2>2. m - 1 \notin T
    BY <1>2, <2>1
  <2> QED
    BY <2>1, <2>2
<1>5. Taking([k \in 0..m |-> IF k = m THEN TakenStep(t[m - 1]) ELSE t[k]], buf, m)
  <2> DEFINE h == [k \in 0..m |-> IF k = m THEN TakenStep(t[m - 1]) ELSE t[k]]
  <2>1. \A k \in 0..m : h[k] = IF k = 0 THEN [frames |-> <<>>, rest |-> buf] ELSE TakenStep(h[k - 1])
    BY <1>3, <1>4 DEF Taking
  <2> QED
    BY <2>1 DEF Taking
<1> QED
  BY <1>5, <1>2

(* Decoded, of Wire, is its value after as many steps as there are         *)
(* requests.                                                               *)
LEMMA DecodedIs ==
  ASSUME NEW buf
  PROVE  \E t : Taking(t, buf, Requests) /\ Decoded(buf) = t[Requests]
<1>1. \E t : Taking(t, buf, Requests)
  BY TakenExists, WireAssumption
<1> QED
  BY <1>1 DEF Decoded, Taking, TakenStep

(* What the client has to write at first, as a function that unfolds.      *)
LEMMA OutboundIs ==
  Init => \E t : /\ t = [k \in 0..Requests |-> IF k = 0 THEN <<>> ELSE t[k - 1] \o EncodeFrame(k, asks[k])]
                 /\ outbound = t[Requests]
<1> SUFFICES ASSUME Init
             PROVE \E t : /\ t = [k \in 0..Requests |-> IF k = 0 THEN <<>> ELSE t[k - 1] \o EncodeFrame(k, asks[k])]
                          /\ outbound = t[Requests]
  OBVIOUS
<1> DEFINE g == [k \in 1..Requests |-> EncodeFrame(k, asks[k])]
<1>1. PICK t : t = [k \in 0..Requests |-> IF k = 0 THEN <<>> ELSE t[k - 1] \o g[k]]
  BY JoinedExists, WireAssumption
<1>2. t = [k \in 0..Requests |-> IF k = 0 THEN <<>> ELSE t[k - 1] \o EncodeFrame(k, asks[k])]
  <2>1. \A k \in 0..Requests : k # 0 => g[k] = EncodeFrame(k, asks[k])
    BY WireAssumption
  <2> HIDE DEF g
  <2> QED
    BY <1>1, <2>1
<1> QED
  BY <1>2 DEF Init

(* What the broker answers to a readable chunk, as a function that         *)
(* unfolds.                                                                *)
LEMMA RepliesIs ==
  ASSUME NEW d, ~ Unreadable(d), Len(Served(d)) \in Nat
  PROVE  \E t : /\ t = [k \in 0..Len(Served(d)) |->
                          IF k = 0 THEN <<>> ELSE t[k - 1] \o Answer(Served(d)[k])]
                /\ Replies(d) = t[Len(Served(d))]
<1> DEFINE n == Len(Served(d))
           g == [k \in 1..n |-> Answer(Served(d)[k])]
<1>1. PICK t : t = [k \in 0..n |-> IF k = 0 THEN <<>> ELSE t[k - 1] \o g[k]]
  BY JoinedExists
<1>2. t = [k \in 0..n |-> IF k = 0 THEN <<>> ELSE t[k - 1] \o Answer(Served(d)[k])]
  <2>1. \A k \in 0..n : k # 0 => g[k] = Answer(Served(d)[k])
    OBVIOUS
  <2> HIDE DEF g, n
  <2> QED
    BY <1>1, <2>1
<1> QED
  BY <1>2 DEF Replies

-----------------------------------------------------------------------------
(* A byte of a frame, the frame by its number and its size, and its bytes. *)
Byte == Nat \X Nat \X Nat
Frame == Nat \X Nat
Encoded(f) == EncodeFrame(f[1], f[2])

(* W holds the frames of fs after the first m, the one behind the other:   *)
(* o says where each ends.                                                 *)
Lies(W, fs, m, o) ==
  /\ o[m] = 0 /\ Len(W) = o[Len(fs)]
  /\ \A k \in m..Len(fs) : o[k] <= o[Len(fs)]
  /\ \A k \in (m + 1)..Len(fs) : o[k] = o[k - 1] + Header + fs[k][2]
  /\ \A k \in (m + 1)..Len(fs) : \A p \in 1..Len(W) :
       o[k - 1] < p /\ p <= o[k] => W[p] = <<fs[k][1], fs[k][2], p - o[k - 1]>>

Stream(W, fs, m) == \E o \in [m..Len(fs) -> Int] : Lies(W, fs, m, o)

(* A frame has a header and a body, and its p-th byte bears the number p.  *)
LEMMA EncodedIs ==
  ASSUME NEW f \in Frame
  PROVE  /\ Encoded(f) \in Seq(Byte) /\ Len(Encoded(f)) = Header + f[2]
         /\ \A p \in 1..(Header + f[2]) : Encoded(f)[p] = <<f[1], f[2], p>>
<1> DEFINE n == Header + f[2]
<1>1. f[1] \in Nat /\ f[2] \in Nat /\ n \in Nat
  BY WireAssumption DEF Frame
<1>2. Encoded(f) = [k \in 1..n |-> <<f[1], f[2], k>>]
  BY DEF Encoded, EncodeFrame
<1>3. \A k \in 1..n : <<f[1], f[2], k>> \in Byte
  BY <1>1 DEF Byte
<1> HIDE DEF n
<1>4. [k \in 1..n |-> <<f[1], f[2], k>>] \in [1..n -> Byte]
  BY <1>3
<1>5. Encoded(f) \in Seq(Byte) /\ Len(Encoded(f)) = n
  BY <1>1, <1>2, <1>4, SeqDef
<1> QED
  BY <1>2, <1>5 DEF n

(* The first byte of a stream declares the length of the next frame.       *)
LEMMA FrontDeclares ==
  ASSUME NEW buf \in Seq(Byte), NEW more \in Seq(Byte), NEW fs \in Seq(Frame),
         NEW m \in 0..Len(fs), Stream(buf \o more, fs, m), Len(buf) >= Header
  PROVE  /\ m < Len(fs) /\ Declared(buf) = fs[m + 1][2]
         /\ fs[m + 1] \in Frame /\ fs[m + 1][2] \in Nat
<1> DEFINE W == buf \o more
           n == Len(fs)
<1>1. PICK o \in [m..n -> Int] : Lies(W, fs, m, o)
  BY DEF Stream
<1>2. /\ W \in Seq(Byte) /\ Len(W) = Len(buf) + Len(more) /\ Len(buf) \in Nat /\ Len(more) \in Nat
      /\ \A i \in 1..Len(buf) : W[i] = buf[i]
      /\ n \in Nat /\ m \in Nat
  BY ConcatProperties
<1>3. /\ o[m] = 0 /\ Len(W) = o[n]
      /\ \A k \in m..n : o[k] \in Int
      /\ \A k \in m..n : o[k] <= o[n]
      /\ \A k \in (m + 1)..n : o[k] = o[k - 1] + Header + fs[k][2]
      /\ \A k \in (m + 1)..n : \A p \in 1..Len(W) :
           o[k - 1] < p /\ p <= o[k] => W[p] = <<fs[k][1], fs[k][2], p - o[k - 1]>>
  BY <1>1 DEF Lies
<1>4. Len(buf) >= Header /\ Header >= 1 /\ Header \in Nat
  BY WireAssumption
<1>5. m < n
  <2>1. m # n
    <3> HIDE DEF W, n
    <3>1. Len(W) >= 1
      BY <1>2, <1>4
    <3>2. m = n => Len(W) = 0
      BY <1>3
    <3> QED
      BY <3>1, <3>2
  <2> QED
    BY <2>1, <1>2
<1> DEFINE f == fs[m + 1]
           e == Header + f[2]
<1>6. f \in Frame /\ f[1] \in Nat /\ f[2] \in Nat
  <2>1. m + 1 \in 1..n
    BY <1>2, <1>5
  <2>2. f \in Frame
    BY <2>1, ElementOfSeq
  <2> QED
    BY <2>2 DEF Frame
<1> HIDE DEF f
<1>7. o[m + 1] = e
  <2>1. m + 1 \in (m + 1)..n /\ (m + 1) - 1 = m
    BY <1>2, <1>5
  <2>2. o[m + 1] = o[m] + Header + fs[m + 1][2]
    BY <1>3, <2>1
  <2>3. o[m] = 0
    BY <1>3
  <2> QED
    BY <2>2, <2>3, <1>4, <1>6 DEF f
<1>8. e \in Nat /\ e <= Len(W)
  <2>1. o[m + 1] <= o[n] /\ Len(W) = o[n]
    <3>1. m + 1 \in m..n
      BY <1>2, <1>5
    <3> QED
      BY <3>1, <1>3
  <2> QED
    BY <2>1, <1>4, <1>6, <1>7
<1>9. \A p \in 1..e : W[p] = <<f[1], f[2], p>>
  <2> TAKE p \in 1..e
  <2>1. m + 1 \in (m + 1)..n /\ p \in 1..Len(W) /\ o[(m + 1) - 1] < p /\ p <= o[m + 1]
    <3>1. m + 1 \in (m + 1)..n /\ (m + 1) - 1 = m
      BY <1>2, <1>5
    <3>2. o[m] = 0
      BY <1>3
    <3>3. p \in Nat /\ 0 < p /\ p <= e /\ Len(W) \in Nat
      BY <1>2, <1>8
    <3> HIDE DEF W, n, e
    <3> QED
      BY <3>1, <3>2, <3>3, <1>7, <1>8
  <2>2. W[p] = <<fs[m + 1][1], fs[m + 1][2], p - o[(m + 1) - 1]>>
    BY <1>3, <2>1
  <2> QED
    BY <2>2, <1>3, <1>2, <1>7, <1>8 DEF f
<1>10. Declared(buf) = f[2]
  <2>1. 1 \in 1..e /\ 1 \in 1..Len(buf)
    BY <1>4, <1>6, <1>2
  <2>2. buf[1] = <<f[1], f[2], 1>>
    BY <2>1, <1>2, <1>9
  <2> QED
    BY <2>2, <1>4 DEF Declared
<1> QED
  BY <1>5, <1>6, <1>10 DEF f, n

(* A frame that is complete at the front is the next one, and the rest     *)
(* holds those after it.                                                   *)
LEMMA TakeFrame ==
  ASSUME NEW buf \in Seq(Byte), NEW more \in Seq(Byte), NEW fs \in Seq(Frame),
         NEW m \in 0..Len(fs), Stream(buf \o more, fs, m), Complete(buf)
  PROVE  /\ m < Len(fs) /\ Front(buf) = Encoded(fs[m + 1])
         /\ Rest(buf) \in Seq(Byte) /\ Stream(Rest(buf) \o more, fs, m + 1)
<1> DEFINE W == buf \o more
           n == Len(fs)
<1>1. PICK o \in [m..n -> Int] : Lies(W, fs, m, o)
  BY DEF Stream
<1>2. /\ W \in Seq(Byte) /\ Len(W) = Len(buf) + Len(more) /\ Len(buf) \in Nat /\ Len(more) \in Nat
      /\ \A i \in 1..Len(buf) : W[i] = buf[i]
      /\ n \in Nat /\ m \in Nat
  BY ConcatProperties
<1>15. /\ o[m] = 0 /\ Len(W) = o[n]
       /\ \A k \in m..n : o[k] \in Int
       /\ \A k \in m..n : o[k] <= o[n]
       /\ \A k \in (m + 1)..n : o[k] = o[k - 1] + Header + fs[k][2]
       /\ \A k \in (m + 1)..n : \A p \in 1..Len(W) :
            o[k - 1] < p /\ p <= o[k] => W[p] = <<fs[k][1], fs[k][2], p - o[k - 1]>>
  BY <1>1 DEF Lies
<1>3. Len(buf) >= Header /\ Len(buf) >= Header + Declared(buf) /\ Header >= 1 /\ Header \in Nat
  BY WireAssumption DEF Complete
<1>4. m < n
  <2>1. m # n
    <3> HIDE DEF W, n
    <3>1. Len(W) >= 1
      BY <1>2, <1>3
    <3>2. m = n => Len(W) = 0
      BY <1>15
    <3> QED
      BY <3>1, <3>2
  <2> QED
    BY <2>1, <1>2
<1> DEFINE f == fs[m + 1]
           e == Header + f[2]
<1>5. f \in Frame /\ f[1] \in Nat /\ f[2] \in Nat
  <2>1. m + 1 \in 1..n
    BY <1>2, <1>4
  <2>2. f \in Frame
    BY <2>1, ElementOfSeq
  <2> QED
    BY <2>2 DEF Frame
<1> HIDE DEF f
<1>6. o[m + 1] = e
  <2>1. m + 1 \in (m + 1)..n /\ (m + 1) - 1 = m
    BY <1>2, <1>4
  <2>2. o[m + 1] = o[m] + Header + fs[m + 1][2]
    BY <1>15, <2>1
  <2>3. o[m] = 0
    BY <1>15
  <2> QED
    BY <2>2, <2>3, <1>3, <1>5 DEF f
<1>7. e \in Nat /\ e <= Len(W)
  <2>1. o[m + 1] <= o[n] /\ Len(W) = o[n]
    <3>1. m + 1 \in m..n
      BY <1>2, <1>4
    <3> QED
      BY <3>1, <1>15
  <2> QED
    BY <2>1, <1>3, <1>5, <1>6
<1>8. \A p \in 1..e : W[p] = <<f[1], f[2], p>>
  <2> TAKE p \in 1..e
  <2>1. m + 1 \in (m + 1)..n /\ p \in 1..Len(W) /\ o[(m + 1) - 1] < p /\ p <= o[m + 1]
    <3>1. m + 1 \in (m + 1)..n /\ (m + 1) - 1 = m
      BY <1>2, <1>4
    <3>2. o[m] = 0
      BY <1>15
    <3>3. p \in Nat /\ 0 < p /\ p <= e /\ Len(W) \in Nat
      BY <1>2, <1>7
    <3> HIDE DEF W, n, e
    <3> QED
      BY <3>1, <3>2, <3>3, <1>6, <1>7
  <2>2. W[p] = <<fs[m + 1][1], fs[m + 1][2], p - o[(m + 1) - 1]>>
    BY <1>15, <2>1
  <2> QED
    BY <2>2, <1>15, <1>2, <1>6, <1>7 DEF f
<1>9. Declared(buf) = f[2] /\ e <= Len(buf)
  <2>1. 1 \in 1..e /\ 1 \in 1..Len(buf)
    BY <1>3, <1>5, <1>2
  <2>2. buf[1] = <<f[1], f[2], 1>>
    BY <2>1, <1>2, <1>8
  <2> QED
    BY <2>2, <1>3 DEF Declared
<1> HIDE DEF W, n, e
<1>10. Front(buf) = Encoded(f)
  <2>1. Front(buf) = SubSeq(buf, 1, e)
    BY <1>9 DEF Front, e
  <2>2. \A i \in 1..e : buf[i] \in Byte
    BY <1>2, <1>7, <1>9, ElementOfSeq
  <2>3. /\ SubSeq(buf, 1, e) \in Seq(Byte) /\ Len(SubSeq(buf, 1, e)) = e
        /\ \A i \in 1..e : SubSeq(buf, 1, e)[i] = buf[i]
    BY <2>2, <1>7, SubSeqProperties
  <2>4. /\ Encoded(f) \in Seq(Byte) /\ Len(Encoded(f)) = e
        /\ \A i \in 1..e : Encoded(f)[i] = <<f[1], f[2], i>>
    BY <1>5, EncodedIs DEF e
  <2>5. \A i \in 1..e : SubSeq(buf, 1, e)[i] = Encoded(f)[i]
    <3> TAKE i \in 1..e
    <3>1. i \in 1..Len(buf)
      BY <1>2, <1>7, <1>9
    <3> QED
      BY <3>1, <2>3, <2>4, <1>2, <1>8
  <2> QED
    BY <2>1, <2>3, <2>4, <2>5, SeqEqual
<1>11. /\ Rest(buf) \in Seq(Byte) /\ Len(Rest(buf)) = Len(buf) - e
       /\ \A i \in 1..(Len(buf) - e) : Rest(buf)[i] = buf[e + i]
  <2>1. Rest(buf) = SubSeq(buf, e + 1, Len(buf))
    BY <1>9 DEF Rest, e
  <2>2. \A i \in (e + 1)..Len(buf) : buf[i] \in Byte
    BY <1>2, <1>7, ElementOfSeq
  <2>3. /\ SubSeq(buf, e + 1, Len(buf)) \in Seq(Byte)
        /\ Len(SubSeq(buf, e + 1, Len(buf))) = IF e + 1 <= Len(buf) THEN Len(buf) - (e + 1) + 1 ELSE 0
        /\ \A i \in 1..(Len(buf) - (e + 1) + 1) : SubSeq(buf, e + 1, Len(buf))[i] = buf[(e + 1) + i - 1]
    BY <2>2, <1>2, <1>7, SubSeqProperties
  <2>4. Len(SubSeq(buf, e + 1, Len(buf))) = Len(buf) - e /\ Len(buf) - (e + 1) + 1 = Len(buf) - e
    BY <2>3, <1>2, <1>7, <1>9
  <2>5. \A i \in 1..(Len(buf) - e) : (e + 1) + i - 1 = e + i
    BY <1>2, <1>7
  <2> QED
    BY <2>1, <2>3, <2>4, <2>5
<1> DEFINE V == Rest(buf) \o more
<1>12. /\ Len(V) = Len(W) - e
       /\ \A p \in 1..Len(V) : V[p] = W[e + p]
  <2>1. /\ V \in Seq(Byte) /\ Len(V) = Len(Rest(buf)) + Len(more)
        /\ \A p \in 1..(Len(Rest(buf)) + Len(more)) :
             V[p] = IF p <= Len(Rest(buf)) THEN Rest(buf)[p] ELSE more[p - Len(Rest(buf))]
    BY <1>11, ConcatProperties
  <2>2. \A p \in 1..(Len(buf) + Len(more)) :
          W[p] = IF p <= Len(buf) THEN buf[p] ELSE more[p - Len(buf)]
    BY ConcatProperties DEF W
  <2>3. Len(V) = Len(W) - e
    BY <2>1, <1>2, <1>7, <1>9, <1>11
  <2>4. ASSUME NEW p \in 1..Len(V) PROVE V[p] = W[e + p]
    <3>1. p \in Nat /\ e + p \in 1..(Len(buf) + Len(more))
      BY <2>3, <1>2, <1>7
    <3>2. CASE p <= Len(buf) - e
      BY <3>1, <3>2, <2>1, <2>2, <1>2, <1>7, <1>9, <1>11
    <3>3. CASE ~ (p <= Len(buf) - e)
      <4>1. V[p] = more[p - (Len(buf) - e)]
        BY <3>1, <3>3, <2>1, <1>2, <1>7, <1>9, <1>11
      <4>2. W[e + p] = more[e + p - Len(buf)]
        BY <3>1, <3>3, <2>2, <1>2, <1>7, <1>9
      <4>3. p - (Len(buf) - e) = e + p - Len(buf)
        BY <3>1, <1>2, <1>7
      <4> QED
        BY <4>1, <4>2, <4>3
    <3> QED
      BY <3>2, <3>3
  <2> QED
    BY <2>3, <2>4
<1> HIDE DEF V
<1> DEFINE q == [k \in (m + 1)..n |-> o[k] - e]
<1>13. q \in [(m + 1)..n -> Int] /\ \A k \in (m + 1)..n : q[k] = o[k] - e
  BY <1>2, <1>7
<1>14. Lies(V, fs, m + 1, q)
  <2>1. q[m + 1] = 0 /\ Len(V) = q[n]
    <3> HIDE DEF q
    <3>1. m + 1 \in (m + 1)..n /\ n \in (m + 1)..n
      BY <1>2, <1>4
    <3>2. q[m + 1] = o[m + 1] - e /\ q[n] = o[n] - e
      BY <1>13, <3>1
    <3> QED
      BY <3>2, <1>6, <1>7, <1>12, <1>15
  <2>2. \A k \in (m + 1)..n : q[k] <= q[n]
    <3> TAKE k \in (m + 1)..n
    <3>1. o[k] <= o[n] /\ n \in (m + 1)..n /\ o[k] \in Int /\ o[n] \in Int
      <4>1. k \in m..n /\ n \in m..n /\ n \in (m + 1)..n
        BY <1>2, <1>4
      <4> QED
        BY <4>1, <1>15
    <3> QED
      BY <3>1, <1>7, <1>13
  <2>3. ASSUME NEW k \in ((m + 1) + 1)..n
        PROVE  /\ q[k] = q[k - 1] + Header + fs[k][2]
               /\ \A p \in 1..Len(V) :
                    q[k - 1] < p /\ p <= q[k] => V[p] = <<fs[k][1], fs[k][2], p - q[k - 1]>>
    <3>1. k \in (m + 1)..n /\ k - 1 \in (m + 1)..n /\ k \in m..n /\ k - 1 \in m..n
      BY <1>2
    <3>2. o[k] = o[k - 1] + Header + fs[k][2]
      BY <1>15, <3>1
    <3>3. o[k] \in Int /\ o[k - 1] \in Int
      BY <1>15, <3>1
    <3>4. q[k] = o[k] - e /\ q[k - 1] = o[k - 1] - e
      BY <1>13, <3>1
    <3>5. fs[k][2] \in Nat
      <4>1. k \in 1..n
        BY <1>2
      <4>2. fs[k] \in Frame
        BY <4>1, ElementOfSeq DEF n
      <4> QED
        BY <4>2 DEF Frame
    <3>6. q[k] = q[k - 1] + Header + fs[k][2]
      <4> HIDE DEF q, e
      <4>1. q[k] = (o[k - 1] + Header + fs[k][2]) - e
        BY <3>2, <3>4
      <4>2. \A x \in Int, y \in Nat : (x + Header + y) - e = (x - e) + Header + y
        BY <1>3, <1>7
      <4> QED
        BY <4>1, <4>2, <3>3, <3>4, <3>5
    <3>7. ASSUME NEW p \in 1..Len(V), q[k - 1] < p, p <= q[k]
          PROVE  V[p] = <<fs[k][1], fs[k][2], p - q[k - 1]>>
      <4>1. e + p \in 1..Len(W) /\ o[k - 1] < e + p /\ e + p <= o[k]
        <5>1. p \in Nat /\ p >= 1 /\ p <= Len(W) - e /\ Len(W) \in Nat
          BY <1>2, <1>12
        <5> HIDE DEF q, e
        <5> QED
          BY <5>1, <3>3, <3>4, <3>7, <1>7, SMTT(30)
      <4>2. W[e + p] = <<fs[k][1], fs[k][2], (e + p) - o[k - 1]>>
        BY <1>15, <3>1, <4>1
      <4>3. (e + p) - o[k - 1] = p - q[k - 1]
        BY <3>3, <3>4, <1>7, SMTT(30)
      <4> QED
        BY <4>2, <4>3, <1>12
    <3> QED
      BY <3>6, <3>7
  <2> QED
    BY <2>1, <2>2, <2>3 DEF Lies, n
<1> QED
  BY <1>4, <1>10, <1>11, <1>13, <1>14 DEF Stream, V, n, f

(* FrameDecoder.push takes some of the frames that come next, each whole.  *)
TakenFrames(t, n, buf, more, fs, m) ==
  \E c \in 0..(Len(fs) - m) :
    /\ t[n].frames = [k \in 1..c |-> Encoded(fs[m + k])]
    /\ t[n].rest \in Seq(Byte) /\ Stream(t[n].rest \o more, fs, m + c)

(* Decoded, whatever the buffer breaks off in the middle of: it yields the *)
(* next c frames of the stream, and the rest of the buffer with what is    *)
(* still to come is the stream of those after them.                        *)
LEMMA DecodedFrames ==
  ASSUME NEW buf \in Seq(Byte), NEW more \in Seq(Byte), NEW fs \in Seq(Frame),
         NEW m \in 0..Len(fs), Stream(buf \o more, fs, m)
  PROVE  \E c \in 0..(Len(fs) - m) :
           /\ Decoded(buf).frames = [k \in 1..c |-> Encoded(fs[m + k])]
           /\ Decoded(buf).rest \in Seq(Byte) /\ Stream(Decoded(buf).rest \o more, fs, m + c)
<1>1. PICK t : Taking(t, buf, Requests) /\ Decoded(buf) = t[Requests]
  BY DecodedIs
<1>2. Requests \in Nat /\ Len(fs) \in Nat /\ m \in Nat /\ m <= Len(fs)
  BY WireAssumption
<1> DEFINE T == {n \in 0..Requests : ~ TakenFrames(t, n, buf, more, fs, m)}
<1>3. SUFFICES ASSUME T # {} PROVE FALSE
  <2>1. TakenFrames(t, Requests, buf, more, fs, m)
    BY <1>2, <1>3
  <2> QED
    BY <2>1, <1>1 DEF TakenFrames
<1>4. PICK n \in T : \A y \in T : n <= y
  <2>1. T \in SUBSET Nat
    BY <1>2
  <2> QED
    BY <2>1, <1>3, HasLeast
<1>5. n # 0
  <2>1. t[0] = [frames |-> <<>>, rest |-> buf]
    BY <1>1, <1>2 DEF Taking
  <2>2. <<>> = [k \in 1..0 |-> Encoded(fs[m + k])]
    OBVIOUS
  <2>3. Stream(buf \o more, fs, m + 0)
    BY <1>2
  <2>4. TakenFrames(t, 0, buf, more, fs, m)
    <3>1. 0 \in 0..(Len(fs) - m)
      BY <1>2
    <3>2. t[0].frames = [k \in 1..0 |-> Encoded(fs[m + k])]
      BY <2>1, <2>2
    <3>3. t[0].rest \in Seq(Byte) /\ Stream(t[0].rest \o more, fs, m + 0)
      BY <2>1, <2>3
    <3> QED
      BY <3>1, <3>2, <3>3 DEF TakenFrames
  <2> QED
    BY <2>4
<1>6. n \in 0..Requests /\ n - 1 \in 0..Requests /\ ~ TakenFrames(t, n, buf, more, fs, m)
  BY <1>2, <1>5
<1>7. TakenFrames(t, n - 1, buf, more, fs, m)
  <2>1. ~ (n <= n - 1)
    BY <1>6
  <2> QED
    BY <2>1, <1>4, <1>6
<1>8. PICK c \in 0..(Len(fs) - m) :
        /\ t[n - 1].frames = [k \in 1..c |-> Encoded(fs[m + k])]
        /\ t[n - 1].rest \in Seq(Byte) /\ Stream(t[n - 1].rest \o more, fs, m + c)
  BY <1>7 DEF TakenFrames
<1>9. t[n] = TakenStep(t[n - 1])
  BY <1>1, <1>5, <1>6 DEF Taking
<1> DEFINE b == t[n - 1].rest
<1> HIDE DEF T
<1>10. CASE ~ Complete(b)
  <2>1. t[n] = t[n - 1]
    BY <1>9, <1>10 DEF TakenStep
  <2> QED
    BY <2>1, <1>6, <1>8 DEF TakenFrames
<1>11. CASE Complete(b)
  <2>1. t[n].frames = Append(t[n - 1].frames, Front(b)) /\ t[n].rest = Rest(b)
    BY <1>9, <1>11 DEF TakenStep
  <2>2. m + c \in 0..Len(fs) /\ c \in Nat
    BY <1>2
  <2>3. /\ m + c < Len(fs) /\ Front(b) = Encoded(fs[(m + c) + 1])
        /\ Rest(b) \in Seq(Byte) /\ Stream(Rest(b) \o more, fs, (m + c) + 1)
    BY <1>8, <1>11, <2>2, TakeFrame
  <2>4. c + 1 \in 0..(Len(fs) - m) /\ (m + c) + 1 = m + (c + 1)
    BY <1>2, <2>2, <2>3
  <2>5. Append(t[n - 1].frames, Front(b)) = [k \in 1..(c + 1) |-> Encoded(fs[m + k])]
    <3>1. \A k \in 1..c : Encoded(fs[m + k]) \in Seq(Byte)
      <4> TAKE k \in 1..c
      <4>1. m + k \in 1..Len(fs)
        BY <1>2, <2>2
      <4>2. fs[m + k] \in Frame
        BY <4>1, ElementOfSeq
      <4> QED
        BY <4>2, EncodedIs
    <3> DEFINE s == t[n - 1].frames
               e == Front(b)
               u == [k \in 1..(c + 1) |-> Encoded(fs[m + k])]
    <3>2. s \in [1..c -> Seq(Byte)] /\ \A k \in 1..c : s[k] = Encoded(fs[m + k])
      BY <1>8, <3>1
    <3>3. s \in Seq(Seq(Byte)) /\ Len(s) = c
      BY <2>2, <3>2, SeqDef
    <3>4. e \in Seq(Byte) /\ e = Encoded(fs[m + (c + 1)])
      <4>1. (m + c) + 1 \in 1..Len(fs)
        BY <1>2, <2>2, <2>3
      <4>2. fs[(m + c) + 1] \in Frame
        BY <4>1, ElementOfSeq
      <4> QED
        BY <4>2, <2>3, <2>4, EncodedIs
    <3> HIDE DEF s, e
    <3>5. /\ Append(s, e) \in Seq(Seq(Byte)) /\ Len(Append(s, e)) = c + 1
          /\ \A i \in 1..c : Append(s, e)[i] = s[i]
          /\ Append(s, e)[c + 1] = e
      BY <3>3, <3>4, AppendProperties
    <3>6. Append(s, e) \in [1..(c + 1) -> Seq(Byte)]
      BY <3>5, LenProperties
    <3>7. \A i \in 1..(c + 1) : Append(s, e)[i] = u[i]
      <4> TAKE i \in 1..(c + 1)
      <4>1. CASE i = c + 1
        BY <4>1, <3>4, <3>5
      <4>2. CASE i # c + 1
        <5>1. i \in 1..c
          BY <4>2, <2>2
        <5> QED
          BY <5>1, <3>2, <3>5
      <4> QED
        BY <4>1, <4>2
    <3> QED
      BY <3>6, <3>7 DEF s, e
  <2>6. TakenFrames(t, n, buf, more, fs, m)
    <3>1. Stream(Rest(b) \o more, fs, m + (c + 1))
      BY <2>3, <2>4
    <3> HIDE DEF b
    <3> QED
      BY <3>1, <2>1, <2>3, <2>4, <2>5 DEF TakenFrames
  <2> QED
    BY <2>6, <1>6
<1> QED
  BY <1>10, <1>11

(* One more frame behind the others.                                       *)
LEMMA GrowStream ==
  ASSUME NEW W \in Seq(Byte), NEW fs \in Seq(Frame), NEW m \in 0..Len(fs), Stream(W, fs, m),
         NEW f \in Frame
  PROVE  Stream(W \o Encoded(f), Append(fs, f), m)
<1> DEFINE n == Len(fs)
           e == Header + f[2]
           V == W \o Encoded(f)
           gs == Append(fs, f)
<1>1. PICK o \in [m..n -> Int] : Lies(W, fs, m, o)
  BY DEF Stream
<1>2. /\ o[m] = 0 /\ Len(W) = o[n]
      /\ \A k \in m..n : o[k] \in Int
      /\ \A k \in m..n : o[k] <= o[n]
      /\ \A k \in (m + 1)..n : o[k] = o[k - 1] + Header + fs[k][2]
      /\ \A k \in (m + 1)..n : \A p \in 1..Len(W) :
           o[k - 1] < p /\ p <= o[k] => W[p] = <<fs[k][1], fs[k][2], p - o[k - 1]>>
  BY <1>1 DEF Lies
<1>3. f[1] \in Nat /\ f[2] \in Nat /\ e \in Nat /\ Len(W) \in Nat /\ n \in Nat /\ m \in Nat /\ m <= n
      /\ Header \in Nat
  BY WireAssumption DEF Frame
<1>4. /\ Len(V) = Len(W) + e
      /\ \A p \in 1..(Len(W) + e) : V[p] = IF p <= Len(W) THEN W[p] ELSE <<f[1], f[2], p - Len(W)>>
  <2>1. /\ Encoded(f) \in Seq(Byte) /\ Len(Encoded(f)) = e
        /\ \A p \in 1..e : Encoded(f)[p] = <<f[1], f[2], p>>
    BY EncodedIs
  <2> HIDE DEF e
  <2>2. /\ Len(V) = Len(W) + e
        /\ \A p \in 1..(Len(W) + e) : V[p] = IF p <= Len(W) THEN W[p] ELSE Encoded(f)[p - Len(W)]
    BY <2>1, ConcatProperties
  <2> HIDE DEF V
  <2>3. \A p \in 1..(Len(W) + e) : ~ (p <= Len(W)) => p - Len(W) \in 1..e
    BY <1>3
  <2> QED
    BY <2>1, <2>2, <2>3
<1>5. /\ gs \in Seq(Frame) /\ Len(gs) = n + 1
      /\ \A i \in 1..n : gs[i] = fs[i]
      /\ gs[n + 1] = f
  BY AppendProperties
<1> HIDE DEF V, gs, n, e
<1> DEFINE q == [k \in m..(n + 1) |-> IF k = n + 1 THEN Len(W) + e ELSE o[k]]
<1>6. /\ q \in [m..(n + 1) -> Int]
      /\ \A k \in m..n : q[k] = o[k]
      /\ q[n + 1] = Len(W) + e
  <2>1. \A k \in m..(n + 1) : k # n + 1 => k \in m..n
    BY <1>3
  <2>2. \A k \in m..n : k \in m..(n + 1) /\ k # n + 1
    BY <1>3
  <2>3. n + 1 \in m..(n + 1) /\ Len(W) + e \in Int
    BY <1>3
  <2> QED
    BY <2>1, <2>2, <2>3, <1>2
<1> HIDE DEF q
<1>7. q[m] = 0 /\ Len(V) = q[n + 1]
  BY <1>2, <1>3, <1>4, <1>6
<1>8. \A k \in m..(n + 1) : q[k] <= q[n + 1]
  <2> TAKE k \in m..(n + 1)
  <2>1. CASE k = n + 1
    BY <2>1, <1>3, <1>6
  <2>2. CASE k # n + 1
    <3>1. k \in m..n /\ n \in m..n
      BY <2>2, <1>3
    <3>2. q[k] = o[k] /\ o[k] <= Len(W) /\ o[k] \in Int
      BY <3>1, <1>2, <1>6
    <3> QED
      BY <3>2, <1>3, <1>6, SMTT(30)
  <2> QED
    BY <2>1, <2>2
<1>9. ASSUME NEW k \in (m + 1)..(n + 1)
      PROVE  /\ q[k] = q[k - 1] + Header + gs[k][2]
             /\ \A p \in 1..Len(V) :
                  q[k - 1] < p /\ p <= q[k] => V[p] = <<gs[k][1], gs[k][2], p - q[k - 1]>>
  <2>1. CASE k = n + 1
    <3>1. n \in m..n /\ k - 1 = n
      BY <2>1, <1>3
    <3>2. q[k - 1] = Len(W) /\ q[k] = Len(W) + e /\ gs[k] = f
      BY <2>1, <3>1, <1>2, <1>5, <1>6
    <3>3. q[k] = q[k - 1] + Header + gs[k][2]
      BY <3>2, <1>3, SMTT(30) DEF e
    <3>4. ASSUME NEW p \in 1..Len(V), q[k - 1] < p, p <= q[k]
          PROVE  V[p] = <<gs[k][1], gs[k][2], p - q[k - 1]>>
      <4>1. p \in 1..(Len(W) + e) /\ ~ (p <= Len(W))
        BY <3>2, <3>4, <1>3, <1>4
      <4> QED
        BY <4>1, <3>2, <1>4
    <3> QED
      BY <3>3, <3>4
  <2>2. CASE k # n + 1
    <3>1. k \in (m + 1)..n /\ k \in m..n /\ k - 1 \in m..n /\ k \in 1..n
      BY <2>2, <1>3
    <3>2. q[k] = o[k] /\ q[k - 1] = o[k - 1] /\ gs[k] = fs[k] /\ o[k] <= Len(W)
          /\ o[k] \in Int /\ o[k - 1] \in Int
      BY <3>1, <1>2, <1>5, <1>6
    <3>3. q[k] = q[k - 1] + Header + gs[k][2]
      BY <3>1, <3>2, <1>2
    <3>4. ASSUME NEW p \in 1..Len(V), q[k - 1] < p, p <= q[k]
          PROVE  V[p] = <<gs[k][1], gs[k][2], p - q[k - 1]>>
      <4>1. p \in 1..(Len(W) + e) /\ p <= Len(W) /\ p \in 1..Len(W)
        BY <3>2, <3>4, <1>3, <1>4, SMTT(30)
      <4>2. W[p] = <<fs[k][1], fs[k][2], p - o[k - 1]>>
        BY <3>1, <3>2, <3>4, <4>1, <1>2
      <4> QED
        BY <4>1, <4>2, <3>2, <1>4
    <3> QED
      BY <3>3, <3>4
  <2> QED
    BY <2>1, <2>2
<1>10. Lies(V, gs, m, q)
  BY <1>5, <1>7, <1>8, <1>9 DEF Lies
<1> QED
  BY <1>5, <1>6, <1>10 DEF Stream, V, gs

(* Many more.                                                              *)
Grown(t, k, W, fs, g, m) ==
  t[k] \in Seq(Byte) /\ Stream(W \o t[k], fs \o SubSeq(g, 1, k), m)

(* And any number of frames more.                                          *)
LEMMA GrowStreams ==
  ASSUME NEW W \in Seq(Byte), NEW fs \in Seq(Frame), NEW m \in 0..Len(fs), Stream(W, fs, m),
         NEW g \in Seq(Frame), NEW t,
         t = [k \in 0..Len(g) |-> IF k = 0 THEN <<>> ELSE t[k - 1] \o Encoded(g[k])]
  PROVE  t[Len(g)] \in Seq(Byte) /\ Stream(W \o t[Len(g)], fs \o g, m)
<1>1. Len(g) \in Nat /\ Len(fs) \in Nat /\ m \in Nat
  OBVIOUS
<1> DEFINE T == {k \in 0..Len(g) : ~ Grown(t, k, W, fs, g, m)}
<1>2. SUFFICES ASSUME T # {} PROVE FALSE
  <2>1. Grown(t, Len(g), W, fs, g, m)
    BY <1>1, <1>2, SMTT(30)
  <2> QED
    BY <2>1, SubSeqFull DEF Grown
<1>3. PICK n \in T : \A y \in T : n <= y
  <2>1. T \in SUBSET Nat
    BY <1>1, SMTT(30)
  <2> QED
    BY <2>1, <1>2, HasLeast
<1>4. n # 0
  <2>1. t[0] = <<>>
    BY <1>1
  <2>2. SubSeq(g, 1, 0) = <<>>
    BY SubSeqEmpty
  <2>3. W \o <<>> = W /\ fs \o <<>> = fs /\ <<>> \in Seq(Byte)
    BY ConcatEmptySeq, EmptySeq
  <2>4. Grown(t, 0, W, fs, g, m)
    BY <2>1, <2>2, <2>3 DEF Grown
  <2> QED
    BY <2>4
<1>5. n \in 0..Len(g) /\ n - 1 \in 0..Len(g) /\ n \in 1..Len(g) /\ ~ Grown(t, n, W, fs, g, m)
  BY <1>1, <1>4
<1>6. Grown(t, n - 1, W, fs, g, m)
  <2>1. ~ (n <= n - 1)
    BY <1>5
  <2> QED
    BY <2>1, <1>3, <1>5
<1>7. t[n] = t[n - 1] \o Encoded(g[n])
  BY <1>4, <1>5
<1> DEFINE f == g[n]
           before == SubSeq(g, 1, n - 1)
<1>8. f \in Frame
  BY <1>5, ElementOfSeq
<1>9. before \in Seq(Frame) /\ SubSeq(g, 1, n) = Append(before, f) /\ Len(before) \in Nat
  <2>1. \A i \in 1..(n - 1) : g[i] \in Frame
    BY <1>1, <1>5, ElementOfSeq
  <2>2. before \in Seq(Frame)
    BY <2>1, <1>5, SubSeqProperties
  <2>3. SubSeq(g, 1, n) = before \o <<f>>
    <3>1. 1 \in 1..Len(g) /\ n \in 1..Len(g)
      BY <1>1, <1>5
    <3> QED
      BY <3>1, SubSeqRecursiveSecond
  <2> HIDE DEF before, f
  <2>4. Append(before, f) = before \o <<f>>
    BY <2>2, <1>8, AppendIsConcat, SMTT(30)
  <2> QED
    BY <2>2, <2>3, <2>4
<1> HIDE DEF before, f, T
<1>10. Encoded(f) \in Seq(Byte)
  BY <1>8, EncodedIs
<1>11. t[n - 1] \in Seq(Byte) /\ Stream(W \o t[n - 1], fs \o before, m)
  BY <1>6, SMTT(30) DEF Grown, before
<1>12. t[n] \in Seq(Byte) /\ W \o t[n] = (W \o t[n - 1]) \o Encoded(f)
  <2>1. t[n] = t[n - 1] \o Encoded(f)
    BY <1>7 DEF f
  <2> DEFINE a == t[n - 1]
             e == Encoded(f)
  <2>2. a \in Seq(Byte) /\ e \in Seq(Byte)
    BY <1>10, <1>11
  <2> HIDE DEF a, e
  <2>3. a \o e \in Seq(Byte)
    BY <2>2, ConcatProperties
  <2>4. (W \o a) \o e = W \o (a \o e)
    BY <2>2, ConcatAssociative, SMTT(30)
  <2> QED
    BY <2>1, <2>3, <2>4 DEF a, e
<1>13. fs \o SubSeq(g, 1, n) = Append(fs \o before, f)
  <2>1. fs \o before \in Seq(Frame) /\ <<f>> \in Seq(Frame)
    BY <1>8, <1>9, ConcatProperties
  <2>2. Append(fs \o before, f) = (fs \o before) \o <<f>> /\ Append(before, f) = before \o <<f>>
    BY <2>1, <1>8, <1>9, AppendIsConcat
  <2>3. (fs \o before) \o <<f>> = fs \o (before \o <<f>>)
    <3> DEFINE e == <<f>>
    <3>1. before \in Seq(Frame) /\ e \in Seq(Frame)
      BY <2>1, <1>9
    <3> HIDE DEF e
    <3>2. (fs \o before) \o e = fs \o (before \o e)
      BY <3>1, ConcatAssociative, SMTT(30)
    <3> QED
      BY <3>2 DEF e
  <2> QED
    BY <2>2, <2>3, <1>9
<1>14. m \in 0..Len(fs \o before) /\ fs \o before \in Seq(Frame) /\ W \o t[n - 1] \in Seq(Byte)
  <2>1. Len(fs \o before) = Len(fs) + Len(before)
    BY <1>9, ConcatProperties
  <2> QED
    BY <2>1, <1>1, <1>9, <1>11, ConcatProperties
<1>15. Stream((W \o t[n - 1]) \o Encoded(f), Append(fs \o before, f), m)
  BY <1>8, <1>11, <1>14, GrowStream
<1> QED
  BY <1>5, <1>12, <1>13, <1>15 DEF Grown

(* No bytes are the stream of no frames.                                   *)
LEMMA NoFrames == Stream(<<>>, <<>>, 0)
<1> DEFINE o == [k \in 0..0 |-> 0]
<1>1. o \in [0..0 -> Int] /\ o[0] = 0 /\ Len(<<>>) = 0
  OBVIOUS
<1> HIDE DEF o
<1>2. Lies(<<>>, <<>>, 0, o)
  BY <1>1 DEF Lies
<1> QED
  BY <1>1, <1>2 DEF Stream

-----------------------------------------------------------------------------
Bytes == Seq(Byte)

(* Concatenation of bytes is associative.                                  *)
LEMMA Regroup ==
  ASSUME NEW a \in Bytes, NEW b \in Bytes, NEW c \in Bytes
  PROVE  (a \o b) \o c = a \o (b \o c)
BY ConcatAssociative DEF Bytes

Split(a, s, x, n) ==
  /\ SubSeq(s, 1, n) \in Bytes /\ SubSeq(s, n + 1, Len(s)) \in Bytes
  /\ Len(SubSeq(s, n + 1, Len(s))) <= Len(s)
  /\ a \o SubSeq(s, 1, n) \in Bytes /\ SubSeq(s, n + 1, Len(s)) \o x \in Bytes
  /\ (a \o SubSeq(s, 1, n)) \o (SubSeq(s, n + 1, Len(s)) \o x) = a \o (s \o x)

(* A read of n bytes: those read, behind what the decoder holds, and those *)
(* that stay in the socket are the same bytes in the same order.           *)
LEMMA Cut ==
  ASSUME NEW a \in Bytes, NEW s \in Bytes, NEW x \in Bytes, NEW n \in 1..Len(s)
  PROVE  Split(a, s, x, n)
<1> DEFINE h == SubSeq(s, 1, n)
           t == SubSeq(s, n + 1, Len(s))
<1>1. Len(s) \in Nat /\ \A i \in 1..Len(s) : s[i] \in Byte
  BY ElementOfSeq DEF Bytes
<1>2. h \in Bytes
  <2>1. \A i \in 1..n : s[i] \in Byte
    BY <1>1
  <2> QED
    BY <2>1, <1>1, SubSeqProperties DEF Bytes
<1>3. t \in Bytes /\ Len(t) <= Len(s)
  <2>1. \A i \in (n + 1)..Len(s) : s[i] \in Byte
    BY <1>1
  <2>2. t \in Bytes /\ Len(t) = IF n + 1 <= Len(s) THEN Len(s) - (n + 1) + 1 ELSE 0
    BY <2>1, <1>1, SubSeqProperties DEF Bytes
  <2> QED
    BY <2>2, <1>1
<1>4. h \o t = s
  <2>1. 1 \in 1..(Len(s) + 1) /\ n \in 0..Len(s) /\ Len(s) \in n..Len(s)
    BY <1>1
  <2>2. h \o t = SubSeq(s, 1, Len(s))
    BY <2>1, ConcatAdjacentSubSeq DEF Bytes
  <2> QED
    BY <2>2, SubSeqFull DEF Bytes
<1> HIDE DEF h, t
<1>5. a \o h \in Bytes /\ t \o x \in Bytes /\ h \o t \in Bytes
  BY <1>2, <1>3, ConcatProperties DEF Bytes
<1>6. (a \o h) \o (t \o x) = a \o (h \o (t \o x))
  <2> DEFINE y == t \o x
  <2>1. y \in Bytes
    BY <1>5
  <2> HIDE DEF y
  <2>2. (a \o h) \o y = a \o (h \o y)
    BY <1>2, <2>1, Regroup, ZenonT(60)
  <2> QED
    BY <2>2 DEF y
<1>7. h \o (t \o x) = s \o x
  <2>1. (h \o t) \o x = h \o (t \o x)
    BY <1>2, <1>3, Regroup
  <2> QED
    BY <2>1, <1>4
<1> QED
  BY <1>2, <1>3, <1>5, <1>6, <1>7 DEF h, t, Split

(* A write that is cut short (socket.write, in client.ts and main.ts):     *)
(* what went into the socket and the tail that is kept are the bytes that  *)
(* were to be written, in their order, and the buffer does not overflow.   *)
LEMMA PumpKeepsOrder ==
  ASSUME NEW data \in Bytes, NEW pipe \in Bytes, NEW x \in Bytes, Len(pipe) <= Capacity
  PROVE  /\ Filled(data, pipe) \in Bytes /\ Unsent(data, pipe) \in Bytes
         /\ Len(Filled(data, pipe)) <= Capacity
         /\ Filled(data, pipe) \o (Unsent(data, pipe) \o x) = pipe \o (data \o x)
<1> DEFINE n == Taken(data, pipe)
           h == SubSeq(data, 1, n)
           t == SubSeq(data, n + 1, Len(data))
<1>1. /\ Len(data) \in Nat /\ Len(pipe) \in Nat /\ Capacity \in Nat
      /\ \A i \in 1..Len(data) : data[i] \in Byte
  BY WireAssumption, ElementOfSeq DEF Bytes
<1>2. n \in 0..Len(data) /\ n <= Capacity - Len(pipe)
  BY <1>1 DEF Taken
<1> HIDE DEF n
<1>3. h \in Bytes /\ Len(h) = n
  <2>1. \A i \in 1..n : data[i] \in Byte
    BY <1>1, <1>2
  <2>2. h \in Bytes /\ Len(h) = IF 1 <= n THEN n - 1 + 1 ELSE 0
    BY <2>1, <1>2, SubSeqProperties DEF Bytes
  <2> QED
    BY <2>2, <1>2
<1>4. t \in Bytes
  <2>1. \A i \in (n + 1)..Len(data) : data[i] \in Byte
    BY <1>1, <1>2
  <2> QED
    BY <2>1, <1>1, <1>2, SubSeqProperties DEF Bytes
<1>5. h \o t = data
  <2>1. 1 \in 1..(Len(data) + 1) /\ n \in (1 - 1)..Len(data) /\ Len(data) \in n..Len(data)
    BY <1>1, <1>2
  <2>2. h \o t = SubSeq(data, 1, Len(data))
    BY <2>1, ConcatAdjacentSubSeq DEF Bytes
  <2> QED
    BY <2>2, SubSeqFull DEF Bytes
<1>6. Filled(data, pipe) = pipe \o h /\ Unsent(data, pipe) = t
  BY DEF Filled, Unsent, n
<1> HIDE DEF h, t
<1>7. /\ pipe \o h \in Bytes /\ t \o x \in Bytes /\ h \o t \in Bytes
      /\ Len(pipe \o h) = Len(pipe) + Len(h)
  BY <1>3, <1>4, ConcatProperties DEF Bytes
<1>8. (pipe \o h) \o (t \o x) = pipe \o (h \o (t \o x))
  <2> DEFINE y == t \o x
  <2>1. y \in Bytes
    BY <1>7
  <2> HIDE DEF y
  <2>2. (pipe \o h) \o y = pipe \o (h \o y)
    BY <1>3, <2>1, Regroup, ZenonT(60)
  <2> QED
    BY <2>2 DEF y
<1>9. h \o (t \o x) = data \o x
  <2>1. (h \o t) \o x = h \o (t \o x)
    BY <1>3, <1>4, Regroup, ZenonT(60)
  <2> QED
    BY <2>1, <1>5
<1> QED
  BY <1>1, <1>2, <1>3, <1>4, <1>6, <1>7, <1>8, <1>9

(* The ids of decoded frames, and that each of them parses.                *)
IsChunk(frames, fs, m, c) ==
  /\ fs \in Seq(Frame) /\ m \in 0..Len(fs) /\ c \in 0..(Len(fs) - m)
  /\ frames = [k \in 1..c |-> Encoded(fs[m + k])]

(* Decoded frames bear the ids of those that were encoded, and parse.      *)
LEMMA IdsOfFrames ==
  ASSUME NEW fs, NEW m, NEW c, NEW frames, IsChunk(frames, fs, m, c)
  PROVE  /\ DOMAIN frames = 1..c
         /\ \A k \in 1..c : Id(frames[k]) = fs[m + k][1] /\ Parses(frames[k])
         /\ Ids(frames) = [k \in 1..c |-> fs[m + k][1]]
<1>. /\ fs \in Seq(Frame) /\ m \in 0..Len(fs) /\ c \in 0..(Len(fs) - m)
     /\ frames = [k \in 1..c |-> Encoded(fs[m + k])]
  BY DEF IsChunk
<1>1. DOMAIN frames = 1..c /\ Len(fs) \in Nat /\ m \in Nat /\ Header \in Nat /\ Header >= 1
  BY WireAssumption
<1>2. ASSUME NEW k \in 1..c PROVE Id(frames[k]) = fs[m + k][1] /\ Parses(frames[k])
  <2> DEFINE f == fs[m + k]
  <2>1. m + k \in 1..Len(fs)
    BY <1>1
  <2>2. f \in Frame
    BY <2>1, ElementOfSeq
  <2> HIDE DEF f
  <2>3. f[2] \in Nat
    BY <2>2 DEF Frame
  <2>4. 1 \in 1..(Header + f[2])
    BY <2>3, <1>1
  <2>5. Len(Encoded(f)) = Header + f[2] /\ Encoded(f)[1] = <<f[1], f[2], 1>>
    BY <2>2, <2>4, EncodedIs
  <2>6. frames[k] = Encoded(f)
    BY DEF f
  <2>7. Id(Encoded(f)) = f[1]
    BY <2>5 DEF Id
  <2>8. Len(Encoded(f)) - Header = f[2]
    BY <2>3, <2>5, <1>1
  <2>9. Parses(Encoded(f))
    BY <2>7, <2>8 DEF Parses, Encoded
  <2> QED
    BY <2>6, <2>7, <2>9 DEF f
<1>3. Ids(frames) = [k \in 1..c |-> fs[m + k][1]]
  <2>1. Ids(frames) = [k \in 1..c |-> Id(frames[k])]
    BY <1>1 DEF Ids
  <2> QED
    BY <2>1, <1>2
<1> QED
  BY <1>1, <1>2, <1>3

(* The frames the client sends.                                            *)
Asked == [k \in Request |-> <<k, asks[k]>>]

(* The part of TypeOK about what never changes.                            *)
Sizes ==
  /\ asks \in [Request -> AskSize] /\ answers \in [Request -> AnswerSize]
  /\ broken \subseteq Request

(* The frames of the requests.                                             *)
LEMMA AskedIs ==
  ASSUME Sizes
  PROVE  Asked \in Seq(Frame) /\ Len(Asked) = Requests /\ \A k \in 1..Requests : Asked[k] = <<k, asks[k]>>
<1>1. Requests \in Nat /\ \A k \in 1..Requests : <<k, asks[k]>> \in Frame
  <2>1. Requests \in Nat /\ AskSize \subseteq Nat
    BY WireAssumption
  <2>2. ASSUME NEW k \in 1..Requests PROVE asks[k] \in Nat /\ k \in Nat
    <3>1. asks[k] \in AskSize
      BY DEF Sizes, Request
    <3>2. \A a \in AskSize : a \in Nat
      BY <2>1
    <3>3. k \in Nat
      BY <2>1
    <3> QED
      BY <3>1, <3>2, <3>3
  <2> QED
    BY <2>1, <2>2 DEF Frame
<1>2. Asked \in [1..Requests -> Frame] /\ \A k \in 1..Requests : Asked[k] = <<k, asks[k]>>
  BY <1>1 DEF Asked, Request
<1> QED
  BY <1>1, <1>2, SeqDef

(* What the broker's decoder gives of c requests after the first j, the    *)
(* rest of the stream behind them.                                         *)
Chunk(d, j, c) ==
  /\ j \in 0..Requests /\ c \in 0..(Requests - j)
  /\ d.frames = [k \in 1..c |-> Encoded(Asked[j + k])]
  /\ d.rest \in Bytes /\ \E more \in Bytes : Stream(d.rest \o more, Asked, j + c)

(* The requests j + 1 .. j + c bear their numbers.                         *)
LEMMA ChunkIs ==
  ASSUME Sizes, NEW d, NEW j, NEW c, Chunk(d, j, c)
  PROVE  /\ DOMAIN d.frames = 1..c
         /\ \A k \in 1..c : Id(d.frames[k]) = j + k /\ Parses(d.frames[k])
         /\ Ids(d.frames) = [k \in 1..c |-> j + k]
<1> DEFINE frames == d.frames
<1>1. /\ Asked \in Seq(Frame) /\ Len(Asked) = Requests /\ Requests \in Nat
      /\ \A k \in 1..Requests : Asked[k] = <<k, asks[k]>>
  BY AskedIs, WireAssumption
<1>2. j \in 0..Len(Asked) /\ c \in 0..(Len(Asked) - j)
      /\ frames = [k \in 1..c |-> Encoded(Asked[j + k])]
  BY <1>1 DEF Chunk, frames
<1> HIDE DEF frames
<1>3. /\ DOMAIN frames = 1..c
      /\ \A k \in 1..c : Id(frames[k]) = Asked[j + k][1] /\ Parses(frames[k])
      /\ Ids(frames) = [k \in 1..c |-> Asked[j + k][1]]
  <2>1. IsChunk(frames, Asked, j, c)
    BY <1>1, <1>2 DEF IsChunk
  <2> QED
    BY <2>1, IdsOfFrames
<1>4. \A k \in 1..c : Asked[j + k][1] = j + k
  <2> TAKE k \in 1..c
  <2>1. j + k \in 1..Requests
    BY <1>1, <1>2
  <2> QED
    BY <2>1, <1>1
<1> QED
  BY <1>3, <1>4 DEF frames

(* The answer does not fit a frame.                                        *)
Long(i) == answers[i] > MaxFrame

(* Why the broker may refuse.                                              *)
Reason == broken # {} \/ \E i \in Request : asks[i] > MaxFrame \/ Long(i)

(* What is handled of them: none if one is unreadable, else the first s,   *)
(* up to the first whose answer does not fit; s is c unless the connection *)
(* ends.                                                                   *)
LEMMA ChunkServed ==
  ASSUME Sizes, NEW d, NEW j, NEW c, Chunk(d, j, c)
  PROVE  /\ Unreadable(d) => Served(d) = <<>> /\ j + 1 <= Requests /\ Reason /\ Fatal(d)
         /\ ~ Unreadable(d) =>
              \E s \in 0..c :
                /\ Served(d) = [k \in 1..s |-> j + k]
                /\ \A k \in 1..s : Long(j + k) => k = s /\ Fatal(d)
                /\ ~ Fatal(d) => s = c
<1>1. /\ DOMAIN d.frames = 1..c
      /\ \A k \in 1..c : Id(d.frames[k]) = j + k /\ Parses(d.frames[k])
      /\ Ids(d.frames) = [k \in 1..c |-> j + k]
  BY ChunkIs
<1>2. j \in Nat /\ c \in Nat /\ Requests \in Nat /\ j + c <= Requests
  BY WireAssumption DEF Chunk
<1>3. ASSUME Unreadable(d)
      PROVE  Served(d) = <<>> /\ j + 1 <= Requests /\ Reason /\ Fatal(d)
  <2>1. Served(d) = <<>> /\ Fatal(d)
    BY <1>3 DEF Served, Fatal
  <2>2. CASE TooLong(d.rest)
    <3>1. /\ Asked \in Seq(Frame) /\ Len(Asked) = Requests
          /\ \A k \in 1..Requests : Asked[k] = <<k, asks[k]>>
      BY AskedIs
    <3>2. PICK more \in Bytes : d.rest \in Bytes /\ Stream(d.rest \o more, Asked, j + c)
      BY DEF Chunk
    <3> DEFINE m == j + c
               rest == d.rest
    <3>3. m \in 0..Len(Asked) /\ rest \in Seq(Byte) /\ more \in Seq(Byte)
          /\ Stream(rest \o more, Asked, m) /\ Len(rest) >= Header /\ Declared(rest) > MaxFrame
      BY <1>2, <2>2, <3>1, <3>2 DEF TooLong, Bytes
    <3> HIDE DEF m, rest
    <3>4. m < Requests /\ Declared(rest) = Asked[m + 1][2]
      BY <3>1, <3>3, FrontDeclares
    <3>5. m \in Nat /\ m + 1 \in 1..Requests
      BY <1>2, <3>1, <3>3, <3>4
    <3>6. asks[m + 1] > MaxFrame /\ m + 1 \in Request
      BY <3>1, <3>3, <3>4, <3>5 DEF Request
    <3>7. j + 1 <= Requests
      BY <1>2, <3>4 DEF m
    <3> QED
      BY <2>1, <3>6, <3>7 DEF Reason
  <2>3. CASE ~ TooLong(d.rest)
    <3>1. c >= 1 /\ broken # {}
      BY <1>1, <1>2, <1>3, <2>3 DEF Unreadable, Garbled
    <3>2. j + 1 <= Requests
      BY <1>2, <3>1
    <3> QED
      BY <2>1, <3>1, <3>2 DEF Reason
  <2> QED
    BY <2>2, <2>3
<1>4. ASSUME ~ Unreadable(d)
      PROVE  \E s \in 0..c :
               /\ Served(d) = [k \in 1..s |-> j + k]
               /\ \A k \in 1..s : Long(j + k) => k = s /\ Fatal(d)
               /\ ~ Fatal(d) => s = c
  <2> DEFINE long == {k \in 1..c : Long(j + k)}
             ids == [k \in 1..c |-> j + k]
  <2>1. {k \in DOMAIN d.frames : answers[Id(d.frames[k])] > MaxFrame} = long
    BY <1>1 DEF Long
  <2>2. Fatal(d) <=> long # {}
    BY <1>1, <1>4, <2>1 DEF Fatal
  <2>3. Served(d) = IF long = {} THEN ids ELSE SubSeq(ids, 1, Min(long))
    BY <1>1, <1>4, <2>1 DEF Served
  <2>4. CASE long = {}
    <3>1. Served(d) = [k \in 1..c |-> j + k] /\ ~ Fatal(d)
      BY <2>2, <2>3, <2>4
    <3>2. \A k \in 1..c : ~ Long(j + k)
      BY <2>4
    <3>3. c \in 0..c
      BY <1>2
    <3> QED
      BY <3>1, <3>2, <3>3
  <2>5. CASE long # {}
    <3>1. \E x \in long : \A y \in long : x <= y
      <4>1. long \in SUBSET Nat
        OBVIOUS
      <4> QED
        BY <4>1, <2>5, HasLeast
    <3> DEFINE s == Min(long)
    <3>2. s \in long /\ \A y \in long : s <= y
      BY <3>1 DEF Min
    <3> HIDE DEF s
    <3>3. s \in 1..c /\ s \in Nat
      BY <3>2, <1>2
    <3>4. SubSeq(ids, 1, s) = [k \in 1..s |-> j + k]
      <4>1. ids \in [1..c -> Nat]
        BY <1>2
      <4>2. ids \in Seq(Nat)
        BY <4>1, <1>2, SeqDef
      <4>3. /\ \A i \in 1..s : i \in 1..c
            /\ \A i \in 1..s : ids[i] = j + i /\ ids[i] \in Nat
        BY <3>3, <1>2
      <4> HIDE DEF ids
      <4>4. /\ SubSeq(ids, 1, s) \in Seq(Nat)
            /\ Len(SubSeq(ids, 1, s)) = IF 1 <= s THEN s - 1 + 1 ELSE 0
            /\ \A i \in 1..(s - 1 + 1) : SubSeq(ids, 1, s)[i] = ids[1 + i - 1]
        BY <4>3, <3>3, SubSeqProperties
      <4>5. Len(SubSeq(ids, 1, s)) = s /\ \A i \in 1..s : SubSeq(ids, 1, s)[i] = j + i
        BY <4>3, <4>4, <3>3
      <4>6. SubSeq(ids, 1, s) \in [1..s -> Nat]
        BY <4>4, <4>5, LenProperties
      <4> QED
        BY <4>5, <4>6
    <3>5. \A k \in 1..s : Long(j + k) => k = s
      <4> TAKE k \in 1..s
      <4>1. k \in 1..c /\ k <= s /\ k \in Nat
        BY <3>3, <1>2
      <4> QED
        BY <4>1, <3>2, <3>3
    <3>6. Served(d) = SubSeq(ids, 1, s)
      BY <2>3, <2>5 DEF s
    <3>7. s \in 0..c
      BY <3>3, <1>2
    <3> HIDE DEF long, ids
    <3> QED
      BY <3>4, <3>5, <3>6, <3>7, <2>2, <2>5
  <2> QED
    BY <2>4, <2>5
<1> QED
  BY <1>3, <1>4

(* The k-th frame the broker has written: the answer to the k-th request,  *)
(* or a refusal after which there is nothing; either way it fits.          *)
Proper(fs, k, h) ==
  /\ fs[k][2] <= MaxFrame
  /\ \/ fs[k][1] = k /\ k <= h /\ ~ Long(k)
     \/ fs[k][1] = BadFrame /\ k = Len(fs) /\ Reason

(* The frame that answers i: an error frame if the answer does not fit.    *)
Reply(i) == IF Long(i) THEN <<BadFrame, ErrorSize>> ELSE <<i, answers[i]>>

(* An answer is the encoding of the frame Reply.                           *)
LEMMA ReplyIs ==
  ASSUME Sizes, NEW i \in Request
  PROVE  /\ Reply(i) \in Frame /\ Answer(i) = Encoded(Reply(i)) /\ i \in Nat /\ i # BadFrame
         /\ Reply(i)[2] <= MaxFrame
<1>1. /\ answers[i] \in Nat /\ ErrorSize \in Nat /\ Requests \in Nat
      /\ MaxFrame \in Nat /\ ErrorSize <= MaxFrame
  <2>1. answers[i] \in AnswerSize
    BY DEF Sizes
  <2>2. /\ \A a \in AnswerSize : a \in Nat
        /\ ErrorSize \in Nat /\ Requests \in Nat /\ MaxFrame \in Nat /\ ErrorSize <= MaxFrame
    BY WireAssumption
  <2> QED
    BY <2>1, <2>2
<1>2. i \in Nat /\ i # 0
  BY <1>1 DEF Request
<1>3. <<BadFrame, ErrorSize>> \in Frame /\ <<i, answers[i]>> \in Frame
  BY <1>1, <1>2 DEF Frame, BadFrame
<1>4. /\ <<BadFrame, ErrorSize>>[1] = BadFrame /\ <<BadFrame, ErrorSize>>[2] = ErrorSize
      /\ <<i, answers[i]>>[1] = i /\ <<i, answers[i]>>[2] = answers[i]
  OBVIOUS
<1>5. Reply(i) \in Frame
  BY <1>3 DEF Reply
<1>6. Answer(i) = Encoded(Reply(i))
  BY <1>4 DEF Answer, Reply, Encoded, Long
<1>7. Reply(i)[2] <= MaxFrame
  BY <1>1, <1>4 DEF Reply, Long
<1> QED
  BY <1>2, <1>5, <1>6, <1>7 DEF BadFrame

(* Answers to the requests j + 1 .. j + s, behind the first j frames.      *)
Answering(fs, j, gs, h, done) ==
  /\ gs \in Seq(Frame) /\ Len(gs) <= Requests /\ Len(fs) <= Len(gs)
  /\ \A k \in 1..Len(fs) : gs[k] = fs[k]
  /\ \A k \in (Len(fs) + 1)..Len(gs) : Proper(gs, k, h)
  /\ ~ done => Len(gs) = h /\ \A k \in (Len(fs) + 1)..Len(gs) : gs[k][1] # BadFrame

(* Behind a stream of the answers so far, what the broker answers to a     *)
(* chunk is a stream of one frame per request that it handled, each        *)
(* proper.                                                                 *)
LEMMA ChunkReplies ==
  ASSUME Sizes, NEW d, NEW j, NEW c, Chunk(d, j, c),
         NEW fs \in Seq(Frame), Len(fs) = j,
         NEW W \in Bytes, NEW m \in 0..Len(fs), Stream(W, fs, m)
  PROVE  /\ Replies(d) \in Bytes
         /\ \E gs : /\ Answering(fs, j, gs, j + Len(Served(d)), Fatal(d))
                    /\ Stream(W \o Replies(d), gs, m)
<1>1. /\ j \in Nat /\ c \in Nat /\ j + c <= Requests /\ Requests \in Nat /\ ErrorSize \in Nat
      /\ ErrorSize <= MaxFrame
  BY WireAssumption DEF Chunk
<1>2. CASE Unreadable(d)
  <2>1. Served(d) = <<>> /\ j + 1 <= Requests /\ Reason /\ Fatal(d)
    BY <1>2, ChunkServed
  <2> DEFINE f == <<BadFrame, ErrorSize>>
             gs == Append(fs, f)
  <2>2. f \in Frame /\ f[1] = BadFrame /\ f[2] = ErrorSize
    BY <1>1 DEF Frame, BadFrame
  <2>3. Replies(d) = Encoded(f)
    BY <1>2, <2>2 DEF Replies, Encoded
  <2> HIDE DEF f
  <2>4. /\ gs \in Seq(Frame) /\ Len(gs) = j + 1
        /\ \A k \in 1..j : gs[k] = fs[k]
        /\ gs[j + 1] = f
    BY <2>2, AppendProperties
  <2>5. Replies(d) \in Bytes /\ Stream(W \o Replies(d), gs, m)
    BY <2>2, <2>3, EncodedIs, GrowStream DEF Bytes
  <2> HIDE DEF gs
  <2>6. Answering(fs, j, gs, j + Len(Served(d)), Fatal(d))
    <3>1. \A k \in (Len(fs) + 1)..Len(gs) : k = j + 1
      BY <2>4, <1>1
    <3>2. Len(gs) <= Requests /\ Len(fs) <= Len(gs)
      BY <2>1, <2>4, <1>1
    <3>3. Proper(gs, j + 1, j + Len(Served(d)))
      BY <1>1, <2>1, <2>2, <2>4 DEF Proper
    <3> QED
      BY <2>1, <2>4, <3>1, <3>2, <3>3 DEF Answering
  <2> QED
    BY <2>5, <2>6
<1>3. CASE ~ Unreadable(d)
  <2>1. PICK s \in 0..c :
          /\ Served(d) = [k \in 1..s |-> j + k]
          /\ \A k \in 1..s : Long(j + k) => k = s /\ Fatal(d)
          /\ ~ Fatal(d) => s = c
    BY <1>3, ChunkServed
  <2>2. s \in Nat /\ s <= c
    BY <1>1
  <2>3. \A k \in 1..s : j + k \in Request /\ k \in Nat
    BY <1>1, <2>2 DEF Request
  <2>4. Len(Served(d)) = s /\ \A k \in 1..s : Served(d)[k] = j + k
    BY <2>1, <2>2
  <2> DEFINE g == [k \in 1..s |-> Reply(j + k)]
  <2>5. /\ g \in Seq(Frame) /\ Len(g) = s
        /\ \A k \in 1..s : g[k] = Reply(j + k)
    <3>1. \A k \in 1..s : Reply(j + k) \in Frame
      BY <2>3, ReplyIs
    <3>2. g \in [1..s -> Frame] /\ \A k \in 1..s : g[k] = Reply(j + k)
      BY <3>1
    <3> HIDE DEF g
    <3> QED
      BY <2>2, <3>2, SeqDef
  <2> HIDE DEF g
  <2>6. PICK t : /\ t = [k \in 0..Len(Served(d)) |->
                           IF k = 0 THEN <<>> ELSE t[k - 1] \o Answer(Served(d)[k])]
                 /\ Replies(d) = t[Len(Served(d))]
    BY <1>3, <2>2, <2>4, RepliesIs
  <2>7. t = [k \in 0..Len(g) |-> IF k = 0 THEN <<>> ELSE t[k - 1] \o Encoded(g[k])]
    <3>1. ASSUME NEW k \in 0..s, k # 0
          PROVE  Answer(Served(d)[k]) = Encoded(g[k])
      <4>1. k \in 1..s
        BY <2>2, <3>1
      <4>2. Answer(j + k) = Encoded(Reply(j + k))
        BY <4>1, <2>3, ReplyIs
      <4> QED
        BY <4>1, <4>2, <2>4, <2>5
    <3>2. t = [k \in 0..s |-> IF k = 0 THEN <<>> ELSE t[k - 1] \o Answer(Served(d)[k])]
      BY <2>4, <2>6
    <3> QED
      BY <3>1, <3>2, <2>5
  <2> DEFINE gs == fs \o g
  <2>8. /\ gs \in Seq(Frame) /\ Len(gs) = j + s
        /\ \A k \in 1..(j + s) : gs[k] = IF k <= j THEN fs[k] ELSE g[k - j]
    BY <2>5, ConcatProperties
  <2>9. Replies(d) \in Bytes /\ Stream(W \o Replies(d), gs, m)
    <3>1. t[Len(g)] \in Seq(Byte) /\ Stream(W \o t[Len(g)], fs \o g, m)
      BY <2>5, <2>7, GrowStreams DEF Bytes
    <3>2. Replies(d) = t[Len(g)]
      BY <2>4, <2>5, <2>6
    <3> QED
      BY <3>1, <3>2 DEF Bytes
  <2> HIDE DEF gs
  <2>10. ASSUME NEW k \in (j + 1)..(j + s)
         PROVE  /\ Proper(gs, k, j + s)
                /\ ~ Fatal(d) => gs[k][1] # BadFrame
    <3>1. k \in 1..(j + s) /\ ~ (k <= j) /\ k - j \in 1..s /\ j + (k - j) = k
      BY <1>1, <2>2
    <3>2. gs[k] = Reply(k) /\ k \in Request /\ gs[k][2] <= MaxFrame
      BY <3>1, <2>3, <2>5, <2>8, ReplyIs
    <3>3. CASE Long(k)
      <4>1. k - j = s /\ Fatal(d)
        BY <3>1, <3>3, <2>1
      <4>2. gs[k][1] = BadFrame
        BY <3>2, <3>3 DEF Reply
      <4>3. k = Len(gs)
        BY <4>1, <3>1, <2>8
      <4>4. Reason
        BY <3>2, <3>3 DEF Reason
      <4> QED
        BY <3>2, <4>1, <4>2, <4>3, <4>4 DEF Proper
    <3>4. CASE ~ Long(k)
      <4>1. gs[k][1] = k /\ k # BadFrame
        BY <3>2, <3>4, ReplyIs DEF Reply
      <4>2. k <= j + s
        BY <3>1
      <4> QED
        BY <3>2, <4>1, <4>2, <3>4 DEF Proper
    <3> QED
      BY <3>3, <3>4
  <2>11. Answering(fs, j, gs, j + Len(Served(d)), Fatal(d))
    <3>1. Len(gs) <= Requests /\ Len(fs) <= Len(gs)
      BY <1>1, <2>2, <2>8
    <3>2. \A k \in 1..j : gs[k] = fs[k]
      <4> TAKE k \in 1..j
      <4>1. k \in 1..(j + s) /\ k <= j
        BY <1>1, <2>2
      <4> QED
        BY <4>1, <2>8
    <3> QED
      BY <3>1, <3>2, <2>4, <2>8, <2>10 DEF Answering
  <2> QED
    BY <2>9, <2>11
<1> QED
  BY <1>2, <1>3

-----------------------------------------------------------------------------
(* The stages of the connection, and the types of the bytes.               *)
Typed ==
  /\ Sizes
  /\ peer \in {"connecting", "open", "ended"} /\ conn \in {"none", "open", "ended", "closed"}
  /\ verdict \in {"none", "resolved", "late", "closed"}
  /\ up \in Bytes /\ down \in Bytes /\ Len(up) <= Capacity /\ Len(down) <= Capacity
  /\ outbound \in Bytes /\ incoming \in Bytes /\ arrived \in Bytes /\ outbox \in Bytes
  /\ handled \in Seq(Request) /\ Len(handled) <= Requests
  /\ got \in Seq(Request \union {BadFrame})
  /\ stalled \subseteq {"client", "broker"}

Stages ==
  /\ peer = "connecting" => /\ conn \in {"none", "closed"} /\ down = <<>> /\ incoming = <<>>
                            /\ outbox = <<>> /\ got = <<>>
  /\ peer = "open" => conn # "none"
  /\ conn = "none" => handled = <<>>
  /\ conn \in {"none", "closed"} => outbox = <<>>

(* Of the requests, j have left the broker's decoder; what it still holds, *)
(* what is in the socket and what the client has yet to write are the      *)
(* others, up to where a client that gave up stopped.                      *)
Upward(j, lost) ==
  /\ Stream(arrived \o (up \o (outbound \o lost)), Asked, j)
  /\ Len(handled) <= j
  /\ conn \in {"none", "open"} => Len(handled) = j
  /\ \A k \in 1..Len(handled) : handled[k] <= j

RequestsArrive == conn # "closed" => \E j \in 0..Requests, lost \in Bytes : Upward(j, lost)

InOrder ==
  /\ conn \in {"none", "open"} => \A k \in 1..Len(handled) : handled[k] = k
  /\ \A k, l \in 1..Len(handled) : k < l => handled[k] < handled[l]

(* fs are the frames the broker has written.  The client has decoded the   *)
(* first of them, and what it has buffered, what is in the socket and what *)
(* the broker has yet to write are the others, up to where the broker let  *)
(* go of the connection.                                                   *)
Flowing(fs, lost) ==
  /\ Stream(incoming \o (down \o (outbox \o lost)), fs, Len(got))
  /\ conn = "open" => lost = <<>> /\ Len(fs) = Len(handled)
                                  /\ \A k \in 1..Len(fs) : fs[k][1] # BadFrame

Downward(fs) ==
  /\ Len(got) <= Len(fs) /\ Len(fs) <= Requests
  /\ \A k \in 1..Len(got) : got[k] = fs[k][1]
  /\ \A k \in 1..Len(fs) : Proper(fs, k, Len(handled))
  /\ peer = "open" => \E lost \in Bytes : Flowing(fs, lost)

AnswersArrive == \E fs \in Seq(Frame) : Downward(fs)

WireInv == Typed /\ Stages /\ RequestsArrive /\ InOrder /\ AnswersArrive

(* No bytes, before and after others.                                      *)
LEMMA EmptyBytes ==
  /\ <<>> \in Bytes
  /\ \A a \in Bytes : a \o <<>> = a /\ <<>> \o a = a
BY EmptySeq, ConcatEmptySeq DEF Bytes

(* Bytes behind bytes are bytes.                                           *)
LEMMA JoinBytes ==
  ASSUME NEW a \in Bytes, NEW b \in Bytes
  PROVE  a \o b \in Bytes
BY ConcatProperties DEF Bytes

(* At first the requests are all in what the client has yet to write.      *)
LEMMA InitWire == Init => WireInv
<1> SUFFICES ASSUME Init PROVE WireInv
  OBVIOUS
<1>1. Sizes
  BY DEF Init, Sizes
<1>2. Asked \in Seq(Frame) /\ Len(Asked) = Requests /\ Requests \in Nat
      /\ \A k \in 1..Requests : Asked[k] = <<k, asks[k]>>
  BY <1>1, AskedIs, WireAssumption
<1>3. PICK t : /\ t = [k \in 0..Requests |-> IF k = 0 THEN <<>> ELSE t[k - 1] \o EncodeFrame(k, asks[k])]
               /\ outbound = t[Requests]
  BY OutboundIs
<1>4. t = [k \in 0..Len(Asked) |-> IF k = 0 THEN <<>> ELSE t[k - 1] \o Encoded(Asked[k])]
  <2>1. \A k \in 0..Requests : k # 0 => EncodeFrame(k, asks[k]) = Encoded(Asked[k])
    <3> TAKE k \in 0..Requests
    <3>1. k # 0 => k \in 1..Requests
      BY <1>2
    <3>2. <<k, asks[k]>>[1] = k /\ <<k, asks[k]>>[2] = asks[k]
      OBVIOUS
    <3> QED
      BY <3>1, <3>2, <1>2 DEF Encoded
  <2> QED
    BY <2>1, <1>2, <1>3
<1>5. outbound \in Bytes /\ Stream(outbound, Asked, 0)
  <2>1. <<>> \in Seq(Byte) /\ <<>> \in Seq(Frame) /\ 0 \in 0..Len(<<>>)
    BY EmptySeq
  <2>2. t[Len(Asked)] \in Seq(Byte) /\ Stream(<<>> \o t[Len(Asked)], <<>> \o Asked, 0)
    BY <2>1, <1>2, <1>4, NoFrames, GrowStreams
  <2>3. <<>> \o t[Len(Asked)] = t[Len(Asked)] /\ <<>> \o Asked = Asked
    BY <2>2, <1>2, ConcatEmptySeq
  <2> QED
    BY <2>2, <2>3, <1>2, <1>3 DEF Bytes
<1>6. Typed
  <2>1. Len(<<>>) = 0 /\ <<>> \in Seq(Request) /\ <<>> \in Seq(Request \union {BadFrame})
        /\ Capacity \in Nat
    BY EmptySeq, WireAssumption
  <2> QED
    BY <2>1, <1>1, <1>2, <1>5, EmptyBytes DEF Init, Typed
<1>7. Stages
  BY DEF Init, Stages
<1>8. RequestsArrive
  <2>1. arrived \o (up \o (outbound \o <<>>)) = outbound
    BY <1>5, EmptyBytes, SMTT(30) DEF Init
  <2>2. Upward(0, <<>>)
    BY <2>1, <1>5 DEF Init, Upward
  <2> QED
    BY <2>2, <1>2, EmptyBytes DEF RequestsArrive
<1>9. InOrder
  BY DEF Init, InOrder
<1>10. AnswersArrive
  <2>1. Downward(<<>>)
    BY <1>2 DEF Init, Downward
  <2>2. <<>> \in Seq(Frame)
    BY EmptySeq
  <2> QED
    BY <2>1, <2>2 DEF AnswersArrive
<1> QED
  BY <1>6, <1>7, <1>8, <1>9, <1>10 DEF WireInv

(* The invariant says all that TypeOK does.                                *)
LEMMA InvTypes == WireInv => TypeOK
<1> SUFFICES ASSUME WireInv PROVE TypeOK
  OBVIOUS
<1>1. PICK fs \in Seq(Frame) : Downward(fs)
  BY DEF WireInv, AnswersArrive
<1>2. Len(got) <= Requests
  <2>1. Len(got) \in Nat /\ Len(fs) \in Nat /\ Requests \in Nat
    BY WireAssumption DEF WireInv, Typed
  <2> QED
    BY <2>1, <1>1 DEF Downward
<1> QED
  BY <1>2 DEF WireInv, Typed, Sizes, TypeOK

(* And all that Intact does: a decoded answer is one of the frames the     *)
(* broker has written, and the client never failed on one.                 *)
LEMMA InvIntact == WireInv => Intact
<1> SUFFICES ASSUME WireInv PROVE Intact
  OBVIOUS
<1>1. PICK fs \in Seq(Frame) : Downward(fs)
  BY DEF WireInv, AnswersArrive
<1>2. /\ DOMAIN handled = 1..Len(handled) /\ DOMAIN got = 1..Len(got)
      /\ Len(got) \in Nat /\ Len(fs) \in Nat /\ Requests \in Nat
  BY WireAssumption, LenProperties DEF WireInv, Typed
<1>3. /\ \A i \in Request : answers[i] \in Nat
      /\ MaxFrame \in Nat
  <2>1. \A i \in Request : answers[i] \in AnswerSize
    BY DEF WireInv, Typed, Sizes
  <2> QED
    BY <2>1, WireAssumption
<1>4. conn = "open" => \A k \in DOMAIN handled : handled[k] = k
  BY <1>2 DEF WireInv, InOrder
<1>5. \A k, l \in DOMAIN handled : k < l => handled[k] < handled[l]
  BY <1>2 DEF WireInv, InOrder
<1>6. ASSUME NEW k \in DOMAIN got
      PROVE  \/ got[k] = k /\ k <= Len(handled) /\ answers[k] <= MaxFrame
             \/ /\ got[k] = BadFrame /\ k = Len(got)
                /\ broken # {} \/ \E i \in Request : asks[i] > MaxFrame \/ answers[i] > MaxFrame
  <2>1. k \in 1..Len(fs) /\ k \in Request /\ got[k] = fs[k][1] /\ k <= Len(got)
        /\ Len(got) <= Len(fs)
    BY <1>1, <1>2 DEF Downward, Request
  <2>2. Proper(fs, k, Len(handled))
    BY <1>1, <2>1 DEF Downward
  <2>3. CASE fs[k][1] = k /\ k <= Len(handled) /\ ~ Long(k)
    BY <2>1, <2>3, <1>3 DEF Long
  <2>4. CASE fs[k][1] = BadFrame /\ k = Len(fs) /\ Reason
    BY <2>1, <2>4, <1>2 DEF Reason, Long
  <2> QED
    BY <2>2, <2>3, <2>4 DEF Proper
<1>7. verdict # "failed"
  BY DEF WireInv, Typed
<1> QED
  BY <1>4, <1>5, <1>6, <1>7 DEF Intact

-----------------------------------------------------------------------------
(* A frame that is proper stays so when more is handled.                   *)
LEMMA StillProper ==
  ASSUME UNCHANGED sizes, NEW fs, NEW k \in Nat, NEW h \in Nat, NEW i \in Nat, h <= i,
         Proper(fs, k, h)
  PROVE  Proper(fs, k, i)'
<1>1. Long(k)' = Long(k) /\ Reason' = Reason
  BY DEF sizes, Long, Reason
<1> QED
  BY <1>1 DEF Proper

(* The requests when the broker's decoder does nothing: the same bytes are *)
(* somewhere on their way, those the client gave up among the lost ones.   *)
LEMMA RequestsKept ==
  ASSUME WireInv, UNCHANGED <<sizes, handled>>,
         conn' = conn \/ conn' = "closed" \/ (conn = "none" /\ conn' = "open"),
         conn' # "closed" => \A lost \in Bytes : \E l \in Bytes :
           arrived' \o (up' \o (outbound' \o l)) = arrived \o (up \o (outbound \o lost))
  PROVE  RequestsArrive'
<1> SUFFICES ASSUME conn' # "closed" PROVE \E j \in 0..Requests, lost \in Bytes : Upward(j, lost)'
  BY DEF RequestsArrive
<1>1. PICK j \in 0..Requests, lost \in Bytes : Upward(j, lost)
  BY DEF WireInv, RequestsArrive
<1>2. PICK l \in Bytes : arrived' \o (up' \o (outbound' \o l)) = arrived \o (up \o (outbound \o lost))
  OBVIOUS
<1>3. Asked' = Asked
  BY DEF Asked, sizes
<1>4. Upward(j, l)'
  BY <1>1, <1>2, <1>3 DEF Upward
<1> QED
  BY <1>4

(* The order of what was handled, when nothing is handled.                 *)
LEMMA OrderKept ==
  ASSUME WireInv, UNCHANGED handled,
         conn' \in {"none", "open"} => conn \in {"none", "open"}
  PROVE  InOrder'
BY DEF WireInv, InOrder

(* The answers when the broker writes none: the same bytes are somewhere   *)
(* on their way, unless the client has gone.                               *)
LEMMA AnswersKept ==
  ASSUME WireInv, UNCHANGED <<sizes, got>>,
         handled' = handled \/ (handled' \in Seq(Request) /\ Len(handled) <= Len(handled')),
         peer' = "open" => \A fs \in Seq(Frame), lost \in Bytes : Flowing(fs, lost) => 
                             peer = "open" /\ \E l \in Bytes : Flowing(fs, l)'
  PROVE  peer = "open" \/ peer' # "open" => AnswersArrive'
<1> SUFFICES ASSUME peer = "open" \/ peer' # "open" PROVE AnswersArrive'
  OBVIOUS
<1>1. PICK fs \in Seq(Frame) : Downward(fs)
  BY DEF WireInv, AnswersArrive
<1>2. PICK h \in Nat, i \in Nat : h = Len(handled) /\ i = Len(handled') /\ h <= i
  <2>1. handled \in Seq(Request) /\ Len(handled) \in Nat
    BY DEF WireInv, Typed
  <2> QED
    BY <2>1
<1>3. \A k \in 1..Len(fs) : Proper(fs, k, Len(handled))'
  <2> TAKE k \in 1..Len(fs)
  <2>1. Proper(fs, k, h) /\ k \in Nat
    BY <1>1, <1>2 DEF Downward
  <2>2. Proper(fs, k, i)'
    BY <2>1, <1>2, StillProper
  <2> QED
    BY <2>2, <1>2 DEF Proper
<1>4. peer' = "open" => \E lost \in Bytes : Flowing(fs, lost)'
  BY <1>1 DEF Downward
<1>5. Downward(fs)'
  BY <1>1, <1>3, <1>4 DEF Downward
<1> QED
  BY <1>5 DEF AnswersArrive

(* The client's writes.                                                    *)
LEMMA PeerPumps ==
  ASSUME WireInv, PeerPump, UNCHANGED <<sizes, handled, arrived>>,
         conn' = conn \/ (conn = "none" /\ conn' = "open")
  PROVE  /\ RequestsArrive' /\ up' \in Bytes /\ outbound' \in Bytes /\ Len(up') <= Capacity
         /\ stalled' \subseteq {"client", "broker"}
<1>1. outbound \in Bytes /\ up \in Bytes /\ Len(up) <= Capacity /\ stalled \subseteq {"client", "broker"}
  BY DEF WireInv, Typed
<1>2. up' = Filled(outbound, up) /\ outbound' = Unsent(outbound, up)
  BY DEF PeerPump
<1>3. up' \in Bytes /\ outbound' \in Bytes /\ Len(up') <= Capacity
  BY <1>1, <1>2, EmptyBytes, PumpKeepsOrder
<1>4. \A lost \in Bytes : up' \o (outbound' \o lost) = up \o (outbound \o lost)
  BY <1>1, <1>2, PumpKeepsOrder
<1>5. RequestsArrive'
  BY <1>4, RequestsKept
<1>6. stalled' \subseteq {"client", "broker"}
  BY <1>1 DEF PeerPump, Stalls
<1> QED
  BY <1>3, <1>5, <1>6

(* The connection is made; the client writes what fits.                    *)
LEMMA ConnectKeeps == WireInv /\ Connect => WireInv'
<1> SUFFICES ASSUME WireInv, Connect PROVE WireInv'
  OBVIOUS
<1>1. /\ peer = "connecting" /\ conn = "none" /\ peer' = "open" /\ conn' = "open" /\ PeerPump
      /\ UNCHANGED <<sizes, incoming, got, verdict, arrived, outbox, handled, down>>
  BY DEF Connect
<1>2. /\ RequestsArrive' /\ up' \in Bytes /\ outbound' \in Bytes /\ Len(up') <= Capacity
      /\ stalled' \subseteq {"client", "broker"}
  BY <1>1, PeerPumps
<1>3. Typed'
  BY <1>1, <1>2 DEF WireInv, Typed, Sizes, sizes
<1>4. Stages'
  BY <1>1 DEF WireInv, Stages
<1>5. InOrder'
  BY <1>1, OrderKept
<1>6. handled = <<>> /\ got = <<>> /\ down = <<>> /\ incoming = <<>> /\ outbox = <<>>
  BY <1>1 DEF WireInv, Stages
<1>7. Flowing(<<>>, <<>>)'
  <2>1. incoming' \o (down' \o (outbox' \o <<>>)) = <<>>
    BY <1>1, <1>6, EmptyBytes
  <2> QED
    BY <2>1, <1>1, <1>6, NoFrames DEF Flowing
<1>8. Downward(<<>>)'
  BY <1>1, <1>6, <1>7, EmptyBytes, WireAssumption DEF Downward
<1>9. AnswersArrive'
  BY <1>8, EmptySeq DEF AnswersArrive
<1> QED
  BY <1>2, <1>3, <1>4, <1>5, <1>9 DEF WireInv

(* There is room again, and the client writes more.                        *)
LEMMA DrainKeeps == WireInv /\ PeerDrain => WireInv'
<1> SUFFICES ASSUME WireInv, PeerDrain PROVE WireInv'
  OBVIOUS
<1>1. /\ PeerPump /\ peer = "open"
      /\ UNCHANGED <<sizes, peer, incoming, got, verdict, conn, arrived, outbox, handled, down>>
  BY DEF PeerDrain, broker
<1>2. /\ RequestsArrive' /\ up' \in Bytes /\ outbound' \in Bytes /\ Len(up') <= Capacity
      /\ stalled' \subseteq {"client", "broker"}
  BY <1>1, PeerPumps
<1>3. Typed'
  BY <1>1, <1>2 DEF WireInv, Typed, Sizes, sizes
<1>4. Stages'
  BY <1>1 DEF WireInv, Stages
<1>5. InOrder'
  BY <1>1, OrderKept
<1>6. AnswersArrive'
  <2>1. \A fs \in Seq(Frame), lost \in Bytes : Flowing(fs, lost) => Flowing(fs, lost)'
    BY <1>1 DEF Flowing
  <2> QED
    BY <1>1, <2>1, AnswersKept
<1> QED
  BY <1>2, <1>3, <1>4, <1>5, <1>6 DEF WireInv

(* The client gives up, whatever it still had to write.                    *)
LEMMA GivenUp ==
  ASSUME WireInv, NEW how, Settle(how), UNCHANGED <<sizes, broker, up>>
  PROVE  RequestsArrive' /\ InOrder' /\ Stages'
<1>1. peer' = "ended" /\ outbound' = <<>> /\ UNCHANGED <<sizes, conn, arrived, outbox, handled, up>>
  BY DEF Settle, broker
<1>2. outbound \in Bytes
  BY DEF WireInv, Typed
<1>3. ASSUME NEW lost \in Bytes
      PROVE  \E l \in Bytes : arrived' \o (up' \o (outbound' \o l)) = arrived \o (up \o (outbound \o lost))
  <2>1. outbound \o lost \in Bytes /\ <<>> \o (outbound \o lost) = outbound \o lost
    BY <1>2, JoinBytes, EmptyBytes
  <2> QED
    BY <2>1, <1>1
<1>4. RequestsArrive'
  BY <1>1, <1>3, RequestsKept
<1>5. InOrder'
  BY <1>1, OrderKept
<1>6. Stages'
  BY <1>1 DEF WireInv, Stages
<1> QED
  BY <1>4, <1>5, <1>6

(* The deadline fires, or the client sees the end of the connection.       *)
LEMMA QuitKeeps == WireInv /\ (Timeout \/ PeerClose) => WireInv'
<1> SUFFICES ASSUME WireInv, Timeout \/ PeerClose PROVE WireInv'
  OBVIOUS
<1>1. PICK how \in {"late", "closed"} : Settle(how)
  BY DEF Timeout, PeerClose
<1>2. UNCHANGED <<sizes, got, broker, up, down, stalled>>
  BY DEF Timeout, PeerClose
<1>3. RequestsArrive' /\ InOrder' /\ Stages'
  BY <1>1, <1>2, GivenUp
<1>4. peer' = "ended" /\ verdict' = how /\ outbound' = <<>> /\ incoming' = <<>>
  BY <1>1 DEF Settle
<1>5. Typed'
  BY <1>2, <1>4, EmptyBytes DEF WireInv, Typed, Sizes, sizes, broker
<1>6. AnswersArrive'
  BY <1>2, <1>4, AnswersKept DEF broker
<1> QED
  BY <1>3, <1>5, <1>6 DEF WireInv

(* The broker closes its end: what it had yet to write is lost.            *)
LEMMA CloseKeeps == WireInv /\ (ClientGone \/ BrokerStops) => WireInv'
<1> SUFFICES ASSUME WireInv, ClientGone \/ BrokerStops PROVE WireInv'
  OBVIOUS
<1>1. /\ conn' = "closed" /\ outbox' = <<>> /\ arrived' = <<>>
      /\ UNCHANGED <<sizes, peer, outbound, incoming, got, verdict, handled, up, down, stalled>>
  BY DEF ClientGone, BrokerStops, BrokerClose, client
<1>2. RequestsArrive'
  BY <1>1 DEF RequestsArrive
<1>3. InOrder'
  BY <1>1, OrderKept
<1>4. Stages'
  BY <1>1 DEF WireInv, Stages
<1>5. Typed'
  BY <1>1, EmptyBytes DEF WireInv, Typed, Sizes, sizes
<1>6. ASSUME NEW fs \in Seq(Frame), NEW lost \in Bytes, Flowing(fs, lost)
      PROVE  \E l \in Bytes : Flowing(fs, l)'
  <2>1. outbox \in Bytes
    BY DEF WireInv, Typed
  <2>2. PICK l \in Bytes : l = outbox \o lost
    BY <2>1, JoinBytes
  <2>3. <<>> \o l = l
    BY EmptyBytes
  <2>4. Stream(incoming \o (down \o l), fs, Len(got))
    BY <1>6, <2>2 DEF Flowing
  <2>5. incoming' \o (down' \o (outbox' \o l)) = incoming \o (down \o l)
    BY <1>1, <2>3
  <2>6. Flowing(fs, l)'
    BY <1>1, <2>4, <2>5 DEF Flowing
  <2> QED
    BY <2>6
<1>7. AnswersArrive'
  <2>1. CASE peer = "open"
    BY <1>1, <1>6, <2>1, AnswersKept
  <2>2. CASE peer # "open"
    BY <1>1, <2>2, AnswersKept
  <2> QED
    BY <2>1, <2>2
<1> QED
  BY <1>2, <1>3, <1>4, <1>5, <1>7 DEF WireInv

(* The client reads a piece.                                               *)
LEMMA DataKeeps == WireInv /\ PeerData => WireInv'
<1> SUFFICES ASSUME WireInv, PeerData PROVE WireInv'
  OBVIOUS
<1>1. peer = "open" /\ UNCHANGED <<sizes, conn, arrived, outbox, handled, up, stalled>>
  BY DEF PeerData, broker
<1>2. PICK n \in 1..Len(down) :
        LET d == Decoded(incoming \o SubSeq(down, 1, n))
        IN /\ down' = SubSeq(down, n + 1, Len(down))
           /\ got' = IF Garbled(d) THEN got ELSE got \o Ids(d.frames)
           /\ IF Garbled(d) THEN Settle("failed")
              ELSE IF Len(got') >= Requests \/ BadFrame \in {got'[k] : k \in DOMAIN got'}
                THEN Settle("resolved")
                ELSE incoming' = d.rest /\ UNCHANGED <<verdict, peer, outbound>>
  BY DEF PeerData
<1> DEFINE buf == incoming \o SubSeq(down, 1, n)
           d == Decoded(buf)
<1>3. /\ down \in Bytes /\ incoming \in Bytes /\ outbox \in Bytes /\ outbound \in Bytes
      /\ got \in Seq(Request \union {BadFrame}) /\ Len(got) \in Nat /\ Len(handled) \in Nat
      /\ Len(down) <= Capacity /\ Capacity \in Nat /\ Requests \in Nat
  BY WireAssumption DEF WireInv, Typed
<1>4. PICK fs \in Seq(Frame) : Downward(fs)
  BY DEF WireInv, AnswersArrive
<1>5. PICK lost \in Bytes : Flowing(fs, lost)
  BY <1>1, <1>4 DEF Downward
<1> DEFINE m == Len(got)
           x == outbox \o lost
           rest == SubSeq(down, n + 1, Len(down))
           more == rest \o x
<1>6. m \in 0..Len(fs) /\ Len(fs) \in Nat /\ Len(fs) <= Requests
  BY <1>3, <1>4 DEF Downward
<1>7. x \in Bytes
  BY <1>3, JoinBytes
<1>8. /\ buf \in Bytes /\ more \in Bytes /\ rest \in Bytes /\ Len(rest) <= Len(down)
      /\ buf \o more = incoming \o (down \o x)
  <2> HIDE DEF x
  <2>1. Split(incoming, down, x, n)
    BY <1>3, <1>7, Cut
  <2> QED
    BY <2>1 DEF Split
<1>9. Stream(buf \o more, fs, m)
  BY <1>5, <1>8 DEF Flowing
<1>10. PICK c \in 0..(Len(fs) - m) :
         /\ d.frames = [k \in 1..c |-> Encoded(fs[m + k])]
         /\ d.rest \in Seq(Byte) /\ Stream(d.rest \o more, fs, m + c)
  <2> HIDE DEF buf, more, m
  <2> QED
    BY <1>6, <1>8, <1>9, DecodedFrames DEF Bytes
<1> HIDE DEF x, more, buf
<1>11. /\ Ids(d.frames) = [k \in 1..c |-> fs[m + k][1]]
       /\ \A k \in DOMAIN d.frames : Parses(d.frames[k])
  <2> HIDE DEF d, m
  <2> DEFINE frames == d.frames
  <2>1. IsChunk(frames, fs, m, c)
    BY <1>6, <1>10 DEF IsChunk
  <2> HIDE DEF frames
  <2>2. /\ Ids(frames) = [k \in 1..c |-> fs[m + k][1]]
        /\ DOMAIN frames = 1..c /\ \A k \in 1..c : Parses(frames[k])
    BY <2>1, IdsOfFrames
  <2> QED
    BY <2>2 DEF frames
<1> DEFINE ids == Ids(d.frames)
<1>12. ASSUME NEW k \in 1..Len(fs) PROVE fs[k][1] \in Request \union {BadFrame}
  <2>1. Proper(fs, k, Len(handled))
    BY <1>4 DEF Downward
  <2>2. k \in Request
    <3> HIDE DEF m, d
    <3> QED
      BY <1>3, <1>6 DEF Request
  <2> QED
    BY <2>1, <2>2 DEF Proper
<1>13. c \in Nat /\ m + c \in 0..Len(fs) /\ m + c <= Len(fs)
  BY <1>3, <1>6
<1>14. ids \in Seq(Request \union {BadFrame}) /\ Len(ids) = c /\ \A k \in 1..c : ids[k] = fs[m + k][1]
  <2>1. \A k \in 1..c : fs[m + k][1] \in Request \union {BadFrame}
    <3> TAKE k \in 1..c
    <3>1. m + k \in 1..Len(fs)
      BY <1>3, <1>13
    <3> QED
      BY <3>1, <1>12
  <2>2. ids \in [1..c -> Request \union {BadFrame}] /\ \A k \in 1..c : ids[k] = fs[m + k][1]
    BY <2>1, <1>11
  <2> HIDE DEF ids
  <2> QED
    BY <2>2, <1>13, SeqDef
<1> HIDE DEF ids, d
<1>15. ~ TooLong(d.rest)
  <2> SUFFICES ASSUME TooLong(d.rest) PROVE FALSE
    OBVIOUS
  <2> DEFINE i == m + c
             left == d.rest
  <2>1. /\ i \in 0..Len(fs) /\ left \in Seq(Byte) /\ more \in Seq(Byte) /\ Stream(left \o more, fs, i)
        /\ Len(left) >= Header /\ Declared(left) > MaxFrame
    BY <1>8, <1>10, <1>13 DEF TooLong, Bytes
  <2> HIDE DEF i, left
  <2>2. i < Len(fs) /\ Declared(left) = fs[i + 1][2] /\ fs[i + 1][2] \in Nat
    BY <2>1, FrontDeclares
  <2>3. i + 1 \in 1..Len(fs)
    BY <1>6, <2>1, <2>2
  <2>4. fs[i + 1][2] <= MaxFrame
    BY <2>3, <1>4 DEF Downward, Proper
  <2> QED
    BY <2>1, <2>2, <2>4, WireAssumption
<1>16. ~ Garbled(d)
  BY <1>11, <1>15 DEF Garbled
<1>17. /\ down' = rest /\ got' = got \o ids
       /\ \/ Settle("resolved")
          \/ incoming' = d.rest /\ UNCHANGED <<verdict, peer, outbound>>
  <2>1. \/ Garbled(d)
        \/ /\ down' = rest /\ got' = got \o Ids(d.frames)
           /\ \/ Settle("resolved")
              \/ incoming' = d.rest /\ UNCHANGED <<verdict, peer, outbound>>
    BY <1>2 DEF d, buf
  <2> QED
    BY <2>1, <1>16 DEF ids
<1>18. /\ got' \in Seq(Request \union {BadFrame}) /\ Len(got') = m + c
       /\ \A k \in 1..(m + c) : got'[k] = fs[k][1]
  <2>1. got' = got \o ids
    BY <1>17
  <2>2. /\ got \o ids \in Seq(Request \union {BadFrame}) /\ Len(got \o ids) = m + c
        /\ \A k \in 1..(m + c) : (got \o ids)[k] = IF k <= m THEN got[k] ELSE ids[k - m]
    BY <1>3, <1>14, ConcatProperties
  <2>3. ASSUME NEW k \in 1..(m + c) PROVE (got \o ids)[k] = fs[k][1]
    <3>1. CASE k <= m
      <4>1. k \in 1..Len(got)
        BY <3>1, <1>3
      <4>2. got[k] = fs[k][1]
        BY <4>1, <1>4 DEF Downward
      <4> QED
        BY <3>1, <4>2, <2>2
    <3>2. CASE ~ (k <= m)
      <4>1. k - m \in 1..c /\ m + (k - m) = k
        BY <3>2, <1>3, <1>13
      <4> QED
        BY <3>2, <4>1, <1>14, <2>2
    <3> QED
      BY <3>1, <3>2
  <2> QED
    BY <2>1, <2>2, <2>3
<1>19. down' = rest /\ down' \in Bytes /\ Len(down') <= Capacity
  <2>1. Len(rest) \in Nat /\ Len(down) \in Nat
    BY <1>3, <1>8 DEF Bytes
  <2> QED
    BY <2>1, <1>3, <1>8, <1>17
<1>20. \A k \in 1..Len(fs) : Proper(fs, k, Len(handled))'
  <2> TAKE k \in 1..Len(fs)
  <2>1. Proper(fs, k, Len(handled)) /\ k \in Nat
    BY <1>4 DEF Downward
  <2>2. Proper(fs, k, Len(handled))'
    BY <2>1, <1>1, <1>3, StillProper
  <2> QED
    BY <2>2
<1>21. (peer' = "open" => \E l \in Bytes : Flowing(fs, l)') => AnswersArrive'
  <2> SUFFICES ASSUME peer' = "open" => \E l \in Bytes : Flowing(fs, l)' PROVE AnswersArrive'
    OBVIOUS
  <2>1. Downward(fs)'
    <3>1. m + c <= Len(fs) /\ Len(fs) <= Requests
      BY <1>6, <1>13
    <3> QED
      BY <3>1, <1>18, <1>20 DEF Downward
  <2> QED
    BY <2>1 DEF AnswersArrive
<1>22. CASE Settle("resolved")
  <2>1. RequestsArrive' /\ InOrder' /\ Stages'
    BY <1>1, <1>22, GivenUp DEF broker
  <2>2. peer' = "ended" /\ verdict' = "resolved" /\ outbound' = <<>> /\ incoming' = <<>>
    BY <1>22 DEF Settle
  <2>3. Typed'
    BY <1>1, <1>18, <1>19, <2>2, EmptyBytes DEF WireInv, Typed, Sizes, sizes
  <2>4. AnswersArrive'
    BY <1>21, <2>2
  <2> QED
    BY <2>1, <2>3, <2>4 DEF WireInv
<1>23. CASE incoming' = d.rest /\ UNCHANGED <<verdict, peer, outbound>>
  <2>1. RequestsArrive'
    BY <1>1, <1>23, RequestsKept
  <2>2. InOrder'
    BY <1>1, OrderKept
  <2>3. Stages'
    BY <1>1, <1>23 DEF WireInv, Stages
  <2>4. Typed'
    BY <1>1, <1>10, <1>18, <1>19, <1>23 DEF WireInv, Typed, Sizes, sizes, Bytes
  <2>5. Flowing(fs, lost)'
    <3>1. incoming' \o (down' \o (outbox' \o lost)) = d.rest \o more
      BY <1>1, <1>19, <1>23 DEF more, x
    <3> QED
      BY <3>1, <1>1, <1>5, <1>10, <1>18 DEF Flowing
  <2>6. AnswersArrive'
    BY <1>21, <2>5
  <2> QED
    BY <2>1, <2>2, <2>3, <2>4, <2>6 DEF WireInv
<1> QED
  BY <1>22, <1>23, <1>17

-----------------------------------------------------------------------------
(* Writing to a client that has gone, or after the end, drops the queue.   *)
LEMMA BrokerLetsGo ==
  ASSUME WireInv, NEW queue, BrokerPump(queue), peer = "ended" \/ conn = "ended"
  PROVE  outbox' = <<>> /\ down' = down /\ stalled' \subseteq {"client", "broker"}
BY DEF BrokerPump, WireInv, Typed

(* Else the queue goes into the socket as far as there is room.            *)
LEMMA BrokerPumps ==
  ASSUME WireInv, NEW queue \in Bytes, BrokerPump(queue), ~ (peer = "ended" \/ conn = "ended")
  PROVE  /\ down' \in Bytes /\ outbox' \in Bytes /\ Len(down') <= Capacity
         /\ stalled' \subseteq {"client", "broker"}
         /\ \A x \in Bytes : down' \o (outbox' \o x) = down \o (queue \o x)
<1>1. down \in Bytes /\ Len(down) <= Capacity /\ stalled \subseteq {"client", "broker"}
  BY DEF WireInv, Typed
<1>2. /\ down' = Filled(queue, down) /\ outbox' = Unsent(queue, down)
      /\ Stalls("broker", queue, down)
  BY DEF BrokerPump
<1>3. down' \in Bytes /\ outbox' \in Bytes /\ Len(down') <= Capacity
  BY <1>1, <1>2, EmptyBytes, PumpKeepsOrder
<1>4. \A x \in Bytes : down' \o (outbox' \o x) = down \o (queue \o x)
  BY <1>1, <1>2, PumpKeepsOrder
<1>5. stalled' \subseteq {"client", "broker"}
  BY <1>1, <1>2 DEF Stalls
<1> QED
  BY <1>3, <1>4, <1>5

(* The broker lets go of the connection: what it had yet to write is lost. *)
LEMMA AnswersLost ==
  ASSUME WireInv, UNCHANGED <<sizes, peer, incoming, got, down>>, outbox' = <<>>,
         handled' = handled \/ (handled' \in Seq(Request) /\ Len(handled) <= Len(handled')),
         peer = "open" => conn' # "open", peer # "connecting"
  PROVE  AnswersArrive'
<1>1. ASSUME NEW fs \in Seq(Frame), NEW lost \in Bytes, Flowing(fs, lost), peer' = "open"
      PROVE  \E l \in Bytes : Flowing(fs, l)'
  <2>1. outbox \in Bytes
    BY DEF WireInv, Typed
  <2>2. PICK l \in Bytes : l = outbox \o lost
    BY <2>1, JoinBytes
  <2>3. <<>> \o l = l
    BY EmptyBytes
  <2>4. Stream(incoming \o (down \o l), fs, Len(got))
    BY <1>1, <2>2 DEF Flowing
  <2>5. incoming' \o (down' \o (outbox' \o l)) = incoming \o (down \o l)
    BY <2>3
  <2>6. Flowing(fs, l)'
    BY <1>1, <2>4, <2>5 DEF Flowing
  <2> QED
    BY <2>6
<1>2. peer = "open" \/ peer' # "open"
  OBVIOUS
<1>3. peer' = "open" => \A fs \in Seq(Frame), lost \in Bytes : Flowing(fs, lost) =>
                          peer = "open" /\ \E l \in Bytes : Flowing(fs, l)'
  BY <1>1
<1> QED
  BY <1>2, <1>3, AnswersKept

(* There is room again, and the broker writes more.                        *)
LEMMA BrokerDrainKeeps == WireInv /\ BrokerDrain => WireInv'
<1> SUFFICES ASSUME WireInv, BrokerDrain PROVE WireInv'
  OBVIOUS
<1>1. /\ conn \in {"open", "ended"} /\ BrokerPump(outbox)
      /\ UNCHANGED <<sizes, peer, outbound, incoming, got, verdict, conn, arrived, handled, up>>
  BY DEF BrokerDrain, client
<1>2. outbox \in Bytes /\ peer # "connecting"
  BY <1>1 DEF WireInv, Typed, Stages
<1>3. RequestsArrive'
  BY <1>1, RequestsKept
<1>4. InOrder'
  BY <1>1, OrderKept
<1>5. Stages'
  BY <1>1, <1>2 DEF WireInv, Stages
<1>6. CASE peer = "ended" \/ conn = "ended"
  <2>1. outbox' = <<>> /\ down' = down /\ stalled' \subseteq {"client", "broker"}
    BY <1>1, <1>6, BrokerLetsGo
  <2>2. Typed'
    BY <1>1, <2>1, EmptyBytes DEF WireInv, Typed, Sizes, sizes
  <2>3. AnswersArrive'
    BY <1>1, <1>2, <1>6, <2>1, AnswersLost
  <2> QED
    BY <1>3, <1>4, <1>5, <2>2, <2>3 DEF WireInv
<1>7. CASE ~ (peer = "ended" \/ conn = "ended")
  <2>1. /\ down' \in Bytes /\ outbox' \in Bytes /\ Len(down') <= Capacity
        /\ stalled' \subseteq {"client", "broker"}
        /\ \A x \in Bytes : down' \o (outbox' \o x) = down \o (outbox \o x)
    BY <1>1, <1>2, <1>7, BrokerPumps
  <2>2. Typed'
    BY <1>1, <2>1 DEF WireInv, Typed, Sizes, sizes
  <2>3. \A fs \in Seq(Frame), lost \in Bytes : Flowing(fs, lost) => Flowing(fs, lost)'
    BY <1>1, <2>1 DEF Flowing
  <2>4. AnswersArrive'
    <3>1. peer = "open"
      BY <1>2, <1>7 DEF WireInv, Typed
    <3> QED
      BY <1>1, <2>3, <3>1, AnswersKept
  <2> QED
    BY <1>3, <1>4, <1>5, <2>2, <2>4 DEF WireInv
<1> QED
  BY <1>6, <1>7

(* The broker reads a piece.  What it makes of it: c more requests leave   *)
(* the decoder, s of them are handled, and the rest is still to come.      *)
Read(d, j, c) ==
  /\ j \in 0..Requests /\ Chunk(d, j, c) /\ UNCHANGED <<sizes, peer, outbound, incoming, got, verdict>>
  /\ handled' = handled \o Served(d)
  /\ conn \in {"open", "ended"} /\ conn' = IF Fatal(d) THEN "ended" ELSE conn
  /\ Len(handled) <= j /\ (conn = "open" => Len(handled) = j)
  /\ \A k \in 1..Len(handled) : handled[k] <= j

(* What handled becomes: the first s of the requests read are behind it.   *)
LEMMA ServedIs ==
  ASSUME WireInv, NEW d, NEW j, NEW c, Read(d, j, c)
  PROVE  \E s \in 0..c :
           /\ Served(d) = [k \in 1..s |-> j + k] /\ Len(Served(d)) = s
           /\ ~ Fatal(d) => s = c
           /\ Unreadable(d) => s = 0
           /\ handled' \in Seq(Request) /\ Len(handled') = Len(handled) + s
           /\ \A k \in 1..(Len(handled) + s) :
                handled'[k] = IF k <= Len(handled) THEN handled[k] ELSE j + (k - Len(handled))
<1>1. Sizes /\ handled \in Seq(Request) /\ Len(handled) \in Nat
  BY DEF WireInv, Typed
<1>2. Chunk(d, j, c) /\ handled' = handled \o Served(d)
  BY DEF Read
<1>3. j \in Nat /\ c \in Nat /\ j + c <= Requests /\ Requests \in Nat
  <2>1. Requests \in Nat
    BY WireAssumption
  <2>2. j \in 0..Requests /\ c \in 0..(Requests - j)
    BY <1>2 DEF Chunk
  <2> QED
    BY <2>1, <2>2
<1>4. PICK s \in 0..c : /\ Served(d) = [k \in 1..s |-> j + k]
                        /\ ~ Fatal(d) => s = c
                        /\ Unreadable(d) => s = 0
  <2>1. CASE Unreadable(d)
    <3>1. Served(d) = <<>> /\ Fatal(d)
      BY <1>1, <1>2, <2>1, ChunkServed
    <3>2. <<>> = [k \in 1..0 |-> j + k] /\ 0 \in 0..c
      BY <1>3
    <3> QED
      BY <3>1, <3>2
  <2>2. CASE ~ Unreadable(d)
    BY <1>1, <1>2, <2>2, ChunkServed
  <2> QED
    BY <2>1, <2>2
<1>5. s \in Nat /\ s <= c
  BY <1>3
<1> DEFINE sv == [k \in 1..s |-> j + k]
<1>6. sv \in [1..s -> Request] /\ \A k \in 1..s : sv[k] = j + k
  <2>1. \A k \in 1..s : j + k \in Request
    BY <1>3, <1>5 DEF Request
  <2> QED
    BY <2>1
<1> HIDE DEF sv
<1>7. sv \in Seq(Request) /\ Len(sv) = s
  BY <1>5, <1>6, SeqDef
<1>8. /\ handled \o sv \in Seq(Request) /\ Len(handled \o sv) = Len(handled) + s
      /\ \A k \in 1..(Len(handled) + s) :
           (handled \o sv)[k] = IF k <= Len(handled) THEN handled[k] ELSE sv[k - Len(handled)]
  BY <1>1, <1>7, ConcatProperties
<1>9. ASSUME NEW k \in 1..(Len(handled) + s), ~ (k <= Len(handled))
      PROVE  sv[k - Len(handled)] = j + (k - Len(handled))
  <2>1. k - Len(handled) \in 1..s
    BY <1>1, <1>5, <1>9
  <2> QED
    BY <2>1, <1>6
<1>10. Served(d) = sv /\ handled' = handled \o sv
  BY <1>2, <1>4 DEF sv
<1>11. \A k \in 1..(Len(handled) + s) :
         handled'[k] = IF k <= Len(handled) THEN handled[k] ELSE j + (k - Len(handled))
  BY <1>8, <1>9, <1>10
<1> QED
  BY <1>4, <1>7, <1>8, <1>10, <1>11

(* The handled requests are in order, and none is beyond those that left.  *)
LEMMA ReadInOrder ==
  ASSUME WireInv, NEW d, NEW j, NEW c, Read(d, j, c)
  PROVE  /\ InOrder' /\ handled' \in Seq(Request) /\ Len(handled') <= j + c /\ j + c <= Requests
         /\ Len(handled) <= Len(handled') /\ conn' \in {"open", "ended"}
         /\ conn' = "open" => conn = "open" /\ ~ Fatal(d) /\ Len(handled') = j + c
         /\ \A k \in 1..Len(handled') : handled'[k] <= j + c
         /\ Unreadable(d) => handled' = handled /\ conn' = "ended"
<1>1. handled \in Seq(Request) /\ Len(handled) \in Nat /\ DOMAIN handled = 1..Len(handled) /\ Requests \in Nat
      /\ \A k \in 1..Len(handled) : handled[k] \in Nat
  <2>1. handled \in Seq(Request) /\ Requests \in Nat
    BY WireAssumption DEF WireInv, Typed
  <2>2. \A k \in 1..Len(handled) : handled[k] \in Request
    BY <2>1, ElementOfSeq
  <2> QED
    BY <2>1, <2>2 DEF Request
<1>2. /\ Chunk(d, j, c) /\ Len(handled) <= j /\ (conn = "open" => Len(handled) = j)
      /\ \A k \in 1..Len(handled) : handled[k] <= j
      /\ conn \in {"open", "ended"} /\ conn' = IF Fatal(d) THEN "ended" ELSE conn
  BY DEF Read
<1>3. j \in Nat /\ c \in Nat /\ j + c <= Requests
  <2>1. j \in 0..Requests /\ c \in 0..(Requests - j) /\ Requests \in Nat
    BY <1>1, <1>2 DEF Chunk
  <2> QED
    BY <2>1, SMTT(30)
<1>4. PICK s \in 0..c :
        /\ Served(d) = [k \in 1..s |-> j + k] /\ Len(Served(d)) = s
        /\ ~ Fatal(d) => s = c
        /\ Unreadable(d) => s = 0
        /\ handled' \in Seq(Request) /\ Len(handled') = Len(handled) + s
        /\ \A k \in 1..(Len(handled) + s) :
             handled'[k] = IF k <= Len(handled) THEN handled[k] ELSE j + (k - Len(handled))
  BY ServedIs
<1>5. s \in Nat /\ s <= c /\ Len(handled') = Len(handled) + s
  BY <1>3, <1>4
<1>6. conn' = "open" => conn = "open" /\ ~ Fatal(d) /\ Len(handled') = j + c
  BY <1>2, <1>4, <1>5
<1>7. \A k \in 1..Len(handled') : handled'[k] <= j + c
  <2> TAKE k \in 1..Len(handled')
  <2>1. k \in Nat /\ k \in 1..(Len(handled) + s)
    BY <1>1, <1>5
  <2>2. CASE k <= Len(handled)
    <3>1. k \in 1..Len(handled)
      BY <2>1, <2>2, <1>1
    <3>2. handled'[k] = handled[k] /\ handled[k] <= j /\ handled[k] \in Nat
      BY <3>1, <2>1, <2>2, <1>1, <1>2, <1>4
    <3> QED
      BY <3>2, <1>3
  <2>3. CASE ~ (k <= Len(handled))
    <3>1. handled'[k] = j + (k - Len(handled))
      BY <2>1, <2>3, <1>4
    <3> QED
      BY <3>1, <2>1, <1>1, <1>3, <1>5
  <2> QED
    BY <2>2, <2>3
<1>8. InOrder'
  <2>1. ASSUME conn' \in {"none", "open"}, NEW k \in 1..Len(handled') PROVE handled'[k] = k
    <3>1. conn = "open" /\ Len(handled) = j /\ k \in Nat /\ k \in 1..(Len(handled) + s)
      BY <2>1, <1>1, <1>2, <1>5
    <3>2. CASE k <= Len(handled)
      <4>1. handled[k] = k
        BY <3>1, <3>2 DEF WireInv, InOrder
      <4> QED
        BY <4>1, <3>1, <3>2, <1>4
    <3>3. CASE ~ (k <= Len(handled))
      <4>1. handled'[k] = j + (k - Len(handled))
        BY <3>1, <3>3, <1>4
      <4> QED
        BY <4>1, <3>1, <1>1, <1>3
    <3> QED
      BY <3>2, <3>3
  <2>2. ASSUME NEW k \in 1..Len(handled'), NEW l \in 1..Len(handled'), k < l
        PROVE  handled'[k] < handled'[l]
    <3>1. /\ k \in Nat /\ l \in Nat
          /\ k \in 1..(Len(handled) + s) /\ l \in 1..(Len(handled) + s)
      BY <1>1, <1>5
    <3>2. CASE l <= Len(handled)
      <4>1. k \in 1..Len(handled) /\ l \in 1..Len(handled) /\ k <= Len(handled)
        BY <2>2, <3>1, <3>2, <1>1
      <4>2. handled[k] < handled[l]
        BY <4>1, <2>2 DEF WireInv, InOrder
      <4> QED
        BY <4>1, <4>2, <3>1, <3>2, <1>4
    <3>3. CASE ~ (l <= Len(handled)) /\ k <= Len(handled)
      <4>1. k \in 1..Len(handled)
        BY <3>1, <3>3, <1>1
      <4>2. handled'[k] = handled[k] /\ handled[k] <= j /\ handled[k] \in Nat
        BY <4>1, <3>1, <3>3, <1>1, <1>2, <1>4
      <4>3. handled'[l] = j + (l - Len(handled))
        BY <3>1, <3>3, <1>4
      <4> QED
        BY <4>2, <4>3, <3>1, <3>3, <1>1, <1>3
    <3>4. CASE ~ (l <= Len(handled)) /\ ~ (k <= Len(handled))
      <4>1. handled'[k] = j + (k - Len(handled)) /\ handled'[l] = j + (l - Len(handled))
        BY <3>1, <3>4, <1>4
      <4> QED
        BY <4>1, <2>2, <3>1, <1>1, <1>3
    <3> QED
      BY <3>2, <3>3, <3>4
  <2> QED
    BY <2>1, <2>2 DEF InOrder
<1>9. Unreadable(d) => handled' = handled /\ conn' = "ended"
  <2> SUFFICES ASSUME Unreadable(d) PROVE handled' = handled /\ conn' = "ended"
    OBVIOUS
  <2>1. Sizes
    BY DEF WireInv, Typed
  <2>2. Served(d) = <<>> /\ Fatal(d)
    BY <2>1, <1>2, ChunkServed
  <2>3. handled \o <<>> = handled
    BY <1>1, ConcatEmptySeq
  <2> QED
    BY <2>2, <2>3, <1>2 DEF Read
<1>10. Len(handled) <= Len(handled') /\ Len(handled') <= j + c
  <2>1. Len(handled) \in Nat /\ Len(handled) <= j
    BY <1>1, <1>2
  <2>2. \A a \in Nat, b \in Nat : a <= j /\ b <= c => a <= a + b /\ a + b <= j + c
    BY <1>3
  <2> QED
    BY <2>1, <2>2, <1>5
<1>11. handled' \in Seq(Request) /\ conn' \in {"open", "ended"}
  BY <1>2, <1>4
<1> QED
  BY <1>3, <1>6, <1>7, <1>8, <1>9, <1>10, <1>11

(* The client's side of it, where the connection is open at both ends.     *)
LEMMA ReadAnswers ==
  ASSUME WireInv, NEW d, NEW j, NEW c, Read(d, j, c), peer = "open", conn = "open",
         BrokerPump(outbox \o Replies(d))
  PROVE  /\ AnswersArrive'
         /\ down' \in Bytes /\ outbox' \in Bytes /\ Len(down') <= Capacity
         /\ stalled' \subseteq {"client", "broker"}
<1>1. /\ Sizes /\ incoming \in Bytes /\ down \in Bytes /\ outbox \in Bytes
      /\ handled \in Seq(Request) /\ Len(handled) \in Nat /\ Len(got) \in Nat
  BY DEF WireInv, Typed
<1>2. /\ Chunk(d, j, c) /\ Len(handled) = j /\ UNCHANGED <<sizes, peer, incoming, got>>
      /\ handled' = handled \o Served(d)
  BY DEF Read
<1>3. PICK fs \in Seq(Frame) : Downward(fs)
  BY DEF WireInv, AnswersArrive
<1>4. Flowing(fs, <<>>) /\ Len(fs) = j /\ \A k \in 1..Len(fs) : fs[k][1] # BadFrame
  BY <1>2, <1>3 DEF Downward, Flowing
<1> DEFINE m == Len(got)
           W == incoming \o (down \o outbox)
           re == Replies(d)
<1>5. m \in 0..Len(fs) /\ Len(fs) \in Nat /\ m \in Nat
  BY <1>1, <1>3 DEF Downward
<1>6. W \in Bytes /\ down \o outbox \in Bytes /\ Stream(W, fs, m)
  <2>1. down \o outbox \in Bytes
    BY <1>1, JoinBytes
  <2>2. W \in Bytes
    BY <1>1, <2>1, JoinBytes
  <2>3. outbox \o <<>> = outbox
    BY <1>1, EmptyBytes
  <2> QED
    BY <2>1, <2>2, <2>3, <1>4 DEF Flowing
<1> HIDE DEF W, m
<1>7. /\ Replies(d) \in Bytes
      /\ \E gs : /\ Answering(fs, j, gs, j + Len(Served(d)), Fatal(d))
                 /\ Stream(W \o Replies(d), gs, m)
  BY <1>1, <1>2, <1>4, <1>5, <1>6, ChunkReplies
<1>8. PICK gs : Answering(fs, j, gs, j + Len(Served(d)), Fatal(d)) /\ Stream(W \o re, gs, m)
  BY <1>7
<1> HIDE DEF re
<1>9. re \in Bytes
  BY <1>7 DEF re
<1>10. W \o re = incoming \o (down \o (outbox \o re)) /\ outbox \o re \in Bytes
  <2>1. outbox \o re \in Bytes
    BY <1>1, <1>9, JoinBytes
  <2> DEFINE v == down \o outbox
  <2>2. v \in Bytes
    BY <1>6
  <2>3. v \o re = down \o (outbox \o re)
    BY <1>1, <1>9, Regroup, ZenonT(60)
  <2> HIDE DEF v
  <2>4. (incoming \o v) \o re = incoming \o (v \o re)
    BY <1>1, <1>9, <2>2, Regroup, ZenonT(60)
  <2> QED
    BY <2>1, <2>3, <2>4 DEF W, v
<1> DEFINE queue == outbox \o re
<1>11. queue \in Bytes /\ BrokerPump(queue)
  BY <1>10 DEF re
<1> HIDE DEF queue
<1>12. /\ down' \in Bytes /\ outbox' \in Bytes /\ Len(down') <= Capacity
       /\ stalled' \subseteq {"client", "broker"}
       /\ \A x \in Bytes : down' \o (outbox' \o x) = down \o (queue \o x)
  BY <1>11, BrokerPumps
<1>13. Stream(incoming' \o (down' \o (outbox' \o <<>>)), gs, Len(got'))
  <2>1. down' \o (outbox' \o <<>>) = down \o (queue \o <<>>) /\ queue \o <<>> = queue
    BY <1>11, <1>12, EmptyBytes
  <2>2. incoming' \o (down' \o (outbox' \o <<>>)) = W \o re
    BY <2>1, <1>2, <1>10 DEF queue
  <2>3. Len(got') = m
    BY <1>2 DEF m
  <2> QED
    BY <1>8, <2>2, <2>3
<1> DEFINE h == j + Len(Served(d))
           done == Fatal(d)
<1>14. /\ gs \in Seq(Frame) /\ Len(gs) <= Requests /\ Len(fs) <= Len(gs)
       /\ \A k \in 1..Len(fs) : gs[k] = fs[k]
       /\ \A k \in (Len(fs) + 1)..Len(gs) : Proper(gs, k, h)
       /\ ~ done => Len(gs) = h /\ \A k \in (Len(fs) + 1)..Len(gs) : gs[k][1] # BadFrame
  BY <1>8 DEF Answering
<1>15. h \in Nat /\ h = Len(handled') /\ j <= h /\ j \in Nat
  <2>1. PICK s \in 0..c : Len(Served(d)) = s /\ Len(handled') = Len(handled) + s
    BY ServedIs
  <2>2. s \in Nat /\ j \in Nat
    BY <1>1, <1>2, WireAssumption DEF Chunk
  <2> QED
    BY <2>1, <2>2, <1>2
<1>16. conn' = "open" => ~ done
  BY DEF Read
<1> HIDE DEF h, done
<1>17. Flowing(gs, <<>>)'
  <2>1. ASSUME conn' = "open"
        PROVE  Len(gs) = Len(handled') /\ \A k \in 1..Len(gs) : gs[k][1] # BadFrame
    <3>1. Len(gs) = Len(handled')
      BY <2>1, <1>14, <1>15, <1>16
    <3>2. ASSUME NEW k \in 1..Len(gs) PROVE gs[k][1] # BadFrame
      <4>1. k \in 1..Len(fs) \/ k \in (Len(fs) + 1)..Len(gs)
        BY <1>5, <1>14
      <4> QED
        BY <4>1, <2>1, <1>4, <1>14, <1>16
    <3> QED
      BY <3>1, <3>2
  <2> QED
    BY <1>13, <2>1 DEF Flowing
<1>18. \A k \in 1..Len(gs) : Proper(gs, k, Len(handled))'
  <2> TAKE k \in 1..Len(gs)
  <2>1. k \in 1..Len(fs) \/ k \in (Len(fs) + 1)..Len(gs)
    BY <1>5, <1>14
  <2>2. Proper(gs, k, h)
    <3>1. CASE k \in 1..Len(fs)
      <4>1. Proper(fs, k, Len(handled)) /\ fs[k][1] # BadFrame /\ gs[k] = fs[k]
        BY <3>1, <1>3, <1>4, <1>14 DEF Downward
      <4>2. fs[k][1] = k /\ k <= Len(handled) /\ ~ Long(k) /\ fs[k][2] <= MaxFrame
        BY <4>1 DEF Proper
      <4>3. k <= h
        BY <4>2, <3>1, <1>2, <1>15
      <4> QED
        BY <4>1, <4>2, <4>3 DEF Proper
    <3>2. CASE k \in (Len(fs) + 1)..Len(gs)
      BY <3>2, <1>14
    <3> QED
      BY <2>1, <3>1, <3>2
  <2>3. PICK i \in Nat : i = h
    BY <1>15
  <2>4. Proper(gs, k, i)'
    <3>1. Proper(gs, k, i) /\ k \in Nat /\ i <= i
      BY <2>2, <2>3
    <3> QED
      BY <3>1, <1>2, StillProper
  <2> QED
    BY <2>3, <2>4, <1>15 DEF Proper
<1>19. Downward(gs)'
  <2>1. Len(got) <= Len(gs) /\ Len(gs) <= Requests
    <3>1. Len(gs) \in Nat
      BY <1>14
    <3> QED
      BY <3>1, <1>5, <1>14 DEF m
  <2>2. \A k \in 1..Len(got) : got[k] = gs[k][1]
    <3> TAKE k \in 1..Len(got)
    <3>1. k \in 1..Len(fs)
      BY <1>5 DEF m
    <3> QED
      BY <3>1, <1>3, <1>14 DEF Downward
  <2>3. <<>> \in Bytes
    BY EmptyBytes
  <2> QED
    BY <2>1, <2>2, <2>3, <1>2, <1>17, <1>18 DEF Downward
<1> QED
  BY <1>12, <1>14, <1>19 DEF AnswersArrive

(* The broker reads a piece of the stream, handles what is complete in it  *)
(* and answers.                                                            *)
LEMMA BrokerDataKeeps == WireInv /\ BrokerData => WireInv'
<1> SUFFICES ASSUME WireInv, BrokerData PROVE WireInv'
  OBVIOUS
<1>1. conn \in {"open", "ended"} /\ UNCHANGED <<sizes, peer, outbound, incoming, got, verdict>>
  BY DEF BrokerData, client
<1>2. PICK n \in 1..Len(up) :
        LET buf == arrived \o SubSeq(up, 1, n)
            d   == Decoded(buf)
        IN /\ up' = SubSeq(up, n + 1, Len(up))
           /\ arrived' = IF Unreadable(d) THEN buf ELSE d.rest
           /\ handled' = handled \o Served(d)
           /\ BrokerPump(outbox \o Replies(d))
           /\ conn' = IF Fatal(d) THEN "ended" ELSE conn
  BY DEF BrokerData
<1>3. PICK j \in 0..Requests, lost \in Bytes : Upward(j, lost)
  BY <1>1 DEF WireInv, RequestsArrive
<1>4. /\ up \in Bytes /\ arrived \in Bytes /\ outbox \in Bytes /\ outbound \in Bytes /\ Sizes
      /\ Len(up) <= Capacity /\ Capacity \in Nat /\ Requests \in Nat /\ peer # "connecting"
  BY <1>1, WireAssumption DEF WireInv, Typed, Stages
<1> DEFINE x == outbound \o lost
           buf == arrived \o SubSeq(up, 1, n)
           rest == SubSeq(up, n + 1, Len(up))
           more == rest \o x
           d == Decoded(buf)
<1>5. x \in Bytes
  BY <1>4, JoinBytes
<1>6. /\ buf \in Bytes /\ more \in Bytes /\ rest \in Bytes /\ Len(rest) <= Len(up)
      /\ buf \o more = arrived \o (up \o x)
  <2> HIDE DEF x
  <2>1. Split(arrived, up, x, n)
    BY <1>4, <1>5, Cut
  <2> QED
    BY <2>1 DEF Split
<1>7. Stream(buf \o more, Asked, j)
  BY <1>3, <1>6 DEF Upward
<1>8. Asked \in Seq(Frame) /\ Len(Asked) = Requests
  BY <1>4, AskedIs
<1>9. PICK c \in 0..(Requests - j) :
        /\ d.frames = [k \in 1..c |-> Encoded(Asked[j + k])]
        /\ d.rest \in Seq(Byte) /\ Stream(d.rest \o more, Asked, j + c)
  <2> HIDE DEF buf, more
  <2> QED
    BY <1>6, <1>7, <1>8, DecodedFrames DEF Bytes
<1>10. Chunk(d, j, c)
  BY <1>6, <1>9 DEF Chunk, Bytes
<1>11. /\ up' = rest /\ arrived' = IF Unreadable(d) THEN buf ELSE d.rest
       /\ handled' = handled \o Served(d) /\ BrokerPump(outbox \o Replies(d))
       /\ conn' = IF Fatal(d) THEN "ended" ELSE conn
  BY <1>2
<1> HIDE DEF x, buf, rest, more, d
<1>12. Read(d, j, c)
  BY <1>1, <1>3, <1>10, <1>11 DEF Read, Upward
<1>13. /\ InOrder' /\ handled' \in Seq(Request) /\ Len(handled') <= j + c /\ j + c <= Requests
       /\ Len(handled) <= Len(handled') /\ conn' \in {"open", "ended"}
       /\ conn' = "open" => conn = "open" /\ ~ Fatal(d) /\ Len(handled') = j + c
       /\ \A k \in 1..Len(handled') : handled'[k] <= j + c
       /\ Unreadable(d) => handled' = handled /\ conn' = "ended"
  BY <1>12, ReadInOrder
<1>14. j \in Nat /\ c \in Nat /\ j + c \in 0..Requests
  BY <1>4, <1>13
<1>15. RequestsArrive'
  <2>1. Asked' = Asked
    BY <1>1 DEF Asked, sizes
  <2>2. up' \o (outbound' \o lost) = more
    BY <1>1, <1>11 DEF more, x
  <2>3. CASE Unreadable(d)
    <3>1. handled' = handled /\ conn' = "ended" /\ arrived' = buf
      BY <1>11, <1>13, <2>3
    <3>2. Stream(arrived' \o (up' \o (outbound' \o lost)), Asked', j)
      BY <3>1, <2>1, <2>2, <1>7
    <3>3. Upward(j, lost)'
      BY <3>1, <3>2, <1>3 DEF Upward
    <3> QED
      BY <3>3 DEF RequestsArrive
  <2>4. CASE ~ Unreadable(d)
    <3>1. PICK i \in 0..Requests : i = j + c
      BY <1>14
    <3>2. Stream(arrived' \o (up' \o (outbound' \o lost)), Asked', i)
      BY <3>1, <2>1, <2>2, <2>4, <1>9, <1>11
    <3>3. Upward(i, lost)'
      BY <3>1, <3>2, <1>13 DEF Upward
    <3> QED
      BY <3>3 DEF RequestsArrive
  <2> QED
    BY <2>3, <2>4
<1>16. Stages'
  BY <1>1, <1>4, <1>13 DEF WireInv, Stages
<1>17. /\ AnswersArrive'
       /\ down' \in Bytes /\ outbox' \in Bytes /\ Len(down') <= Capacity
       /\ stalled' \subseteq {"client", "broker"}
  <2>1. CASE peer = "ended" \/ conn = "ended"
    <3>1. outbox' = <<>> /\ down' = down /\ stalled' \subseteq {"client", "broker"}
      BY <1>11, <2>1, BrokerLetsGo
    <3>2. peer = "open" => conn' # "open"
      BY <2>1, <1>13
    <3>3. AnswersArrive'
      BY <1>1, <1>4, <1>13, <3>1, <3>2, AnswersLost
    <3> QED
      BY <3>1, <3>3, EmptyBytes DEF WireInv, Typed
  <2>2. CASE ~ (peer = "ended" \/ conn = "ended")
    <3>1. peer = "open" /\ conn = "open"
      BY <2>2, <1>1, <1>4 DEF WireInv, Typed
    <3> QED
      BY <3>1, <1>11, <1>12, ReadAnswers
  <2> QED
    BY <2>1, <2>2
<1>18. Typed'
  <2>1. up' \in Bytes /\ Len(up') <= Capacity
    <3>1. Len(rest) \in Nat /\ Len(up) \in Nat
      BY <1>4, <1>6 DEF Bytes
    <3> QED
      BY <3>1, <1>4, <1>6, <1>11
  <2>2. arrived' \in Bytes
    BY <1>6, <1>9, <1>11 DEF Bytes
  <2>3. Len(handled') <= Requests
    <3>1. Len(handled') \in Nat
      BY <1>13
    <3> QED
      BY <3>1, <1>4, <1>13, <1>14
  <2> QED
    BY <2>1, <2>2, <2>3, <1>1, <1>13, <1>17 DEF WireInv, Typed, Sizes, sizes
<1> QED
  BY <1>13, <1>15, <1>16, <1>17, <1>18 DEF WireInv

-----------------------------------------------------------------------------
(* One step of Wire per lemma above.                                       *)
LEMMA NextWire == WireInv /\ [Next]_vars => WireInv'
<1> SUFFICES ASSUME WireInv, [Next]_vars PROVE WireInv'
  OBVIOUS
<1>1. CASE UNCHANGED vars
  <2>1. UNCHANGED <<sizes, peer, outbound, incoming, got, verdict, conn, arrived, outbox, handled,
                    up, down, stalled>>
    BY <1>1 DEF vars, client, broker
  <2>2. Typed'
    BY <2>1 DEF WireInv, Typed, Sizes, sizes
  <2>3. Stages'
    BY <2>1 DEF WireInv, Stages
  <2>4. RequestsArrive' /\ InOrder'
    BY <2>1, RequestsKept, OrderKept
  <2>5. \A fs \in Seq(Frame), lost \in Bytes : Flowing(fs, lost) => Flowing(fs, lost)'
    BY <2>1 DEF Flowing
  <2>6. AnswersArrive'
    BY <2>1, <2>5, AnswersKept
  <2> QED
    BY <2>2, <2>3, <2>4, <2>6 DEF WireInv
<1>2. CASE Connect
  BY <1>2, ConnectKeeps
<1>3. CASE PeerDrain
  BY <1>3, DrainKeeps
<1>4. CASE PeerData
  BY <1>4, DataKeeps
<1>5. CASE Timeout \/ PeerClose
  BY <1>5, QuitKeeps
<1>6. CASE BrokerData
  BY <1>6, BrokerDataKeeps
<1>7. CASE BrokerDrain
  BY <1>7, BrokerDrainKeeps
<1>8. CASE ClientGone \/ BrokerStops
  BY <1>8, CloseKeeps
<1> QED
  BY <1>1, <1>2, <1>3, <1>4, <1>5, <1>6, <1>7, <1>8 DEF Next

(* Every variable has its type, no socket buffer overflows, and no more is *)
(* handled or decoded than was asked.                                      *)
THEOREM WireTypes == Spec => []TypeOK
<1>1. Spec => []WireInv
  BY InitWire, NextWire, PTL DEF Spec
<1> QED
  BY <1>1, InvTypes, PTL

(* client.ts and server.ts over any sequence of partial writes and reads,  *)
(* with any capacity of the socket and any sizes, also of what no frame    *)
(* has room for: the broker handles the requests in order and once; every  *)
(* frame the client decodes fits and parses, and is the answer next in     *)
(* order, or a refusal, as the last word and with a reason; also when      *)
(* either side lets go in between.                                         *)
THEOREM WireIntact == Spec => []Intact
<1>1. Spec => []WireInv
  BY InitWire, NextWire, PTL DEF Spec
<1> QED
  BY <1>1, InvIntact, PTL

-----------------------------------------------------------------------------
(***************************************************************************)
(* Brokers, for every set of process ids and every bound, however starts   *)
(* and degraded clients overlap: only starts that were past their look at  *)
(* the pidfile at one time give two brokers, and only processes that had   *)
(* the store open at one time hand out an event number again or below an   *)
(* earlier one.  Brokers is about the life of the process whose one        *)
(* connection Wire is about; the two share no state, and the assumption of *)
(* Brokers is a hypothesis of each result.                                 *)
(***************************************************************************)
CONSTANTS Pid, None, MaxMint, MaxKills, MaxClock
VARIABLES run, pidfile, socket, held, counter, top, raced, shared, minted, kills, now

B == INSTANCE Brokers

(* Free pids, an empty store and clocks at zero.                           *)
LEMMA InitTyped == ASSUME B!BrokersAssumption PROVE B!Init => B!TypeOK
<1> SUFFICES ASSUME B!Init PROVE B!TypeOK
  OBVIOUS
<1>1. raced \in BOOLEAN /\ shared \in BOOLEAN
  BY Zenon DEF B!Init
<1>2. /\ run \in [Pid -> {B!Free}] /\ held \in [Pid -> {0}]
      /\ pidfile = None /\ socket = None
      /\ counter = 0 /\ top = 0 /\ now = 0 /\ minted = 0 /\ kills = 0
  BY DEF B!Init
<1> QED
  BY <1>1, <1>2, B!BrokersAssumption DEF B!TypeOK, B!Free

(* The history variables stay truth values.                                *)
LEMMA HistoriesTyped ==
  ASSUME B!TypeOK, [B!Next]_B!vars
  PROVE  raced' \in BOOLEAN /\ shared' \in BOOLEAN
<1>1. \A p, what : B!Becomes(p, what) => raced' \in BOOLEAN
  BY Zenon DEF B!Becomes
<1>2. \A p : B!Opens(p) => shared' \in BOOLEAN
  BY Zenon DEF B!Opens
<1>3. raced \in BOOLEAN /\ shared \in BOOLEAN
  BY DEF B!TypeOK
<1>4. raced' = raced \/ \E p, what : B!Becomes(p, what)
  BY Zenon DEF B!Next, B!Boots, B!Start, B!CheckPidfile, B!OpenStore, B!Bind, B!WritePidfile, B!Cleanup,
       B!Kill, B!OtherStarts, B!OtherEnds, B!DegradedOpens, B!DegradedEnds, B!Mint, B!MintDies,
       B!StoreLost, B!Tick, B!Ends, B!vars, B!os
<1>5. shared' = shared \/ \E p : B!Opens(p)
  BY Zenon DEF B!Next, B!Boots, B!Start, B!CheckPidfile, B!OpenStore, B!Bind, B!WritePidfile, B!Cleanup,
       B!Kill, B!OtherStarts, B!OtherEnds, B!DegradedOpens, B!DegradedEnds, B!Mint, B!MintDies,
       B!StoreLost, B!Tick, B!vars
<1>6. raced' \in BOOLEAN
  BY <1>1, <1>3, <1>4, Zenon
<1>7. shared' \in BOOLEAN
  BY <1>2, <1>3, <1>5, Zenon
<1> QED
  BY <1>6, <1>7

(* Each step of main, each signal and each statement keeps the types.      *)
LEMMA NextTyped ==
  ASSUME B!BrokersAssumption, B!TypeOK, [B!Next]_B!vars
  PROVE  B!TypeOK'
<1> DEFINE Values ==
  /\ run \in [Pid -> {B!Free, "other", "client", "up"} \union B!Booting]
  /\ pidfile \in Pid \union {None} /\ socket \in Pid \union {None}
  /\ held \in [Pid -> Nat] /\ counter \in Nat /\ top \in Nat
  /\ now \in 0..MaxClock /\ minted \in 0..MaxMint /\ kills \in 0..MaxKills
<1>1. Values
  BY DEF B!TypeOK, Values
<1>2. \A p, what : B!Becomes(p, what) => run' = [run EXCEPT ![p] = what]
  BY DEF B!Becomes
<1>3. \A p : B!Opens(p) => /\ held' = [held EXCEPT ![p] = B!Resumed]
                          /\ UNCHANGED <<pidfile, socket, B!store, now, minted, kills>>
  BY DEF B!Opens
<1> USE B!BrokersAssumption DEF Values, B!Unwritten, B!Booting, B!Free, B!os, B!store, B!Ends
<1>4. ASSUME NEW p \in Pid, B!Start(p) \/ B!Boots(p) PROVE Values'
  BY <1>1, <1>4, <1>2, <1>3 DEF B!Start, B!Boots, B!CheckPidfile, B!OpenStore, B!Resumed, B!Larger, B!Bind,
       B!WritePidfile
<1>5. ASSUME NEW p \in Pid, B!Cleanup(p) \/ B!Kill(p) \/ B!OtherStarts(p) \/ B!OtherEnds(p) PROVE Values'
  BY <1>1, <1>5, <1>2, <1>3 DEF B!Cleanup, B!Kill, B!OtherStarts, B!OtherEnds
<1>6. ASSUME NEW p \in Pid, B!Mint(p) \/ B!MintDies(p) PROVE Values'
  BY <1>1, <1>6, <1>2, <1>3 DEF B!Mint, B!MintDies, B!Bump, B!Larger
<1>7. ASSUME NEW p \in Pid, B!DegradedOpens(p) \/ B!DegradedEnds(p) PROVE Values'
  BY <1>1, <1>7, <1>2, <1>3 DEF B!DegradedOpens, B!DegradedEnds, B!Resumed, B!Larger
<1>8. ASSUME B!StoreLost PROVE Values'
  BY <1>1, <1>8 DEF B!StoreLost
<1>9. ASSUME B!Tick PROVE Values'
  BY <1>1, <1>9 DEF B!Tick
<1>10. ASSUME UNCHANGED B!vars PROVE Values'
  BY <1>1, <1>10 DEF B!vars
<1>11. Values'
  BY <1>4, <1>5, <1>6, <1>7, <1>8, <1>9, <1>10 DEF B!Next
<1> QED
  BY <1>11, HistoriesTyped DEF B!TypeOK, Values

(* The processes, the two files and the counters hold values of their      *)
(* types, however many brokers start at once.                              *)
THEOREM BrokersTypes == B!BrokersAssumption => (B!Spec => []B!TypeOK)
<1> SUFFICES ASSUME B!BrokersAssumption PROVE B!Spec => []B!TypeOK
  OBVIOUS
<1>1. B!TypeOK /\ [B!Next]_B!vars => B!TypeOK'
  BY NextTyped
<1> QED
  BY InitTyped, <1>1, PTL DEF B!Spec

-----------------------------------------------------------------------------
(* OneBrokerUnlessRaced is not inductive: a second broker is kept out by   *)
(* what it reads at "starting" and acts upon at "opened", "bound" and      *)
(* "up".  So the invariant follows a start: unless starts raced, whoever   *)
(* is up is in the pidfile, and once a start has passed its check nobody   *)
(* is up and nobody else has passed it.  When the last of some rivals ends *)
(* nobody is left that could break it.                                     *)
OneUnwritten == \A p, q \in Pid : run[p] \in B!Unwritten /\ run[q] \in B!Unwritten => p = q
UpIsWritten == \A p \in Pid : run[p] = "up" => pidfile = p
CheckHolds == \A p, q \in Pid : run[p] \in B!Unwritten => run[q] # "up"
SocketIsOwn == \A p \in Pid : run[p] \in B!Serving => socket = p

Alone == OneUnwritten /\ UpIsWritten /\ CheckHolds /\ SocketIsOwn
BrokerInv == B!TypeOK /\ (raced \/ Alone)

LEMMA InvOneBroker == BrokerInv => B!OneBrokerUnlessRaced
BY DEF BrokerInv, Alone, OneUnwritten, UpIsWritten, CheckHolds, SocketIsOwn,
     B!OneBrokerUnlessRaced, B!Unwritten, B!Opened, B!Serving

LEMMA InitBroker == ASSUME B!BrokersAssumption PROVE B!Init => BrokerInv
BY InitTyped
   DEF B!Init, BrokerInv, Alone, OneUnwritten, UpIsWritten, CheckHolds, SocketIsOwn,
       B!Unwritten, B!Serving, B!Free

(* A change of process p that leaves raced false: either nothing was raced *)
(* before, or no broker is past its look after it.                         *)
LEMMA NotRaced ==
  ASSUME B!TypeOK, NEW p \in Pid, NEW what, B!Becomes(p, what), ~ raced', raced \/ Alone
  PROVE  /\ OneUnwritten'
         /\ run'[p] = what /\ \A q \in Pid \ {p} : run'[q] = run[q]
         /\ Alone \/ \A q \in Pid : run'[q] \notin B!Unwritten \union {"up"}
BY DEF B!Becomes, OneUnwritten, B!TypeOK

LEMMA NextBroker == ASSUME B!BrokersAssumption, BrokerInv, [B!Next]_B!vars PROVE BrokerInv'
<1>1. B!TypeOK /\ B!TypeOK'
  BY NextTyped DEF BrokerInv
<1>2. SUFFICES ASSUME ~ raced' PROVE Alone'
  BY <1>1 DEF BrokerInv
<1>3. raced \/ Alone
  BY DEF BrokerInv
<1> USE DEF B!Unwritten, B!Serving, B!Free
<1>4. ASSUME NEW p \in Pid, NEW what, B!Becomes(p, what),
             ~ Alone
      PROVE  Alone'
  BY <1>1, <1>2, <1>3, <1>4, NotRaced DEF Alone, OneUnwritten, UpIsWritten, CheckHolds, SocketIsOwn
<1>5. ASSUME NEW p \in Pid, NEW what, B!Becomes(p, what), Alone,
             what \notin B!Unwritten \union {"up"},
             \A q \in Pid : run'[q] = "up" => pidfile' = q,
             \A q \in Pid \ {p} : run[q] \in B!Serving => socket' = q
      PROVE  Alone'
  BY <1>1, <1>2, <1>3, <1>5, NotRaced DEF Alone, OneUnwritten, UpIsWritten, CheckHolds, SocketIsOwn
<1> DEFINE Quiet == \E p \in Pid : \/ B!Start(p) \/ B!Kill(p) \/ B!OtherStarts(p) \/ B!OtherEnds(p)
                                   \/ B!DegradedOpens(p) \/ B!DegradedEnds(p) \/ B!MintDies(p)
<1>6. ASSUME NEW p \in Pid, NEW what, B!Becomes(p, what), what \in {B!Free, "starting", "other", "client"},
             UNCHANGED <<pidfile, socket>>
      PROVE  Alone'
  <2>1. CASE Alone
    <3>1. run'[p] = what /\ \A q \in Pid \ {p} : run'[q] = run[q]
      BY <1>1, <1>2, <1>3, <1>6, NotRaced
    <3>2. \A q \in Pid : run'[q] = "up" => pidfile' = q
      BY <1>6, <2>1, <3>1 DEF Alone, UpIsWritten
    <3>3. \A q \in Pid \ {p} : run[q] \in B!Serving => socket' = q
      BY <1>6, <2>1 DEF Alone, SocketIsOwn
    <3> QED
      BY <1>5, <1>6, <2>1, <3>2, <3>3
  <2> QED
    BY <1>4, <1>6, <2>1
<1>7. CASE Quiet
  <2>1. PICK p \in Pid, what \in {B!Free, "starting", "other", "client"} : B!Becomes(p, what)
    BY <1>7 DEF B!Start, B!Kill, B!OtherStarts, B!OtherEnds, B!DegradedOpens, B!DegradedEnds,
         B!MintDies, B!Ends
  <2>2. UNCHANGED <<pidfile, socket>>
    BY <1>7 DEF B!Start, B!Kill, B!OtherStarts, B!OtherEnds, B!DegradedOpens, B!DegradedEnds,
         B!MintDies, B!Opens
  <2> QED
    BY <1>6, <2>1, <2>2
<1>8. ASSUME NEW p \in Pid, B!CheckPidfile(p) PROVE Alone'
  <2>1. UNCHANGED <<pidfile, socket>> /\ run[p] = "starting"
    BY <1>8 DEF B!CheckPidfile
  <2>2. CASE B!Becomes(p, B!Free)
    BY <1>6, <2>1, <2>2
  <2>3. CASE B!Becomes(p, "checked") /\ ~ (pidfile # p /\ B!Alive(pidfile)) /\ Alone
    <3>1. OneUnwritten' /\ run'[p] = "checked" /\ \A q \in Pid \ {p} : run'[q] = run[q]
      BY <1>1, <1>2, <1>3, <2>3, NotRaced
    <3>2. \A q \in Pid : run[q] # "up"
      BY <1>1, <2>1, <2>3, B!BrokersAssumption DEF B!Alive, Alone, UpIsWritten, B!TypeOK
    <3> QED
      BY <1>1, <2>1, <2>3, <3>1, <3>2 DEF Alone, UpIsWritten, CheckHolds, SocketIsOwn
  <2> QED
    BY <1>4, <1>8, <2>2, <2>3 DEF B!CheckPidfile
<1>9. ASSUME NEW p \in Pid, B!OpenStore(p) PROVE Alone'
  <2>1. UNCHANGED <<pidfile, socket>> /\ run[p] = "checked" /\ B!Becomes(p, "opened")
    BY <1>9 DEF B!OpenStore, B!Opens
  <2>2. CASE Alone
    <3>1. OneUnwritten' /\ run'[p] = "opened" /\ \A q \in Pid \ {p} : run'[q] = run[q]
      BY <1>1, <1>2, <1>3, <2>1, NotRaced
    <3> QED
      BY <1>1, <2>1, <2>2, <3>1 DEF Alone, UpIsWritten, CheckHolds, SocketIsOwn
  <2> QED
    BY <1>4, <2>1, <2>2
<1>10. ASSUME NEW p \in Pid, B!Bind(p) PROVE Alone'
  <2>1. pidfile' = pidfile /\ socket' = p /\ run[p] = "opened" /\ B!Becomes(p, "bound")
    BY <1>10 DEF B!Bind
  <2>2. CASE Alone
    <3>1. OneUnwritten' /\ run'[p] = "bound" /\ \A q \in Pid \ {p} : run'[q] = run[q]
      BY <1>1, <1>2, <1>3, <2>1, NotRaced
    <3>2. \A q \in Pid \ {p} : run[q] \notin B!Serving
      BY <2>1, <2>2 DEF Alone, OneUnwritten, CheckHolds
    <3> QED
      BY <1>1, <2>1, <2>2, <3>1, <3>2 DEF Alone, UpIsWritten, CheckHolds, SocketIsOwn
  <2> QED
    BY <1>4, <2>1, <2>2
<1>11. ASSUME NEW p \in Pid, B!WritePidfile(p) PROVE Alone'
  <2>1. pidfile' = p /\ socket' = socket /\ run[p] = "bound" /\ B!Becomes(p, "up")
    BY <1>11 DEF B!WritePidfile
  <2>2. CASE Alone
    <3>1. OneUnwritten' /\ run'[p] = "up" /\ \A q \in Pid \ {p} : run'[q] = run[q]
      BY <1>1, <1>2, <1>3, <2>1, NotRaced
    <3>2. \A q \in Pid \ {p} : run[q] \notin B!Unwritten \union {"up"}
      BY <2>1, <2>2 DEF Alone, OneUnwritten, CheckHolds
    <3> QED
      BY <1>1, <2>1, <2>2, <3>1, <3>2 DEF Alone, UpIsWritten, CheckHolds, SocketIsOwn
  <2> QED
    BY <1>4, <2>1, <2>2
<1>12. ASSUME NEW p \in Pid, B!Cleanup(p) PROVE Alone'
  <2>1. run[p] = "up" /\ B!Becomes(p, B!Free)
    BY <1>12 DEF B!Cleanup, B!Ends
  <2>2. CASE Alone
    <3>1. OneUnwritten' /\ run'[p] = B!Free /\ \A q \in Pid \ {p} : run'[q] = run[q]
      BY <1>1, <1>2, <1>3, <2>1, NotRaced
    <3>2. \A q \in Pid \ {p} : run[q] \notin B!Unwritten \union {"up"}
      BY <1>1, <2>1, <2>2 DEF Alone, UpIsWritten, CheckHolds, B!TypeOK
    <3> QED
      BY <1>1, <2>1, <2>2, <3>1, <3>2 DEF Alone, UpIsWritten, CheckHolds, SocketIsOwn
  <2> QED
    BY <1>4, <2>1, <2>2
<1>13. CASE UNCHANGED B!os
  BY <1>2, <1>3, <1>13
     DEF B!os, Alone, OneUnwritten, UpIsWritten, CheckHolds, SocketIsOwn
<1>14. ASSUME NEW p \in Pid, B!Mint(p) PROVE UNCHANGED B!os
  BY <1>14 DEF B!Mint
<1>15. B!StoreLost \/ B!Tick \/ UNCHANGED B!vars => UNCHANGED B!os
  BY DEF B!StoreLost, B!Tick, B!vars, B!os
<1> QED
  BY <1>7, <1>8, <1>9, <1>10, <1>11, <1>12, <1>13, <1>14, <1>15 DEF B!Next, B!Boots

(* server.ts:240-241, and the promise of the pidfile: whatever is killed   *)
(* and whichever pids are used again, at most one broker has the store     *)
(* open and the socket is its own, except from the moment two starts are   *)
(* past their look at one time until no broker is left: what those two do  *)
(* LiveSocketStays shows.                                                  *)
THEOREM OneBrokerAlways == B!BrokersAssumption => (B!Spec => []B!OneBrokerUnlessRaced)
<1> SUFFICES ASSUME B!BrokersAssumption PROVE B!Spec => []B!OneBrokerUnlessRaced
  OBVIOUS
<1>1. BrokerInv /\ [B!Next]_B!vars => BrokerInv'
  BY NextBroker
<1> QED
  BY InitBroker, <1>1, InvOneBroker, PTL DEF B!Spec

-----------------------------------------------------------------------------
(* The counter.  Unless the store was shared, one process at most has it   *)
(* open, no number was handed out above what the store and the clock give  *)
(* a new process, and none above the copy of the one that has it open.     *)
OneWriter == \A p, q \in Pid : run[p] \in B!Writers /\ run[q] \in B!Writers => p = q
CounterCovers == top <= B!Resumed
CopyCovers == \A p \in Pid : run[p] \in B!Writers => top <= held[p]

Covered == OneWriter /\ CounterCovers /\ CopyCovers
CursorInv == B!TypeOK /\ (shared \/ Covered)

LEMMA InitCursor == ASSUME B!BrokersAssumption PROVE B!Init => CursorInv
<1> SUFFICES ASSUME B!Init PROVE CursorInv
  OBVIOUS
<1>1. \A p \in Pid : run[p] \notin B!Writers
  BY DEF B!Init, B!Writers, B!Opened, B!Free
<1>2. top <= B!Resumed
  BY DEF B!Init, B!Resumed, B!Larger
<1> QED
  BY <1>1, <1>2, InitTyped DEF CursorInv, Covered, OneWriter, CounterCovers, CopyCovers

(* Steps that hand out no number lower neither the clock nor the counter,  *)
(* and give no process the store.                                          *)
LEMMA QuietKeeps ==
  ASSUME B!BrokersAssumption, CursorInv, B!TypeOK', UNCHANGED <<top, counter, shared>>, now <= now',
         \A p \in Pid : run'[p] \in B!Writers => run[p] \in B!Writers /\ held'[p] = held[p]
  PROVE  CursorInv'
BY DEF CursorInv, B!TypeOK, Covered, OneWriter, CounterCovers, CopyCovers, B!Resumed, B!Larger

LEMMA NextCursor == ASSUME B!BrokersAssumption, CursorInv, [B!Next]_B!vars PROVE CursorInv'
<1>1. B!TypeOK /\ B!TypeOK'
  BY NextTyped DEF CursorInv
<1>2. now \in Nat /\ counter \in Nat /\ top \in Nat
  BY <1>1, B!BrokersAssumption DEF B!TypeOK
<1>3. ASSUME NEW p \in Pid,
             \/ B!Start(p) \/ B!CheckPidfile(p) \/ B!Bind(p) \/ B!WritePidfile(p)
             \/ B!Cleanup(p) \/ B!Kill(p) \/ B!OtherStarts(p) \/ B!OtherEnds(p) \/ B!DegradedEnds(p)
      PROVE  CursorInv'
  <2>1. UNCHANGED <<top, counter, now, shared>>
    BY <1>3 DEF B!Start, B!CheckPidfile, B!Bind, B!WritePidfile, B!Cleanup, B!Kill, B!OtherStarts,
         B!OtherEnds, B!DegradedEnds, B!store
  <2>2. \A q \in Pid : run'[q] \in B!Writers => run[q] \in B!Writers /\ held'[q] = held[q]
    BY <1>1, <1>3 DEF B!Start, B!CheckPidfile, B!Bind, B!WritePidfile, B!Cleanup, B!Kill,
         B!OtherStarts, B!OtherEnds, B!DegradedEnds, B!Becomes, B!Ends,
         B!TypeOK, B!Writers, B!Opened, B!Free
  <2> QED
    BY <1>1, <1>2, <2>1, <2>2, QuietKeeps
<1>4. ASSUME NEW p \in Pid, NEW what, B!Becomes(p, what), B!Opens(p) PROVE CursorInv'
  <2>1. SUFFICES ASSUME ~ shared' PROVE Covered'
    BY <1>1 DEF CursorInv
  <2>2. /\ UNCHANGED <<top, counter, now>> /\ held'[p] = B!Resumed
        /\ \A q \in Pid \ {p} : run'[q] = run[q] /\ run[q] \notin B!Writers
    BY <1>1, <1>4, <2>1 DEF B!Becomes, B!Opens, B!store, B!TypeOK
  <2>3. top <= B!Resumed
    BY <1>2, <1>4, <2>1 DEF B!Opens, CursorInv, Covered, CounterCovers, B!Resumed, B!Larger
  <2>4. OneWriter'
    BY <2>2 DEF OneWriter
  <2>5. CounterCovers'
    BY <2>2, <2>3 DEF CounterCovers, B!Resumed
  <2>6. CopyCovers'
    BY <2>2, <2>3 DEF CopyCovers
  <2> QED
    BY <2>4, <2>5, <2>6 DEF Covered
<1>5. ASSUME NEW p \in Pid, B!Mint(p) PROVE CursorInv'
  <2>1. SUFFICES ASSUME ~ shared PROVE Covered'
    BY <1>1, <1>5 DEF CursorInv, B!Mint
  <2>2. /\ run' = run /\ now' = now /\ run[p] \in B!Writers
        /\ counter' = held[p] + 1 /\ held'[p] = held[p] + 1 /\ top' = B!Larger(top, held[p] + 1)
    BY <1>1, <1>5 DEF B!Mint, B!Bump, B!os, B!TypeOK
  <2>3. held[p] \in Nat /\ top <= held[p] /\ OneWriter
    BY <1>1, <2>1, <2>2 DEF CursorInv, Covered, CopyCovers, B!TypeOK
  <2>4. top' = held[p] + 1
    BY <1>2, <2>2, <2>3 DEF B!Larger
  <2>5. OneWriter' /\ \A q \in Pid : run'[q] \in B!Writers => q = p
    BY <2>2, <2>3 DEF OneWriter
  <2>6. CounterCovers'
    BY <1>2, <2>2, <2>3, <2>4 DEF CounterCovers, B!Resumed, B!Larger
  <2>7. CopyCovers'
    BY <2>2, <2>3, <2>4, <2>5 DEF CopyCovers
  <2> QED
    BY <2>5, <2>6, <2>7 DEF Covered
<1>6. ASSUME NEW p \in Pid, B!MintDies(p) PROVE CursorInv'
  <2>1. SUFFICES ASSUME ~ shared PROVE Covered'
    BY <1>1, <1>6 DEF CursorInv, B!MintDies
  <2>2. /\ now' = now /\ top' = top /\ run[p] \in B!Writers /\ counter' = held[p] + 1
        /\ \A q \in Pid : run'[q] \in B!Writers => run[q] \in B!Writers /\ held'[q] = held[q]
    BY <1>1, <1>6 DEF B!MintDies, B!Bump, B!Becomes, B!Ends, B!TypeOK, B!Writers, B!Opened, B!Free
  <2>3. held[p] \in Nat /\ top <= held[p] /\ OneWriter /\ CopyCovers
    BY <1>1, <2>1, <2>2 DEF CursorInv, Covered, CopyCovers, B!TypeOK
  <2>4. OneWriter' /\ CopyCovers'
    BY <2>2, <2>3 DEF OneWriter, CopyCovers
  <2>5. CounterCovers'
    BY <1>2, <2>2, <2>3 DEF CounterCovers, B!Resumed, B!Larger
  <2> QED
    BY <2>4, <2>5 DEF Covered
<1>7. CASE B!StoreLost
  BY <1>1, <1>2, <1>7
     DEF B!StoreLost, B!os, CursorInv, Covered, OneWriter, CounterCovers, CopyCovers, B!Resumed,
         B!Larger
<1>8. CASE B!Tick
  <2>1. UNCHANGED <<top, counter, held, run, shared>> /\ now <= now'
    BY <1>2, <1>8 DEF B!Tick, B!store, B!os
  <2> QED
    BY <1>1, <2>1, QuietKeeps
<1>9. CASE UNCHANGED B!vars
  BY <1>1, <1>2, <1>9, QuietKeeps DEF B!vars, B!os, B!store
<1>10. ASSUME NEW p \in Pid, B!OpenStore(p) \/ B!DegradedOpens(p) PROVE CursorInv'
  BY <1>4, <1>10 DEF B!OpenStore, B!DegradedOpens
<1> QED
  BY <1>3, <1>5, <1>6, <1>7, <1>8, <1>9, <1>10 DEF B!Next, B!Boots

(* A number that is handed out is above all that were.                     *)
LEMMA MintsAbove ==
  ASSUME B!BrokersAssumption, CursorInv, [B!Next]_B!vars
  PROVE  \A p \in Pid : B!HandsOut(p) => held'[p] > top \/ shared
<1> SUFFICES ASSUME NEW p \in Pid, B!HandsOut(p), ~ shared PROVE held'[p] > top
  OBVIOUS
<1>1. B!TypeOK /\ top \in Nat /\ top <= held[p] /\ held[p] \in Nat
  BY DEF CursorInv, B!TypeOK, Covered, CopyCovers, B!HandsOut
<1>2. \A q \in Pid : \A what : B!Becomes(q, what) /\ what # run[q] => run'[q] # run[q]
  BY <1>1 DEF B!Becomes, B!TypeOK
<1>3. \A q \in Pid : B!Ends(q) /\ run[q] # B!Free => held'[p] = held[p] \/ p = q
  BY <1>1 DEF B!Ends, B!TypeOK
<1>4. \E q \in Pid : B!Mint(q)
  <2>1. ~ \E q \in Pid : B!Cleanup(q) \/ B!Kill(q) \/ B!MintDies(q) \/ B!DegradedEnds(q)
    BY <1>1, <1>2, <1>3 DEF B!Cleanup, B!Kill, B!MintDies, B!DegradedEnds, B!HandsOut, B!Ends,
         B!Writers, B!Opened, B!Booting, B!Unwritten, B!Free
  <2>2. ~ \E q \in Pid : B!OpenStore(q) \/ B!DegradedOpens(q)
    BY <1>1, <1>2 DEF B!OpenStore, B!DegradedOpens, B!Opens, B!HandsOut, B!TypeOK, B!Writers,
         B!Opened, B!Free
  <2>3. ~ \E q \in Pid : \/ B!Start(q) \/ B!CheckPidfile(q) \/ B!Bind(q) \/ B!WritePidfile(q)
                         \/ B!OtherStarts(q) \/ B!OtherEnds(q)
    BY DEF B!Start, B!CheckPidfile, B!Bind, B!WritePidfile, B!OtherStarts, B!OtherEnds, B!HandsOut
  <2>4. ~ (B!StoreLost \/ B!Tick \/ UNCHANGED B!vars)
    BY DEF B!StoreLost, B!Tick, B!vars, B!HandsOut
  <2> QED
    BY <2>1, <2>2, <2>3, <2>4 DEF B!Next, B!Boots
<1> QED
  BY <1>1, <1>4 DEF B!Mint, B!HandsOut, B!TypeOK

(* sqliteBackend.ts:228, "Cursor never rewinds": over restarts, half-done  *)
(* bumps and a lost store every new event number is above every earlier    *)
(* one, unless two processes had the store open at one time; a store that  *)
(* is opened by one alone, after the clock passed every number, is whole   *)
(* again.                                                                  *)
THEOREM CursorOnlyGrows == B!BrokersAssumption => (B!Spec => B!RewindsOnlyIfShared)
<1> SUFFICES ASSUME B!BrokersAssumption PROVE B!Spec => B!RewindsOnlyIfShared
  OBVIOUS
<1>1. CursorInv /\ [B!Next]_B!vars => CursorInv'
  BY NextCursor
<1>2. CursorInv /\ [B!Next]_B!vars =>
        [\A p \in Pid : B!HandsOut(p) => held'[p] > top \/ shared]_B!vars
  BY MintsAbove
<1> QED
  BY InitCursor, <1>1, <1>2, PTL DEF B!Spec, B!RewindsOnlyIfShared
=============================================================================
