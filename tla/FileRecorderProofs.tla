------------------------- MODULE FileRecorderProofs -------------------------
(***************************************************************************)
(* Proofs about FileRecorder: the file is a chronicle whatever fails, and   *)
(* without faults the unbroken, not too short and not too long end of what  *)
(* was accepted, for any sizes, chunks and capacity of the channel.         *)
(***************************************************************************)
EXTENDS FileRecorder, SequenceTheorems, TLAPS

Rising(s) == \A i, j \in 1..Len(s) : i < j => s[i] < s[j]

(* The bytes of s are among the first n of t.                               *)
Among(s, t, n) == \A i \in 1..Len(s) : \E p \in 1..n : s[i] = t[p]

(* s stands in t after the first n bytes.                                   *)
At(s, t, n) == n \in Nat /\ n + Len(s) <= Len(t) /\ \A i \in 1..Len(s) : s[i] = t[n + i]

(* The chunks of q are what t holds after its first n bytes, piece by       *)
(* piece: off[k] bytes stand before the k-th.                              *)
Pieces(off, q, t, n) ==
    /\ off \in [1..(Len(q) + 1) -> Nat]
    /\ off[1] = n /\ off[Len(q) + 1] = Len(t)
    /\ \A k \in 1..Len(q) : off[k + 1] = off[k] + Len(q[k]) /\ At(q[k], t, off[k])
Rest(q, t, n) == \E off \in [1..(Len(q) + 1) -> Nat] : Pieces(off, q, t, n)

(* What the file holds or trim is about to write back.                      *)
Content == IF Rewriting THEN remaining ELSE disk

(* What each step of writeLoop has in its hands.                            *)
Hands ==
    /\ ~Rewriting => remaining = <<>>
    /\ Rewriting => disk = <<>>
    /\ pc \in {"select", "rewriteA", "gone"} => cur = <<>>
    /\ Len(cur) <= MaxChunk /\ \A k \in 1..Len(writeCh) : Len(writeCh[k]) <= MaxChunk

(* The chunk in hand and those in the channel are the rest of the stream.   *)
Aligned == At(cur, stream, done) /\ Rest(writeCh, stream, done + Len(cur))

(* The stream is in the order of the device; file and rest of a trim hold   *)
(* bytes of it, in that order, none of which is still to be written.        *)
Ordered ==
    /\ Rising(stream) /\ \A p \in 1..Len(stream) : stream[p] <= next
    /\ Rising(Content) /\ Among(Content, stream, Written)

(* Without faults the file is open, its size is known, and it is the end    *)
(* of what was written, not cut too deep.                                   *)
Sound ==
    faults = 0 =>
        /\ pc # "gone" /\ ~Rewriting => file /\ fileSize = Len(disk)
        /\ At(Content, stream, Written - Len(Content))
        /\ Len(Content) = Written \/ Len(Content) >= LeftByTrim

(* Without faults there is room for the chunk that is about to be written.  *)
Fits(n) == n < MaxSize + MaxChunk \/ n <= MaxOld
Sized ==
    faults = 0 => Fits(IF pc \in {"rewriteB", "write"} THEN Len(Content) + MaxChunk ELSE Len(Content))

(* Only a drain ends writeLoop, only Stop begins one, and what was accepted *)
(* before Stop is part of the stream.                                       *)
Drains ==
    /\ atStop \in Nat /\ atStop <= Len(stream)
    /\ draining => stop
    /\ pc = "gone" => draining /\ ~file /\ done >= atStop

(* Chunks are unbroken, and an open file is at least as long as counted.    *)
Unbroken(s) == \A i \in 1..Len(s) : s[i] = s[1] + i - 1
Chunks == Unbroken(cur) /\ \A k \in 1..Len(writeCh) : Unbroken(writeCh[k])
Counted == (file => fileSize <= Len(disk)) /\ (Rewriting => ~file)

IInv == TypeOK /\ Hands /\ Aligned /\ Ordered /\ Sound /\ Sized /\ Drains /\ Chunks /\ Counted

-----------------------------------------------------------------------------
(* Pieces of sequences.                                                     *)

LEMMA AFunctionIsASeq ==
    ASSUME NEW S, NEW k \in Nat, NEW f \in [1..k -> S]
    PROVE  f \in Seq(S) /\ Len(f) = k
<1>1. f \in Seq(S)
  BY SeqDef
<1> QED
  BY <1>1, LenProperties

LEMMA RunFacts ==
    ASSUME NEW first \in Nat, NEW n \in Nat
    PROVE  /\ Run(first, n) \in Seq(first..(first + n - 1)) /\ Len(Run(first, n)) = n
           /\ \A i \in 1..n : Run(first, n)[i] = first + i - 1
           /\ Rising(Run(first, n))
<1>1. \A i \in 1..n : first + i - 1 \in first..(first + n - 1)
  OBVIOUS
<1>2. Run(first, n) \in [1..n -> first..(first + n - 1)]
  BY <1>1 DEF Run
<1>3. Run(first, n) \in Seq(first..(first + n - 1)) /\ Len(Run(first, n)) = n
  BY <1>2, AFunctionIsASeq
<1>4. \A i \in 1..n : Run(first, n)[i] = first + i - 1
  BY DEF Run
<1> QED
  BY <1>3, <1>4 DEF Rising

LEMMA SeqFacts ==
    ASSUME NEW S, NEW s \in Seq(S)
    PROVE  Len(s) \in Nat /\ \A i \in 1..Len(s) : s[i] \in S
BY LenProperties, ElementOfSeq

\* A cut of a sequence, anywhere from the first element to behind the last.
LEMMA Cut ==
    ASSUME NEW S, NEW s \in Seq(S), NEW a \in Nat \ {0}, NEW b \in 0..Len(s)
    PROVE  /\ SubSeq(s, a, b) \in Seq(S)
           /\ Len(SubSeq(s, a, b)) = IF a <= b THEN b - a + 1 ELSE 0
           /\ Len(SubSeq(s, a, b)) <= Len(s)
           /\ \A i \in 1..Len(SubSeq(s, a, b)) : a + i - 1 \in 1..Len(s) /\ SubSeq(s, a, b)[i] = s[a + i - 1]
<1>1. Len(s) \in Nat /\ b \in Int /\ a \in Int
  BY SeqFacts
<1>2. \A i \in a..b : s[i] \in S
  BY <1>1, ElementOfSeq
<1>3. /\ SubSeq(s, a, b) \in Seq(S)
      /\ Len(SubSeq(s, a, b)) = IF a <= b THEN b - a + 1 ELSE 0
      /\ \A i \in 1..(b - a + 1) : SubSeq(s, a, b)[i] = s[a + i - 1]
  BY <1>1, <1>2, SubSeqProperties
<1> QED
  BY <1>1, <1>3

LEMMA Prefix ==
    ASSUME NEW S, NEW s \in Seq(S), NEW k \in 0..Len(s)
    PROVE  /\ SubSeq(s, 1, k) \in Seq(S) /\ Len(SubSeq(s, 1, k)) = k
           /\ \A i \in 1..k : SubSeq(s, 1, k)[i] = s[i]
<1>1. Len(s) \in Nat /\ 1 \in Nat \ {0}
  BY SeqFacts
<1>2. k \in Nat /\ (IF 1 <= k THEN k - 1 + 1 ELSE 0) = k /\ \A i \in 1..k : 1 + i - 1 = i
  BY <1>1
<1>3. /\ SubSeq(s, 1, k) \in Seq(S)
      /\ Len(SubSeq(s, 1, k)) = IF 1 <= k THEN k - 1 + 1 ELSE 0
      /\ \A i \in 1..Len(SubSeq(s, 1, k)) : SubSeq(s, 1, k)[i] = s[1 + i - 1]
  BY <1>1, Cut
<1>4. Len(SubSeq(s, 1, k)) = k
  BY <1>2, <1>3
<1> QED
  BY <1>2, <1>3, <1>4

\* What was in the stream stays where it is when bytes are appended.
LEMMA Grows ==
    ASSUME NEW s \in Seq(Nat), NEW t \in Seq(Nat), NEW u \in Seq(Nat), NEW n
    PROVE  /\ At(s, t, n) => At(s, t \o u, n)
           /\ n \in 0..Len(t) /\ Among(s, t, n) => Among(s, t \o u, n)
           /\ At(u, t \o u, Len(t))
<1>1. Len(s) \in Nat /\ Len(t) \in Nat /\ Len(u) \in Nat
  BY SeqFacts
<1>2. /\ Len(t \o u) = Len(t) + Len(u)
      /\ \A i \in 1..Len(t) + Len(u) : (t \o u)[i] = IF i <= Len(t) THEN t[i] ELSE u[i - Len(t)]
  BY ConcatProperties
<1>3. \A i \in 1..Len(t) : (t \o u)[i] = t[i]
  BY <1>1, <1>2
<1>4. \A i \in 1..Len(u) : (t \o u)[Len(t) + i] = u[i]
  BY <1>1, <1>2
<1>5. ASSUME At(s, t, n) PROVE At(s, t \o u, n)
  BY <1>1, <1>2, <1>3, <1>5 DEF At
<1>6. ASSUME n \in 0..Len(t), Among(s, t, n) PROVE Among(s, t \o u, n)
  BY <1>1, <1>3, <1>6 DEF Among
<1>7. At(u, t \o u, Len(t))
  BY <1>1, <1>2, <1>4 DEF At
<1> QED
  BY <1>5, <1>6, <1>7

\* A cut of a piece is a piece.
LEMMA CutAt ==
    ASSUME NEW s \in Seq(Nat), NEW t \in Seq(Nat), NEW n, At(s, t, n),
           NEW a \in Nat \ {0}, NEW b \in 0..Len(s), a <= b + 1
    PROVE  At(SubSeq(s, a, b), t, n + a - 1)
<1>1. Len(s) \in Nat /\ Len(t) \in Nat /\ n \in Nat
  BY SeqFacts DEF At
<1>2. Len(SubSeq(s, a, b)) = b - a + 1
  BY <1>1, Cut
<1>3. \A i \in 1..Len(SubSeq(s, a, b)) : SubSeq(s, a, b)[i] = t[n + a - 1 + i]
  <2> SUFFICES ASSUME NEW i \in 1..Len(SubSeq(s, a, b)) PROVE SubSeq(s, a, b)[i] = t[n + a - 1 + i]
    OBVIOUS
  <2>1. a + i - 1 \in 1..Len(s) /\ SubSeq(s, a, b)[i] = s[a + i - 1]
    BY Cut
  <2>2. s[a + i - 1] = t[n + (a + i - 1)]
    BY <2>1 DEF At
  <2>3. n + (a + i - 1) = n + a - 1 + i
    BY <1>1, <1>2
  <2> QED
    BY <2>1, <2>2, <2>3
<1> QED
  BY <1>1, <1>2, <1>3 DEF At

LEMMA CutRising ==
    ASSUME NEW s \in Seq(Nat), NEW t, NEW n, Rising(s), Among(s, t, n),
           NEW a \in Nat \ {0}, NEW b \in 0..Len(s)
    PROVE  Rising(SubSeq(s, a, b)) /\ Among(SubSeq(s, a, b), t, n)
<1>1. /\ Len(SubSeq(s, a, b)) \in Nat
      /\ \A i \in 1..Len(SubSeq(s, a, b)) : a + i - 1 \in 1..Len(s) /\ SubSeq(s, a, b)[i] = s[a + i - 1]
  BY Cut, SeqFacts
<1>2. Rising(SubSeq(s, a, b))
  <2> SUFFICES ASSUME NEW i \in 1..Len(SubSeq(s, a, b)), NEW j \in 1..Len(SubSeq(s, a, b)), i < j
               PROVE  SubSeq(s, a, b)[i] < SubSeq(s, a, b)[j]
    BY DEF Rising
  <2>1. s[a + i - 1] < s[a + j - 1]
    BY <1>1 DEF Rising
  <2> QED
    BY <1>1, <2>1
<1>3. Among(SubSeq(s, a, b), t, n)
  <2> SUFFICES ASSUME NEW i \in 1..Len(SubSeq(s, a, b))
               PROVE  \E p \in 1..n : SubSeq(s, a, b)[i] = t[p]
    BY DEF Among
  <2> QED
    BY <1>1 DEF Among
<1> QED
  BY <1>2, <1>3

\* Pieces that meet are a piece.
LEMMA ConcatAt ==
    ASSUME NEW s \in Seq(Nat), NEW t \in Seq(Nat), NEW u \in Seq(Nat), NEW n,
           At(s, t, n), At(u, t, n + Len(s))
    PROVE  At(s \o u, t, n)
<1>1. Len(s) \in Nat /\ Len(t) \in Nat /\ Len(u) \in Nat /\ n \in Nat
  BY SeqFacts DEF At
<1>2. /\ Len(s \o u) = Len(s) + Len(u)
      /\ \A i \in 1..Len(s) + Len(u) : (s \o u)[i] = IF i <= Len(s) THEN s[i] ELSE u[i - Len(s)]
  BY ConcatProperties
<1>3. ASSUME NEW i \in 1..Len(s) + Len(u) PROVE (s \o u)[i] = t[n + i]
  <2>1. CASE i <= Len(s)
    BY <1>1, <1>2, <2>1 DEF At
  <2>2. CASE i > Len(s)
    <3>1. i - Len(s) \in 1..Len(u) /\ n + Len(s) + (i - Len(s)) = n + i
      BY <1>1, <2>2
    <3>2. u[i - Len(s)] = t[n + Len(s) + (i - Len(s))]
      BY <3>1 DEF At
    <3> QED
      BY <1>1, <1>2, <2>2, <3>1, <3>2
  <2> QED
    BY <1>1, <2>1, <2>2
<1>4. n + (Len(s) + Len(u)) <= Len(t)
  BY <1>1 DEF At
<1> QED
  BY <1>1, <1>2, <1>3, <1>4 DEF At

\* Bytes that come after those of s, in a stream that rises, can be appended.
LEMMA ConcatRising ==
    ASSUME NEW s \in Seq(Nat), NEW t \in Seq(Nat), NEW u \in Seq(Nat), NEW n \in Nat, NEW m \in Nat,
           Rising(t), Rising(s), Among(s, t, n), At(u, t, n), n + Len(u) <= m
    PROVE  Rising(s \o u) /\ Among(s \o u, t, m)
<1>1. Len(s) \in Nat /\ Len(t) \in Nat /\ Len(u) \in Nat /\ n \in Nat /\ n + Len(u) <= Len(t)
  BY SeqFacts DEF At
<1>2. /\ Len(s \o u) = Len(s) + Len(u)
      /\ \A i \in 1..Len(s) + Len(u) : (s \o u)[i] = IF i <= Len(s) THEN s[i] ELSE u[i - Len(s)]
  BY ConcatProperties
<1>3. ASSUME NEW i \in 1..Len(s) + Len(u)
      PROVE  \E p \in 1..(n + Len(u)) : /\ (s \o u)[i] = t[p]
                                        /\ i <= Len(s) => p <= n /\ t[p] = s[i]
                                        /\ i > Len(s) => p = n + (i - Len(s))
  <2>1. CASE i <= Len(s)
    <3>1. PICK p \in 1..n : s[i] = t[p]
      BY <1>1, <2>1 DEF Among
    <3>2. p \in 1..(n + Len(u)) /\ (s \o u)[i] = s[i] /\ p <= n /\ ~(i > Len(s))
      BY <1>1, <1>2, <2>1
    <3>3. (s \o u)[i] = t[p] /\ t[p] = s[i]
      BY <3>1, <3>2
    <3> QED
      BY <3>2, <3>3
  <2>2. CASE i > Len(s)
    <3>1. i - Len(s) \in 1..Len(u)
      BY <1>1, <2>2
    <3>2. u[i - Len(s)] = t[n + (i - Len(s))]
      BY <3>1 DEF At
    <3>3. n + (i - Len(s)) \in 1..(n + Len(u)) /\ ~(i <= Len(s)) /\ (s \o u)[i] = u[i - Len(s)]
      BY <1>1, <1>2, <2>2, <3>1
    <3> QED
      BY <3>2, <3>3
  <2> QED
    BY <1>1, <2>1, <2>2
<1>4. \A i, j \in 1..Len(s) + Len(u) : i < j => (s \o u)[i] < (s \o u)[j]
  <2> SUFFICES ASSUME NEW i \in 1..Len(s) + Len(u), NEW j \in 1..Len(s) + Len(u), i < j
               PROVE  (s \o u)[i] < (s \o u)[j]
    OBVIOUS
  <2>1. CASE j <= Len(s)
    <3>1. (s \o u)[i] = s[i] /\ (s \o u)[j] = s[j] /\ i \in 1..Len(s) /\ j \in 1..Len(s)
      BY <1>1, <1>2, <2>1
    <3> QED
      BY <3>1 DEF Rising
  <2>2. CASE j > Len(s)
    <3>1. PICK p \in 1..(n + Len(u)) : /\ (s \o u)[i] = t[p]
                                       /\ i <= Len(s) => p <= n
                                       /\ i > Len(s) => p = n + (i - Len(s))
      BY <1>3
    <3>2. PICK q \in 1..(n + Len(u)) : (s \o u)[j] = t[q] /\ q = n + (j - Len(s))
      BY <1>3, <2>2
    <3>3. (i <= Len(s) => p <= n) /\ (i > Len(s) => p = n + (i - Len(s))) /\ q = n + (j - Len(s))
      BY <3>1, <3>2
    <3>4. p < q
      <4>1. i \in Nat /\ j \in Nat /\ p \in Nat /\ q = n + (j - Len(s))
        BY <1>1, <3>3
      <4>2. CASE i <= Len(s)
        BY <1>1, <2>2, <3>3, <4>1, <4>2
      <4>3. CASE i > Len(s)
        BY <1>1, <3>3, <4>1, <4>3
      <4> QED
        BY <1>1, <4>1, <4>2, <4>3
    <3>5. p \in 1..Len(t) /\ q \in 1..Len(t)
      BY <1>1
    <3> QED
      BY <3>1, <3>2, <3>4, <3>5 DEF Rising
  <2>3. j <= Len(s) \/ j > Len(s)
    BY <1>1
  <2> QED
    BY <2>1, <2>2, <2>3, Zenon
<1>5. Rising(s \o u)
  BY <1>2, <1>4 DEF Rising
<1>6. Among(s \o u, t, m)
  <2>1. \A i \in 1..Len(s \o u) : \E p \in 1..(n + Len(u)) : (s \o u)[i] = t[p]
    BY <1>2, <1>3
  <2>2. \A p \in 1..(n + Len(u)) : p \in 1..m
    BY <1>1
  <2> QED
    BY <2>1, <2>2 DEF Among
<1> QED
  BY <1>5, <1>6

\* The last bytes of a sequence are a suffix of it.
LEMMA AtTheEnd ==
    ASSUME NEW s \in Seq(Nat), NEW t \in Seq(Nat), At(s, t, Len(t) - Len(s))
    PROVE  IsSuffix(s, t)
<1>1. Len(s) \in Nat /\ Len(t) \in Nat /\ Len(s) <= Len(t)
  BY SeqFacts DEF At
<1>2. ASSUME NEW v \in Seq(Nat)
      PROVE  /\ Reverse(v) \in Seq(Nat) /\ Len(Reverse(v)) = Len(v)
             /\ \A i \in 1..Len(v) : Reverse(v)[i] = v[(Len(v) - i) + 1]
  <2>1. Len(v) \in Nat /\ \A i \in 1..Len(v) : v[(Len(v) - i) + 1] \in Nat
    BY SeqFacts
  <2>2. Reverse(v) \in [1..Len(v) -> Nat]
    BY <2>1 DEF Reverse
  <2>3. Reverse(v) \in Seq(Nat) /\ Len(Reverse(v)) = Len(v)
    BY <2>1, <2>2, AFunctionIsASeq
  <2> QED
    BY <2>3 DEF Reverse
<1>3. SubSeq(Reverse(s), 1, Len(s)) = Reverse(s)
  BY <1>2, SubSeqFull
<1>4. /\ SubSeq(Reverse(t), 1, Len(s)) \in Seq(Nat) /\ Len(SubSeq(Reverse(t), 1, Len(s))) = Len(s)
      /\ \A i \in 1..Len(s) : SubSeq(Reverse(t), 1, Len(s))[i] = Reverse(t)[i]
  <2>1. Reverse(t) \in Seq(Nat) /\ Len(Reverse(t)) = Len(t)
    BY <1>2
  <2>2. Len(s) \in 0..Len(Reverse(t))
    BY <1>1, <2>1
  <2> QED
    BY <2>1, <2>2, Prefix
<1>5. ASSUME NEW i \in 1..Len(s) PROVE Reverse(s)[i] = Reverse(t)[i]
  <2>1. (Len(s) - i) + 1 \in 1..Len(s) /\ i \in 1..Len(t)
        /\ Len(t) - Len(s) + ((Len(s) - i) + 1) = (Len(t) - i) + 1
    BY <1>1
  <2>2. s[(Len(s) - i) + 1] = t[(Len(t) - Len(s)) + ((Len(s) - i) + 1)]
    BY <2>1 DEF At
  <2> QED
    BY <1>2, <2>1, <2>2
<1>6. SubSeq(Reverse(t), 1, Len(s)) = Reverse(s)
  BY <1>2, <1>4, <1>5, SeqEqual
<1> QED
  BY <1>1, <1>2, <1>3, <1>6 DEF IsSuffix, IsPrefix

\* A chunk that is accepted is the last piece, and one that is taken the first.
LEMMA RestOfNothing ==
    ASSUME NEW t \in Seq(Nat), NEW n \in Nat, n = Len(t)
    PROVE  Rest(<<>>, t, n)
<1>1. Len(<<>>) = 0
  BY EmptySeq
<1> DEFINE off == [k \in 1..1 |-> n]
<1>2. off \in [1..(Len(<<>>) + 1) -> Nat] /\ off[1] = n /\ off[Len(<<>>) + 1] = Len(t)
  BY <1>1
<1>3. Pieces(off, <<>>, t, n)
  BY <1>1, <1>2 DEF Pieces
<1> QED
  BY <1>2, <1>3 DEF Rest

LEMMA RestAppend ==
    ASSUME NEW q \in Seq(Seq(Nat)), NEW t \in Seq(Nat), NEW u \in Seq(Nat), NEW n, Rest(q, t, n)
    PROVE  Rest(Append(q, u), t \o u, n)
<1>1. Len(q) \in Nat /\ Len(t) \in Nat /\ Len(u) \in Nat /\ \A k \in 1..Len(q) : q[k] \in Seq(Nat)
  BY SeqFacts
<1>2. /\ Len(Append(q, u)) = Len(q) + 1 /\ Append(q, u)[Len(q) + 1] = u
      /\ \A k \in 1..Len(q) : Append(q, u)[k] = q[k]
  BY AppendProperties
<1>3. Len(t \o u) = Len(t) + Len(u) /\ At(u, t \o u, Len(t))
  BY ConcatProperties, Grows
<1>4. PICK off \in [1..(Len(q) + 1) -> Nat] : Pieces(off, q, t, n)
  BY DEF Rest
<1> DEFINE new == [k \in 1..(Len(q) + 1) + 1 |-> IF k <= Len(q) + 1 THEN off[k] ELSE Len(t) + Len(u)]
<1>5. new \in [1..(Len(Append(q, u)) + 1) -> Nat]
  BY <1>1, <1>2
<1>6. /\ \A k \in 1..(Len(q) + 1) : new[k] = off[k]
      /\ new[(Len(q) + 1) + 1] = Len(t) + Len(u)
  BY <1>1
<1>7. new[1] = n /\ new[Len(Append(q, u)) + 1] = Len(t \o u)
  BY <1>1, <1>2, <1>3, <1>4, <1>6 DEF Pieces
<1> HIDE DEF new
<1>8. ASSUME NEW k \in 1..Len(Append(q, u))
      PROVE  /\ new[k + 1] = new[k] + Len(Append(q, u)[k])
             /\ At(Append(q, u)[k], t \o u, new[k])
  <2>1. CASE k = Len(q) + 1
    <3>1. new[k] = Len(t) /\ new[k + 1] = Len(t) + Len(u) /\ Append(q, u)[k] = u
      BY <1>1, <1>2, <1>4, <1>6, <2>1 DEF Pieces
    <3> QED
      BY <1>3, <3>1
  <2>2. CASE k \in 1..Len(q)
    <3>1. new[k] = off[k] /\ new[k + 1] = off[k + 1] /\ Append(q, u)[k] = q[k]
      BY <1>1, <1>2, <1>6, <2>2
    <3>2. off[k + 1] = off[k] + Len(q[k]) /\ At(q[k], t, off[k])
      BY <1>4, <2>2 DEF Pieces
    <3>3. At(q[k], t \o u, off[k])
      BY <1>1, <2>2, <3>2, Grows
    <3> QED
      BY <3>1, <3>2, <3>3
  <2> QED
    BY <1>1, <1>2, <2>1, <2>2
<1>9. Pieces(new, Append(q, u), t \o u, n)
  BY <1>5, <1>7, <1>8 DEF Pieces
<1> QED
  BY <1>5, <1>9 DEF Rest

LEMMA RestTail ==
    ASSUME NEW q \in Seq(Seq(Nat)), NEW t \in Seq(Nat), NEW n, q # <<>>, Rest(q, t, n)
    PROVE  /\ Head(q) \in Seq(Nat) /\ Tail(q) \in Seq(Seq(Nat))
           /\ At(Head(q), t, n) /\ Rest(Tail(q), t, n + Len(Head(q)))
<1>1. Len(q) \in Nat \ {0} /\ Len(t) \in Nat
  BY SeqFacts, EmptySeq
<1>2. /\ Head(q) \in Seq(Nat) /\ Tail(q) \in Seq(Seq(Nat)) /\ Len(Tail(q)) = Len(q) - 1
      /\ \A k \in 1..Len(Tail(q)) : Tail(q)[k] = q[k + 1]
  BY HeadTailProperties
<1>3. Head(q) = q[1]
  BY HeadTailProperties
<1>4. PICK off \in [1..(Len(q) + 1) -> Nat] : Pieces(off, q, t, n)
  BY DEF Rest
<1> DEFINE new == [k \in 1..Len(q) |-> off[k + 1]]
<1>5. new \in [1..(Len(Tail(q)) + 1) -> Nat]
  BY <1>1, <1>2
<1>6. \A k \in 1..Len(q) : new[k] = off[k + 1]
  OBVIOUS
<1> HIDE DEF new
<1>7. off[1] = n /\ off[2] = off[1] + Len(q[1]) /\ At(q[1], t, off[1])
  <2>1. 1 \in 1..Len(q) /\ 1 + 1 = 2
    BY <1>1
  <2>2. off[1 + 1] = off[1] + Len(q[1]) /\ At(q[1], t, off[1])
    BY <1>4, <2>1 DEF Pieces
  <2> QED
    BY <1>4, <2>1, <2>2 DEF Pieces
<1>8. new[1] = n + Len(Head(q)) /\ new[Len(Tail(q)) + 1] = Len(t)
  <2>1. 1 \in 1..Len(q) /\ 1 + 1 = 2 /\ Len(q) \in 1..Len(q) /\ Len(Tail(q)) + 1 = Len(q)
    BY <1>1, <1>2
  <2>2. new[1] = off[2] /\ new[Len(q)] = off[Len(q) + 1]
    BY <1>6, <2>1
  <2> QED
    BY <1>3, <1>4, <1>7, <2>1, <2>2 DEF Pieces
<1>9. ASSUME NEW k \in 1..Len(Tail(q))
      PROVE  /\ new[k + 1] = new[k] + Len(Tail(q)[k])
             /\ At(Tail(q)[k], t, new[k])
  <2>1. k + 1 \in 1..Len(q) /\ k \in 1..Len(q) /\ Tail(q)[k] = q[k + 1]
    BY <1>1, <1>2
  <2>2. new[k] = off[k + 1] /\ new[k + 1] = off[(k + 1) + 1]
    BY <1>6, <2>1
  <2>3. off[(k + 1) + 1] = off[k + 1] + Len(q[k + 1]) /\ At(q[k + 1], t, off[k + 1])
    BY <1>4, <2>1 DEF Pieces
  <2> QED
    BY <2>1, <2>2, <2>3
<1>10. Pieces(new, Tail(q), t, n + Len(Head(q)))
  BY <1>5, <1>8, <1>9 DEF Pieces
<1> QED
  BY <1>2, <1>3, <1>5, <1>7, <1>10 DEF Rest

-----------------------------------------------------------------------------
(* Types.                                                                   *)

LEMMA Kinds ==
    ASSUME TypeOK
    PROVE  /\ disk \in Seq(Nat) /\ remaining \in Seq(Nat) /\ cur \in Seq(Nat) /\ stream \in Seq(Nat)
           /\ writeCh \in Seq(Seq(Nat)) /\ done \in Nat /\ next \in Nat /\ fileSize \in Nat /\ faults \in Nat
           /\ Content \in Seq(Nat) /\ Len(Content) \in Nat /\ Len(cur) \in Nat /\ Written \in Nat
<1>1. Bytes \subseteq Nat
  BY RecorderAssumption DEF Bytes
<1>2. /\ disk \in Seq(Nat) /\ remaining \in Seq(Nat) /\ cur \in Seq(Nat) /\ stream \in Seq(Nat)
      /\ writeCh \in Seq(Seq(Nat))
  <2>1. Seq(Bytes) \subseteq Seq(Nat)
    BY <1>1, SeqMonotonic
  <2> QED
    BY <2>1, SeqMonotonic DEF TypeOK
<1>3. Content \in Seq(Nat)
  BY <1>2 DEF Content
<1> QED
  BY <1>2, <1>3, RecorderAssumption, SeqFacts DEF TypeOK, Written

LEMMA TypeInit == Init => TypeOK
<1> SUFFICES ASSUME Init PROVE TypeOK
  OBVIOUS
<1>1. PICK n \in 0..MaxOld : disk = Run(1, n) /\ stream = Run(1, n) /\ next = n /\ fileSize = n /\ done = n
  BY DEF Init
<1>2. Run(1, n) \in Seq(1..n)
  <2>1. n \in Nat /\ 1 \in Nat /\ 1 + n - 1 = n
    BY RecorderAssumption
  <2> QED
    BY <2>1, RunFacts
<1>3. 1..n \subseteq Bytes
  BY RecorderAssumption DEF Bytes
<1>4. Run(1, n) \in Seq(Bytes) /\ n \in Nat /\ n \in 0..(MaxOld + MaxBytes)
  BY <1>2, <1>3, SeqMonotonic, RecorderAssumption
<1>5. /\ disk \in Seq(Bytes) /\ stream \in Seq(Bytes) /\ fileSize \in Nat /\ done \in Nat
      /\ next \in 0..(MaxOld + MaxBytes)
  BY <1>1, <1>4
<1>6. /\ remaining \in Seq(Bytes) /\ cur \in Seq(Bytes) /\ writeCh \in Seq(Seq(Bytes)) /\ Len(writeCh) <= QueueCap
  BY EmptySeq, RecorderAssumption DEF Init
<1>7. /\ file \in BOOLEAN /\ stop \in BOOLEAN /\ up \in BOOLEAN /\ draining \in BOOLEAN /\ pc = "select"
      /\ atStop = 0 /\ faults \in 0..MaxFaults /\ crashes \in 0..MaxCrashes
  <2>1. /\ file = TRUE /\ stop = FALSE /\ up = TRUE /\ draining = FALSE /\ pc = "select"
        /\ atStop = 0 /\ faults = 0 /\ crashes = 0
    BY DEF Init
  <2>2. 0 \in 0..MaxFaults /\ 0 \in 0..MaxCrashes
    BY RecorderAssumption
  <2> QED
    BY <2>1, <2>2, Zenon
<1> QED
  BY <1>5, <1>6, <1>7 DEF TypeOK

(* TypeOK in two parts: the file, and the rest.                             *)
TypeFile ==
    /\ disk \in Seq(Bytes) /\ remaining \in Seq(Bytes)
    /\ file \in BOOLEAN /\ fileSize \in Nat /\ faults \in 0..MaxFaults

TypeFlow ==
    /\ cur \in Seq(Bytes) /\ stop \in BOOLEAN /\ up \in BOOLEAN
    /\ writeCh \in Seq(Seq(Bytes)) /\ Len(writeCh) <= QueueCap
    /\ pc \in {"select", "before", "write", "after", "rewriteB", "rewriteA", "gone"}
    /\ draining \in BOOLEAN
    /\ next \in 0..(MaxOld + MaxBytes) /\ stream \in Seq(Bytes) /\ atStop \in Nat /\ done \in Nat
    /\ crashes \in 0..MaxCrashes

LEMMA TypeParts == (TypeOK <=> TypeFile /\ TypeFlow) /\ (TypeOK' <=> TypeFile' /\ TypeFlow')
BY DEF TypeOK, TypeFile, TypeFlow

LEMMA TypeFault == TypeFile /\ Fault => faults' \in 0..MaxFaults
BY RecorderAssumption DEF TypeFile, Fault

\* A prefix is what a failed Write leaves.
LEMMA TypePrefix ==
    ASSUME NEW S, NEW s \in Seq(S), NEW t \in Seq(S), NEW k \in 0..(Len(t) - 1)
    PROVE  /\ s \o SubSeq(t, 1, k) \in Seq(S) /\ SubSeq(t, 1, k) \in Seq(S) /\ Len(SubSeq(t, 1, k)) = k
<1>1. k \in 0..Len(t)
  BY SeqFacts
<1>2. SubSeq(t, 1, k) \in Seq(S) /\ Len(SubSeq(t, 1, k)) = k
  BY <1>1, Prefix
<1> QED
  BY <1>2, ConcatProperties

LEMMA TypeTrimRead ==
    ASSUME TypeFile, NEW from, NEW to, NEW rewrite, TrimRead(from, to, rewrite)
    PROVE  TypeFile' /\ (Go(from, to) \/ Go(from, rewrite))
<1>1. Kept \in Seq(Bytes) /\ <<>> \in Seq(Bytes)
  <2>1. TrimSize + 1 \in Nat \ {0} /\ Len(disk) \in 0..Len(disk) /\ disk \in Seq(Bytes)
    BY RecorderAssumption, SeqFacts DEF TypeFile
  <2> QED
    BY <2>1, Cut, EmptySeq DEF Kept
<1>2. disk' \in Seq(Bytes) /\ remaining' \in Seq(Bytes)
  BY <1>1 DEF TrimRead, TypeFile
<1>3. faults' \in 0..MaxFaults /\ file' = FALSE /\ fileSize' = fileSize
  BY TypeFault DEF TrimRead, TypeFile
<1>4. Go(from, to) \/ Go(from, rewrite)
  BY DEF TrimRead
<1> QED
  BY <1>2, <1>3, <1>4 DEF TypeFile

LEMMA TypeTrimWrite ==
    ASSUME TypeFile, NEW from, NEW to, TrimWrite(from, to)
    PROVE  TypeFile' /\ Go(from, to)
<1>1. disk \in Seq(Bytes) /\ remaining \in Seq(Bytes) /\ Len(remaining) \in Nat /\ <<>> \in Seq(Bytes)
  BY SeqFacts, EmptySeq DEF TypeFile
<1>2. disk' \in Seq(Bytes)
  <2>1. disk \o remaining \in Seq(Bytes)
    BY <1>1, ConcatProperties
  <2>2. \A k \in 0..(Len(remaining) - 1) : disk \o SubSeq(remaining, 1, k) \in Seq(Bytes)
    BY <1>1, TypePrefix
  <2>3. disk' = disk \o remaining \/ \E k \in 0..(Len(remaining) - 1) : disk' = disk \o SubSeq(remaining, 1, k)
    BY DEF TrimWrite, Rewritten
  <2> QED
    BY <2>1, <2>2, <2>3
<1>3. faults' \in 0..MaxFaults
  BY TypeFault DEF TrimWrite, TypeFile
<1>4. file' \in BOOLEAN /\ fileSize' \in Nat /\ remaining' = <<>>
  BY <1>1 DEF TrimWrite, SizeAfterTrim, TypeFile
<1> QED
  BY <1>1, <1>2, <1>3, <1>4 DEF TypeFile, TrimWrite

LEMMA TypeWritten == TypeFile /\ TypeFlow /\ ProcessWrite => TypeFile'
<1> SUFFICES ASSUME TypeFile, TypeFlow, ProcessWrite PROVE TypeFile'
  OBVIOUS
<1>1. disk \in Seq(Bytes) /\ cur \in Seq(Bytes) /\ Len(cur) \in Nat
  BY SeqFacts DEF TypeFile, TypeFlow
<1>2. disk' \in Seq(Bytes)
  BY <1>1, ConcatProperties, TypePrefix DEF ProcessWrite, fs
<1>3. faults' \in 0..MaxFaults
  BY TypeFault DEF ProcessWrite, TypeFile, fs
<1>4. file' = file /\ fileSize' \in Nat /\ remaining' = remaining
  BY <1>1 DEF ProcessWrite, SizeAfterError, TypeFile, fs
<1> QED
  BY <1>2, <1>3, <1>4 DEF TypeFile

LEMMA TypeNext == TypeOK /\ [Next]_vars => TypeOK'
<1> SUFFICES ASSUME TypeFile, TypeFlow, [Next]_vars PROVE TypeFile' /\ TypeFlow'
  BY TypeParts
<1>1. ASSUME UNCHANGED fs PROVE TypeFile'
  BY <1>1 DEF TypeFile, fs
<1>2. <<>> \in Seq(Bytes) /\ <<>> \in Seq(Seq(Bytes)) /\ Len(<<>>) = 0
  BY EmptySeq
<1>3. ASSUME NEW n \in 1..MaxChunk, Write(n) PROVE TypeFile' /\ TypeFlow'
  <2>1. n \in Nat /\ next \in Nat /\ next + 1 \in Nat /\ next + n \in 0..(MaxOld + MaxBytes)
    BY <1>3, RecorderAssumption DEF Write, TypeFlow
  <2>2. (next + 1)..(next + 1 + n - 1) \subseteq Bytes
    BY <2>1, RecorderAssumption DEF Bytes
  <2>3. Run(next + 1, n) \in Seq(Bytes)
    BY <2>1, <2>2, RunFacts, SeqMonotonic
  <2>4. /\ stream \o Run(next + 1, n) \in Seq(Bytes)
        /\ Append(writeCh, Run(next + 1, n)) \in Seq(Seq(Bytes))
        /\ Len(Append(writeCh, Run(next + 1, n))) = Len(writeCh) + 1
    BY <2>3, ConcatProperties, AppendProperties DEF TypeFlow
  <2>5. stream' \in Seq(Bytes) /\ writeCh' \in Seq(Seq(Bytes)) /\ Len(writeCh') <= QueueCap
    <3>1. CASE HasRoom
      <4>1. Len(writeCh) \in Nat /\ Len(writeCh) < QueueCap
        BY <3>1, SeqFacts DEF HasRoom, TypeFlow
      <4>2. /\ stream' = stream \o Run(next + 1, n) /\ writeCh' = Append(writeCh, Run(next + 1, n))
            /\ Len(writeCh) + 1 <= QueueCap
        <5>1. stream' = stream \o Run(next + 1, n) /\ writeCh' = Append(writeCh, Run(next + 1, n))
          BY <1>3, <3>1 DEF Write
        <5>2. Len(writeCh) + 1 <= QueueCap
          BY <4>1, RecorderAssumption
        <5> QED
          BY <5>1, <5>2
      <4> QED
        BY <2>4, <4>2
    <3>2. CASE ~HasRoom
      BY <1>3, <3>2 DEF Write, TypeFlow
    <3> QED
      BY <3>1, <3>2
  <2> QED
    BY <1>1, <1>3, <2>1, <2>5 DEF Write, TypeFlow, loop
<1>4. CASE Stop
  <2>1. Len(stream) \in Nat
    BY SeqFacts DEF TypeFlow
  <2> QED
    BY <1>1, <1>4, <2>1 DEF Stop, TypeFlow, loop
<1>5. CASE Take
  <2>1. Head(writeCh) \in Seq(Bytes) /\ Tail(writeCh) \in Seq(Seq(Bytes)) /\ Len(Tail(writeCh)) = Len(writeCh) - 1
    BY <1>5, HeadTailProperties DEF Take, TypeFlow
  <2>2. Len(writeCh) \in Nat
    BY SeqFacts DEF TypeFlow
  <2>3. Len(writeCh') <= QueueCap
    BY <1>5, <2>1, <2>2, RecorderAssumption DEF Take, TypeFlow
  <2> QED
    BY <1>1, <1>5, <2>1, <2>3 DEF Take, Go, TypeFlow, hist
<1>6. CASE SeeStop
  BY <1>1, <1>6 DEF SeeStop, Go, TypeFlow, hist
<1>7. CASE DrainEnd
  BY <1>7 DEF DrainEnd, Go, TypeFile, TypeFlow, hist
<1>8. CASE ProcessBefore
  <2>1. TypeFile' /\ pc' \in {"write", "rewriteB"} /\ UNCHANGED <<hist, stop, up>>
    BY <1>1, <1>8, TypeTrimRead DEF ProcessBefore, Go
  <2> QED
    BY <1>8, <2>1 DEF ProcessBefore, TypeFlow, hist
<1>9. CASE ProcessWrite
  BY <1>9, TypeWritten DEF ProcessWrite, Go, TypeFlow, hist
<1>10. CASE ProcessAfter
  <2>1. TypeFile' /\ pc' \in {"select", "rewriteA"} /\ UNCHANGED <<hist, stop, up>>
    BY <1>1, <1>10, TypeTrimRead DEF ProcessAfter, Go
  <2>2. done + Len(cur) \in Nat
    BY SeqFacts DEF TypeFlow
  <2> QED
    BY <1>2, <1>10, <2>1, <2>2 DEF ProcessAfter, TypeFlow, hist
<1>11. CASE Rewrite
  <2>1. TypeFile' /\ pc' \in {"select", "write"} /\ UNCHANGED <<hist, stop, up>>
    BY <1>11, TypeTrimWrite DEF Rewrite, Go
  <2> QED
    BY <1>11, <2>1 DEF Rewrite, TypeFlow, hist
<1>12. CASE Exit \/ Crash
  <2>1. crashes' \in 0..MaxCrashes
    BY <1>12, RecorderAssumption DEF Exit, Crash, TypeFlow
  <2> QED
    BY <1>1, <1>12, <2>1 DEF Exit, Crash, Dies, TypeFlow, loop
<1>13. CASE Restart
  <2>1. Len(disk) \in Nat
    BY SeqFacts DEF TypeFile
  <2>2. TypeFile'
    BY <1>2, <1>13, <2>1 DEF Restart, TypeFile
  <2>3. /\ stream' \in Seq(Bytes) /\ done' \in Nat /\ cur' \in Seq(Bytes)
        /\ writeCh' \in Seq(Seq(Bytes)) /\ Len(writeCh') <= QueueCap
    <3>1. stream' = disk /\ done' = Len(disk) /\ cur' = <<>> /\ writeCh' = <<>>
      BY <1>13 DEF Restart
    <3> QED
      BY <1>2, <2>1, <3>1, RecorderAssumption DEF TypeFile
  <2>4. next' = next /\ crashes' = crashes /\ stop' = FALSE /\ atStop' = 0 /\ pc' = "select" /\ draining' = FALSE /\ up' = TRUE
    BY <1>13 DEF Restart
  <2> QED
    BY <2>2, <2>3, <2>4 DEF TypeFlow
<1>14. CASE UNCHANGED vars
  BY <1>1, <1>14 DEF vars, TypeFlow, loop, hist
<1> QED
  BY <1>3, <1>4, <1>5, <1>6, <1>7, <1>8, <1>9, <1>10, <1>11, <1>12, <1>13, <1>14 DEF Next, LoopStep

-----------------------------------------------------------------------------
(* What writeLoop has in its hands.                                         *)

LEMMA HandsInit == Init => Hands
BY EmptySeq, RecorderAssumption DEF Init, Hands, Rewriting

LEMMA HandsNext == TypeOK /\ Hands /\ [Next]_vars => Hands'
<1> SUFFICES ASSUME TypeOK, Hands, [Next]_vars PROVE Hands'
  OBVIOUS
<1>1. Len(<<>>) = 0 /\ MaxChunk \in Nat
  BY EmptySeq, RecorderAssumption
<1>2. ASSUME NEW n \in 1..MaxChunk, Write(n) PROVE Hands'
  <2>1. UNCHANGED <<disk, remaining, pc, cur>>
    BY <1>2 DEF Write, fs, loop
  <2>2. \A k \in 1..Len(writeCh') : Len(writeCh'[k]) <= MaxChunk
    <3>1. CASE writeCh' = writeCh
      BY <3>1 DEF Hands
    <3>2. CASE writeCh' = Append(writeCh, Run(next + 1, n))
      <4>1. writeCh \in Seq(Seq(Nat)) /\ Len(writeCh) \in Nat /\ next \in Nat /\ next + 1 \in Nat /\ n \in Nat
        BY Kinds, SeqFacts
      <4>2. Run(next + 1, n) \in Seq(Nat) /\ Len(Run(next + 1, n)) = n
        <5>1. (next + 1)..(next + 1 + n - 1) \subseteq Nat
          BY <4>1
        <5> QED
          BY <4>1, <5>1, RunFacts, SeqMonotonic
      <4>3. /\ Len(writeCh') = Len(writeCh) + 1 /\ writeCh'[Len(writeCh) + 1] = Run(next + 1, n)
            /\ \A k \in 1..Len(writeCh) : writeCh'[k] = writeCh[k]
        BY <3>2, <4>1, <4>2, AppendProperties
      <4>4. ASSUME NEW k \in 1..(Len(writeCh) + 1) PROVE Len(writeCh'[k]) <= MaxChunk
        <5>1. CASE k = Len(writeCh) + 1
          BY <4>2, <4>3, <5>1, <1>1
        <5>2. CASE k \in 1..Len(writeCh)
          BY <4>3, <5>2 DEF Hands
        <5> QED
          BY <4>1, <5>1, <5>2
      <4> QED
        BY <4>3, <4>4
    <3> QED
      BY <1>2, <3>1, <3>2 DEF Write
  <2> QED
    BY <2>1, <2>2 DEF Hands, Rewriting
<1>3. CASE Take
  <2>1. /\ Len(writeCh) \in Nat \ {0} /\ Head(writeCh) = writeCh[1] /\ Len(Tail(writeCh)) = Len(writeCh) - 1
        /\ \A k \in 1..Len(Tail(writeCh)) : Tail(writeCh)[k] = writeCh[k + 1]
    BY <1>3, Kinds, HeadTailProperties, EmptySeq DEF Take
  <2>2. 1 \in 1..Len(writeCh) /\ \A k \in 1..Len(Tail(writeCh)) : k + 1 \in 1..Len(writeCh)
    BY <2>1
  <2>3. Len(Head(writeCh)) <= MaxChunk /\ \A k \in 1..Len(Tail(writeCh)) : Len(Tail(writeCh)[k]) <= MaxChunk
    BY <2>1, <2>2 DEF Hands
  <2> QED
    BY <1>3, <2>3 DEF Take, Go, Hands, Rewriting, fs
<1>4. CASE ProcessBefore
  <2>1. \/ pc' = "write" /\ UNCHANGED <<disk, remaining>>
        \/ pc' = "rewriteB" /\ disk' = <<>>
    BY <1>4 DEF ProcessBefore, TrimRead, Go, fs
  <2>2. pc = "before" /\ UNCHANGED <<cur, writeCh>>
    BY <1>4 DEF ProcessBefore, TrimRead, Go
  <2> QED
    BY <2>1, <2>2 DEF Hands, Rewriting
<1>5. CASE ProcessWrite
  <2>1. pc = "write" /\ pc' = "after" /\ UNCHANGED <<remaining, cur, writeCh>>
    BY <1>5 DEF ProcessWrite, Go, fs
  <2> QED
    BY <2>1 DEF Hands, Rewriting
<1>6. CASE ProcessAfter
  <2>1. \/ pc' = "select" /\ UNCHANGED <<disk, remaining>>
        \/ pc' = "rewriteA" /\ disk' = <<>>
    BY <1>6 DEF ProcessAfter, TrimRead, Go, fs
  <2>2. pc = "after" /\ cur' = <<>> /\ UNCHANGED writeCh
    BY <1>6 DEF ProcessAfter, TrimRead, Go
  <2> QED
    BY <1>1, <2>1, <2>2 DEF Hands, Rewriting
<1>7. CASE Rewrite
  <2>1. \/ pc = "rewriteB" /\ pc' = "write"
        \/ pc = "rewriteA" /\ pc' = "select"
    BY <1>7 DEF Rewrite, TrimWrite, Go
  <2>2. remaining' = <<>> /\ UNCHANGED <<cur, writeCh>>
    BY <1>7 DEF Rewrite, TrimWrite
  <2> QED
    BY <2>1, <2>2 DEF Hands, Rewriting
<1>8. CASE Restart
  BY <1>1, <1>8 DEF Restart, Hands, Rewriting
<1>9. CASE Stop \/ SeeStop \/ DrainEnd \/ Exit \/ Crash \/ UNCHANGED vars
  <2>1. UNCHANGED <<disk, remaining, cur, writeCh>> /\ (pc' = pc \/ (pc = "select" /\ pc' = "gone"))
    <3>1. CASE SeeStop
      BY <3>1 DEF SeeStop, Go, fs
    <3>2. CASE DrainEnd
      BY <3>2 DEF DrainEnd, Go
    <3>3. CASE Stop \/ Exit \/ Crash
      BY <3>3 DEF Stop, Exit, Crash, Dies, fs, loop
    <3>4. CASE UNCHANGED vars
      BY <3>4 DEF vars, fs, loop
    <3> QED
      BY <1>9, <3>1, <3>2, <3>3, <3>4
  <2> QED
    BY <2>1 DEF Hands, Rewriting
<1> QED
  BY <1>2, <1>3, <1>4, <1>5, <1>6, <1>7, <1>8, <1>9 DEF Next, LoopStep

-----------------------------------------------------------------------------
(* The chunks are the rest of the stream.                                   *)

LEMMA AlignedInit == Init => Aligned
<1> SUFFICES ASSUME Init PROVE Aligned
  OBVIOUS
<1>1. TypeOK /\ Len(<<>>) = 0
  BY TypeInit, EmptySeq
<1>2. PICK n \in 0..MaxOld : stream = Run(1, n) /\ done = n
  BY DEF Init
<1>3. stream \in Seq(Nat) /\ n \in Nat /\ Len(stream) = n /\ cur = <<>> /\ writeCh = <<>>
  BY <1>1, <1>2, Kinds, RunFacts, RecorderAssumption DEF Init
<1>4. Rest(writeCh, stream, done + Len(cur))
  BY <1>1, <1>2, <1>3, RestOfNothing
<1> QED
  BY <1>1, <1>2, <1>3, <1>4 DEF Aligned, At

LEMMA AlignedNext == TypeOK /\ Hands /\ Aligned /\ [Next]_vars => Aligned'
<1> SUFFICES ASSUME TypeOK, Hands, Aligned, [Next]_vars PROVE Aligned'
  OBVIOUS
<1>1. /\ At(cur, stream, done) /\ Rest(writeCh, stream, done + Len(cur)) /\ Len(<<>>) = 0
      /\ cur \in Seq(Nat) /\ stream \in Seq(Nat) /\ writeCh \in Seq(Seq(Nat)) /\ disk \in Seq(Nat)
      /\ done \in Nat /\ Len(cur) \in Nat /\ Len(stream) \in Nat /\ next \in Nat
  BY Kinds, EmptySeq, SeqFacts DEF Aligned
<1>2. ASSUME NEW n \in 1..MaxChunk, Write(n) PROVE Aligned'
  <2>1. UNCHANGED <<cur, done>>
    BY <1>2 DEF Write, loop
  <2>2. CASE HasRoom
    <3>1. stream' = stream \o Run(next + 1, n) /\ writeCh' = Append(writeCh, Run(next + 1, n))
      BY <1>2, <2>2 DEF Write
    <3>2. Run(next + 1, n) \in Seq(Nat)
      <4>1. n \in Nat /\ next + 1 \in Nat /\ (next + 1)..(next + 1 + n - 1) \subseteq Nat
        BY <1>1
      <4> QED
        BY <4>1, RunFacts, SeqMonotonic
    <3>3. At(cur, stream \o Run(next + 1, n), done)
      BY <1>1, <3>2, Grows
    <3>4. Rest(Append(writeCh, Run(next + 1, n)), stream \o Run(next + 1, n), done + Len(cur))
      BY <1>1, <3>2, RestAppend
    <3> QED
      BY <2>1, <3>1, <3>3, <3>4 DEF Aligned
  <2>3. CASE ~HasRoom
    BY <1>1, <1>2, <2>1, <2>3 DEF Write, Aligned
  <2> QED
    BY <2>2, <2>3
<1>3. CASE Take
  <2>1. /\ writeCh # <<>> /\ cur = <<>> /\ cur' = Head(writeCh) /\ writeCh' = Tail(writeCh)
        /\ UNCHANGED <<stream, done>>
    BY <1>3 DEF Take, Go, Hands, hist
  <2>2. Rest(writeCh, stream, done)
    BY <1>1, <2>1
  <2> QED
    BY <1>1, <2>1, <2>2, RestTail DEF Aligned
<1>4. CASE ProcessAfter
  <2>1. cur' = <<>> /\ done' = done + Len(cur) /\ UNCHANGED <<stream, writeCh>>
    BY <1>4 DEF ProcessAfter, TrimRead, Go, hist
  <2>2. At(<<>>, stream, done + Len(cur)) /\ Rest(writeCh, stream, done + Len(cur) + Len(<<>>))
    BY <1>1 DEF At
  <2> QED
    BY <2>1, <2>2 DEF Aligned
<1>5. CASE Restart
  <2>1. stream' = disk /\ done' = Len(disk) /\ cur' = <<>> /\ writeCh' = <<>>
    BY <1>5 DEF Restart
  <2>2. At(<<>>, disk, Len(disk)) /\ Rest(<<>>, disk, Len(disk) + Len(<<>>))
    <3>1. Len(disk) \in Nat /\ Len(disk) + Len(<<>>) = Len(disk)
      BY <1>1, SeqFacts
    <3> QED
      BY <1>1, <3>1, RestOfNothing DEF At
  <2> QED
    BY <2>1, <2>2 DEF Aligned
<1>6. CASE UNCHANGED <<cur, done, writeCh, stream>>
  BY <1>1, <1>6 DEF Aligned
<1>7. Stop \/ SeeStop \/ DrainEnd \/ Exit \/ Crash \/ UNCHANGED vars => UNCHANGED <<cur, done, writeCh, stream>>
  BY DEF Stop, SeeStop, DrainEnd, Exit, Crash, Dies, Go, vars, loop, hist
<1>8. ProcessBefore \/ ProcessWrite \/ Rewrite => UNCHANGED <<cur, done, writeCh, stream>>
  BY DEF ProcessBefore, ProcessWrite, Rewrite, TrimRead, TrimWrite, Go, hist
<1> QED
  BY <1>2, <1>3, <1>4, <1>5, <1>6, <1>7, <1>8 DEF Next, LoopStep

-----------------------------------------------------------------------------
(* The order of the device.                                                 *)

\* Every step of writeLoop keeps the content, cuts it, or appends the chunk
\* in hand or a prefix of it.
LEMMA ContentStep ==
    ASSUME TypeOK, Hands, LoopStep
    PROVE  /\ UNCHANGED <<stream, next>>
           /\ \/ Content' = Content /\ Written' = Written
              \/ /\ \E a \in Nat \ {0}, b \in 0..Len(Content) : Content' = SubSeq(Content, a, b)
                 /\ Written' = Written
              \/ /\ \E k \in 0..Len(cur) : Content' = Content \o SubSeq(cur, 1, k)
                 /\ pc = "write" /\ Written = done /\ Written' = done + Len(cur)
<1>1. /\ disk \in Seq(Nat) /\ remaining \in Seq(Nat) /\ cur \in Seq(Nat)
      /\ Len(disk) \in Nat /\ Len(remaining) \in Nat /\ Len(cur) \in Nat /\ TrimSize + 1 \in Nat \ {0}
  BY Kinds, SeqFacts, RecorderAssumption
<1>2. UNCHANGED <<stream, next>>
  BY DEF LoopStep, Take, SeeStop, DrainEnd, ProcessBefore, ProcessWrite, ProcessAfter, Rewrite, TrimRead, TrimWrite, Go, hist
<1>3. CASE Take \/ SeeStop \/ DrainEnd
  <2>1. /\ pc = "select" /\ pc' \in {"select", "before", "gone"} /\ UNCHANGED <<disk, done>>
    BY <1>3 DEF Take, SeeStop, DrainEnd, Go, fs
  <2> QED
    BY <1>2, <2>1 DEF Content, Written, Rewriting
<1>4. CASE ProcessBefore \/ ProcessAfter
  <2>1. Content = disk /\ Written' = Written
    <3>1. CASE ProcessBefore
      <4>1. pc = "before" /\ pc' \in {"write", "rewriteB"} /\ done' = done
        BY <3>1 DEF ProcessBefore, TrimRead, Go
      <4> QED
        BY <4>1 DEF Content, Written, Rewriting
    <3>2. CASE ProcessAfter
      <4>1. pc = "after" /\ pc' \in {"select", "rewriteA"} /\ done' = done + Len(cur)
        BY <3>2 DEF ProcessAfter, TrimRead, Go
      <4> QED
        BY <4>1 DEF Content, Written, Rewriting
    <3> QED
      BY <1>4, <3>1, <3>2
  <2>2. \/ pc' \in {"rewriteB", "rewriteA"} /\ remaining' = SubSeq(disk, TrimSize + 1, Len(disk))
        \/ pc' \in {"write", "select"} /\ UNCHANGED disk
    BY <1>4 DEF ProcessBefore, ProcessAfter, TrimRead, Kept, Go, fs
  <2>3. Content' = SubSeq(disk, TrimSize + 1, Len(disk)) \/ Content' = disk
    BY <2>2 DEF Content, Rewriting
  <2>4. Len(disk) \in 0..Len(disk)
    BY <1>1
  <2> QED
    BY <1>1, <1>2, <2>1, <2>3, <2>4
<1>5. CASE ProcessWrite
  <2>1. /\ pc = "write" /\ pc' = "after" /\ UNCHANGED <<cur, done>>
    BY <1>5 DEF ProcessWrite, Go
  <2>2. Content = disk /\ Content' = disk' /\ Written = done /\ Written' = done + Len(cur)
    BY <2>1 DEF Content, Written, Rewriting
  <2>3. disk' = disk \o cur \/ disk' = disk \/ \E k \in 0..(Len(cur) - 1) : disk' = disk \o SubSeq(cur, 1, k)
    BY <1>5 DEF ProcessWrite, fs
  <2>4. \E k \in 0..Len(cur) : disk' = disk \o SubSeq(cur, 1, k)
    <3>1. CASE disk' = disk \o cur
      <4>1. Len(cur) \in 0..Len(cur) /\ SubSeq(cur, 1, Len(cur)) = cur
        BY <1>1, SubSeqFull
      <4> QED
        BY <3>1, <4>1
    <3>2. CASE disk' = disk
      <4>1. 0 \in 0..Len(cur) /\ SubSeq(cur, 1, 0) = <<>> /\ disk \o <<>> = disk
        BY <1>1, SubSeqEmpty, ConcatEmptySeq
      <4> QED
        BY <3>2, <4>1
    <3>3. CASE \E k \in 0..(Len(cur) - 1) : disk' = disk \o SubSeq(cur, 1, k)
      <4>1. \A k \in 0..(Len(cur) - 1) : k \in 0..Len(cur)
        BY <1>1
      <4> QED
        BY <3>3, <4>1
    <3> QED
      BY <2>3, <3>1, <3>2, <3>3
  <2> QED
    BY <1>2, <2>1, <2>2, <2>4
<1>6. CASE Rewrite
  <2>1. pc \in {"rewriteB", "rewriteA"} /\ pc' \in {"write", "select"} /\ UNCHANGED done
    BY <1>6 DEF Rewrite, TrimWrite, Go
  <2>2. Content = remaining /\ Content' = disk' /\ Written = done /\ Written' = done /\ disk = <<>>
    BY <2>1 DEF Content, Written, Rewriting, Hands
  <2>3. \/ disk' = disk \o remaining
        \/ \E k \in 0..(Len(remaining) - 1) : disk' = disk \o SubSeq(remaining, 1, k)
    BY <1>6 DEF Rewrite, TrimWrite, Rewritten
  <2>4. CASE disk' = disk \o remaining
    BY <1>1, <1>2, <2>2, <2>4, ConcatEmptySeq
  <2>5. CASE \E k \in 0..(Len(remaining) - 1) : disk' = disk \o SubSeq(remaining, 1, k)
    <3>1. PICK k \in 0..(Len(remaining) - 1) : disk' = disk \o SubSeq(remaining, 1, k)
      BY <2>5
    <3>2. k \in 0..Len(remaining) /\ 1 \in Nat \ {0}
      BY <1>1
    <3>3. <<>> \o SubSeq(remaining, 1, k) = SubSeq(remaining, 1, k)
      BY <1>1, <3>2, Cut, ConcatEmptySeq
    <3>4. Content' = SubSeq(Content, 1, k)
      BY <2>2, <3>1, <3>3
    <3> QED
      BY <1>2, <2>2, <3>2, <3>4
  <2> QED
    BY <2>3, <2>4, <2>5
<1> QED
  BY <1>3, <1>4, <1>5, <1>6 DEF LoopStep

\* What the device sends later has higher numbers.
LEMMA NewBytesRise ==
    ASSUME NEW s \in Seq(Nat), NEW last \in Nat, NEW n \in Nat,
           Rising(s), \A p \in 1..Len(s) : s[p] <= last
    PROVE  LET t == s \o Run(last + 1, n) IN
           Rising(t) /\ \A p \in 1..Len(t) : t[p] <= last + n
<1> DEFINE u == Run(last + 1, n)
             w == s \o u
<1>1. u \in Seq(Nat) /\ Len(u) = n /\ \A i \in 1..n : u[i] = last + i
  <2>1. last + 1 \in Nat /\ (last + 1)..(last + 1 + n - 1) \subseteq Nat
    OBVIOUS
  <2>2. u \in Seq(Nat) /\ Len(u) = n /\ \A i \in 1..n : u[i] = last + 1 + i - 1
    BY <2>1, RunFacts, SeqMonotonic
  <2> QED
    BY <2>2
<1> HIDE DEF u
<1>2. /\ Len(s) \in Nat /\ \A p \in 1..Len(s) : s[p] \in Nat
      /\ Len(w) = Len(s) + n
      /\ \A i \in 1..(Len(s) + n) : w[i] = IF i <= Len(s) THEN s[i] ELSE u[i - Len(s)]
  <2>1. Len(s) \in Nat /\ \A p \in 1..Len(s) : s[p] \in Nat
    BY SeqFacts
  <2>2. /\ Len(w) = Len(s) + Len(u)
        /\ \A i \in 1..Len(s) + Len(u) : w[i] = IF i <= Len(s) THEN s[i] ELSE u[i - Len(s)]
    BY <1>1, ConcatProperties
  <2> QED
    BY <1>1, <2>1, <2>2
<1> HIDE DEF w
<1>3. /\ \A i \in 1..(Len(s) + n) : i <= Len(s) => w[i] = s[i] /\ i \in 1..Len(s)
      /\ \A i \in 1..(Len(s) + n) : i > Len(s) => w[i] = last + (i - Len(s))
  <2>1. ASSUME NEW i \in 1..(Len(s) + n), i > Len(s) PROVE w[i] = last + (i - Len(s))
    <3>1. i - Len(s) \in 1..n /\ ~(i <= Len(s))
      BY <1>2, <2>1
    <3> QED
      BY <1>1, <1>2, <3>1
  <2> QED
    BY <1>2, <2>1
<1>4. Rising(w)
  <2>1. \A i, j \in 1..Len(s) + n : i < j => w[i] < w[j]
    <3> SUFFICES ASSUME NEW i \in 1..Len(s) + n, NEW j \in 1..Len(s) + n, i < j
                 PROVE  w[i] < w[j]
      OBVIOUS
    <3>1. CASE j <= Len(s)
      <4>1. i <= Len(s)
        BY <1>2, <3>1
      <4>2. i \in 1..Len(s) /\ j \in 1..Len(s) /\ w[i] = s[i] /\ w[j] = s[j]
        BY <1>3, <3>1, <4>1
      <4> QED
        BY <4>2 DEF Rising
    <3>2. CASE i <= Len(s) /\ j > Len(s)
      <4>1. i \in 1..Len(s) /\ w[i] = s[i] /\ w[j] = last + (j - Len(s))
        BY <1>3, <3>2
      <4>2. s[i] <= last /\ s[i] \in Nat
        BY <1>2, <4>1
      <4> QED
        BY <1>2, <3>2, <4>1, <4>2
    <3>3. CASE i > Len(s)
      <4>1. j > Len(s)
        BY <1>2, <3>3
      <4>2. w[i] = last + (i - Len(s)) /\ w[j] = last + (j - Len(s))
        BY <1>3, <3>3, <4>1
      <4> QED
        BY <1>2, <4>2
    <3>4. j <= Len(s) \/ (i <= Len(s) /\ j > Len(s)) \/ i > Len(s)
      BY <1>2
    <3> QED
      BY <3>1, <3>2, <3>3, <3>4, Zenon
  <2> QED
    BY <1>2, <2>1 DEF Rising
<1>5. ASSUME NEW p \in 1..Len(s) + n PROVE w[p] <= last + n
  <2>1. CASE p <= Len(s)
    <3>1. w[p] = s[p] /\ p \in 1..Len(s)
      BY <1>3, <2>1
    <3>2. s[p] <= last /\ s[p] \in Nat
      BY <1>2, <3>1
    <3> QED
      BY <3>1, <3>2
  <2>2. CASE p > Len(s)
    BY <1>2, <1>3, <2>2
  <2>3. p <= Len(s) \/ p > Len(s)
    BY <1>2
  <2> QED
    BY <2>1, <2>2, <2>3, Zenon
<1> QED
  BY <1>2, <1>4, <1>5 DEF u, w

LEMMA OrderedInit == Init => Ordered
<1> SUFFICES ASSUME Init PROVE Ordered
  OBVIOUS
<1>1. PICK n \in 0..MaxOld : disk = Run(1, n) /\ stream = Run(1, n) /\ next = n /\ done = n
  BY DEF Init
<1>2. Len(Run(1, n)) = n /\ n \in Nat /\ Rising(Run(1, n)) /\ \A p \in 1..n : Run(1, n)[p] <= n
  <2>1. n \in Nat /\ 1 \in Nat
    BY RecorderAssumption
  <2>2. \A p \in 1..n : Run(1, n)[p] = 1 + p - 1
    BY <2>1, RunFacts
  <2>3. Len(Run(1, n)) = n /\ Rising(Run(1, n))
    BY <2>1, RunFacts
  <2>4. \A p \in 1..n : Run(1, n)[p] <= n
    BY <2>1, <2>2
  <2> QED
    BY <2>1, <2>3, <2>4
<1>3. Content = disk /\ Written = done
  BY DEF Init, Content, Written, Rewriting
<1> QED
  BY <1>1, <1>2, <1>3 DEF Ordered, Among

LEMMA OrderedNext == TypeOK /\ Hands /\ Aligned /\ Ordered /\ [Next]_vars => Ordered'
<1> SUFFICES ASSUME TypeOK, Hands, Aligned, Ordered, [Next]_vars PROVE Ordered'
  OBVIOUS
<1>1. /\ Content \in Seq(Nat) /\ stream \in Seq(Nat) /\ cur \in Seq(Nat) /\ disk \in Seq(Nat)
      /\ Len(Content) \in Nat /\ Len(stream) \in Nat /\ Len(cur) \in Nat
      /\ Written \in Nat /\ done \in Nat /\ next \in Nat
  BY Kinds, SeqFacts
<1>2. /\ Rising(stream) /\ Rising(Content) /\ Among(Content, stream, Written)
      /\ At(cur, stream, done) /\ done + Len(cur) <= Len(stream) /\ Written <= Len(stream)
      /\ \A p \in 1..Len(stream) : stream[p] <= next
  BY <1>1 DEF Ordered, Aligned, At, Written
<1>3. ASSUME NEW n \in 1..MaxChunk, Write(n) PROVE Ordered'
  <2>1. Content' = Content /\ Written' = Written /\ next' = next + n /\ n \in Nat
    BY <1>3 DEF Write, Content, Written, Rewriting, fs, loop
  <2>2. CASE HasRoom
    <3>1. stream' = stream \o Run(next + 1, n)
      BY <1>3, <2>2 DEF Write
    <3>2. Rising(stream') /\ \A p \in 1..Len(stream') : stream'[p] <= next'
      BY <1>1, <1>2, <2>1, <3>1, NewBytesRise
    <3>3. Run(next + 1, n) \in Seq(Nat)
      <4>1. next + 1 \in Nat /\ (next + 1)..(next + 1 + n - 1) \subseteq Nat
        BY <1>1
      <4> QED
        BY <2>1, <4>1, RunFacts, SeqMonotonic
    <3>4. Among(Content, stream', Written)
      <4>1. Written \in 0..Len(stream)
        BY <1>1, <1>2
      <4> QED
        BY <1>1, <1>2, <3>1, <3>3, <4>1, Grows
    <3> QED
      BY <1>2, <2>1, <3>2, <3>4 DEF Ordered
  <2>3. CASE ~HasRoom
    <3>1. stream' = stream
      BY <1>3, <2>3 DEF Write
    <3>2. \A p \in 1..Len(stream) : stream[p] <= next + n
      <4>1. \A p \in 1..Len(stream) : stream[p] \in Nat
        BY <1>1, SeqFacts
      <4> QED
        BY <1>1, <1>2, <2>1, <4>1
    <3> QED
      BY <1>2, <2>1, <3>1, <3>2 DEF Ordered
  <2> QED
    BY <2>2, <2>3
<1>4. CASE LoopStep
  <2>1. UNCHANGED <<stream, next>>
    BY <1>4, ContentStep
  <2>2. CASE Content' = Content /\ Written' = Written
    BY <1>2, <2>1, <2>2 DEF Ordered
  <2>3. ASSUME NEW a \in Nat \ {0}, NEW b \in 0..Len(Content), Content' = SubSeq(Content, a, b), Written' = Written
        PROVE  Ordered'
    <3>1. Rising(SubSeq(Content, a, b)) /\ Among(SubSeq(Content, a, b), stream, Written)
      BY <1>1, <1>2, CutRising
    <3> QED
      BY <1>2, <2>1, <2>3, <3>1 DEF Ordered
  <2>4. ASSUME NEW k \in 0..Len(cur), Content' = Content \o SubSeq(cur, 1, k),
               Written = done, Written' = done + Len(cur)
        PROVE  Ordered'
    <3>1. /\ SubSeq(cur, 1, k) \in Seq(Nat) /\ Len(SubSeq(cur, 1, k)) <= Len(cur)
          /\ Len(SubSeq(cur, 1, k)) \in Nat /\ At(SubSeq(cur, 1, k), stream, done)
      <4>1. 1 \in Nat \ {0} /\ 1 <= k + 1 /\ done + 1 - 1 = done
        BY <1>1
      <4>2. At(SubSeq(cur, 1, k), stream, done + 1 - 1)
        BY <1>1, <1>2, <4>1, CutAt
      <4>3. SubSeq(cur, 1, k) \in Seq(Nat) /\ Len(SubSeq(cur, 1, k)) <= Len(cur)
        BY <1>1, <4>1, Cut
      <4> QED
        BY <4>1, <4>2, <4>3, SeqFacts
    <3>2. done + Len(SubSeq(cur, 1, k)) <= done + Len(cur) /\ done + Len(cur) \in Nat
      BY <1>1, <3>1
    <3>3. Rising(Content \o SubSeq(cur, 1, k)) /\ Among(Content \o SubSeq(cur, 1, k), stream, done + Len(cur))
      BY <1>1, <1>2, <2>4, <3>1, <3>2, ConcatRising
    <3> QED
      BY <1>2, <2>1, <2>4, <3>3 DEF Ordered
  <2> QED
    BY <1>4, <2>2, <2>3, <2>4, ContentStep
<1>5. CASE Restart
  <2>1. stream' = disk /\ Content' = disk /\ Written' = Len(disk) /\ next' = next
    BY <1>5 DEF Restart, Content, Written, Rewriting
  <2>2. Rising(disk) /\ \A p \in 1..Len(disk) : disk[p] <= next
    <3>1. CASE Rewriting
      BY <3>1, EmptySeq DEF Hands, Rising
    <3>2. CASE ~Rewriting
      <4>1. Content = disk
        BY <3>2 DEF Content
      <4>2. \A p \in 1..Len(disk) : \E r \in 1..Written : disk[p] = stream[r]
        BY <1>2, <4>1 DEF Among
      <4>3. \A r \in 1..Written : r \in 1..Len(stream)
        BY <1>1, <1>2
      <4> QED
        BY <1>2, <4>1, <4>2, <4>3
    <3> QED
      BY <3>1, <3>2
  <2>3. Among(disk, disk, Len(disk))
    BY DEF Among
  <2> QED
    BY <2>1, <2>2, <2>3 DEF Ordered
<1>6. CASE Stop \/ Exit \/ Crash \/ UNCHANGED vars
  <2>1. Content' = Content /\ Written' = Written /\ UNCHANGED <<stream, next>>
    BY <1>6 DEF Stop, Exit, Crash, Dies, vars, fs, loop, hist, Content, Written, Rewriting
  <2> QED
    BY <1>2, <2>1 DEF Ordered
<1> QED
  BY <1>3, <1>4, <1>5, <1>6 DEF Next

-----------------------------------------------------------------------------
(* Without faults: where the content stands, and how long it is.            *)

LEMMA NoFaults ==
    ASSUME TypeOK, [Next]_vars, faults' = 0
    PROVE  faults = 0 /\ ~Fault
<1>1. faults \in Nat
  BY Kinds
<1>2. ~Fault
  BY <1>1 DEF Fault
<1>3. faults' = faults
  <2>1. \A n \in 1..MaxChunk : Write(n) => faults' = faults
    BY DEF Write, fs
  <2>2. Stop \/ Take \/ SeeStop \/ DrainEnd \/ Exit \/ Crash \/ Restart => faults' = faults
    BY DEF Stop, Take, SeeStop, DrainEnd, Exit, Crash, Restart, Dies, fs
  <2>3. ProcessBefore \/ ProcessWrite \/ ProcessAfter \/ Rewrite => faults' = faults
    BY <1>2 DEF ProcessBefore, ProcessWrite, ProcessAfter, Rewrite, TrimRead, TrimWrite, fs
  <2>4. UNCHANGED vars => faults' = faults
    BY DEF vars, fs
  <2> QED
    BY <2>1, <2>2, <2>3, <2>4 DEF Next, LoopStep
<1> QED
  BY <1>2, <1>3

\* What trim keeps is the end of what is written, and enough of it: all but
\* TrimSize bytes, or nothing if there are no more than that.
LEMMA KeepsTheEnd ==
    ASSUME TypeOK, Full, fileSize = Len(disk), NEW n \in Nat, At(disk, stream, n - Len(disk))
    PROVE  /\ Kept \in Seq(Nat) /\ Len(Kept) = (IF TrimSize < Len(disk) THEN Len(disk) - TrimSize ELSE 0)
           /\ Len(Kept) >= LeftByTrim /\ At(Kept, stream, n - Len(Kept))
<1>1. /\ disk \in Seq(Nat) /\ stream \in Seq(Nat) /\ Len(disk) \in Nat /\ Len(stream) \in Nat
      /\ TrimSize \in Nat /\ MaxSize \in Nat /\ MaxSize <= Len(disk)
  BY Kinds, SeqFacts, RecorderAssumption DEF Full
<1>2. TrimSize + 1 \in Nat \ {0} /\ Len(disk) \in 0..Len(disk)
  BY <1>1
<1>3. Kept \in Seq(Nat) /\ Len(Kept) = IF TrimSize + 1 <= Len(disk) THEN Len(disk) - (TrimSize + 1) + 1 ELSE 0
  BY <1>1, <1>2, Cut DEF Kept
<1>4. Len(Kept) = IF TrimSize < Len(disk) THEN Len(disk) - TrimSize ELSE 0
  BY <1>1, <1>3
<1>5. At(Kept, stream, n - Len(Kept))
  <2>1. CASE TrimSize < Len(disk)
    <3>1. At(Kept, stream, (n - Len(disk)) + (TrimSize + 1) - 1)
      <4>1. TrimSize + 1 <= Len(disk) + 1
        BY <1>1, <2>1
      <4> QED
        BY <1>1, <1>2, <4>1, CutAt DEF Kept
    <3>2. (n - Len(disk)) + (TrimSize + 1) - 1 = n - Len(Kept)
      BY <1>1, <1>4, <2>1
    <3> QED
      BY <3>1, <3>2
  <2>2. CASE ~(TrimSize < Len(disk))
    <3>1. Len(Kept) = 0 /\ n - Len(Kept) = n
      BY <1>4, <2>2
    <3>2. n <= Len(stream)
      BY <1>1 DEF At
    <3> QED
      BY <1>1, <3>1, <3>2 DEF At
  <2> QED
    BY <2>1, <2>2
<1>6. Len(Kept) >= LeftByTrim
  BY <1>1, <1>4 DEF LeftByTrim
<1> QED
  BY <1>3, <1>4, <1>5, <1>6

LEMMA SoundInit == Init => Sound
<1> SUFFICES ASSUME Init PROVE Sound
  OBVIOUS
<1>1. PICK n \in 0..MaxOld : disk = Run(1, n) /\ stream = Run(1, n) /\ fileSize = n /\ done = n
  BY DEF Init
<1>2. n \in Nat /\ Len(Run(1, n)) = n
  <2>1. n \in Nat /\ 1 \in Nat
    BY RecorderAssumption
  <2> QED
    BY <2>1, RunFacts
<1>3. Content = disk /\ Written = done /\ file
  BY DEF Init, Content, Written, Rewriting
<1>4. At(disk, disk, 0) /\ n - n = 0
  BY <1>1, <1>2 DEF At
<1> QED
  BY <1>1, <1>2, <1>3, <1>4 DEF Sound

LEMMA SoundNext == TypeOK /\ Hands /\ Aligned /\ Sound /\ [Next]_vars => Sound'
<1> SUFFICES ASSUME TypeOK, Hands, Aligned, Sound, [Next]_vars, faults' = 0 PROVE Sound'
  BY DEF Sound
<1>1. faults = 0 /\ ~Fault
  BY NoFaults
<1>2. /\ disk \in Seq(Nat) /\ cur \in Seq(Nat) /\ stream \in Seq(Nat) /\ remaining \in Seq(Nat)
      /\ Content \in Seq(Nat) /\ Len(Content) \in Nat /\ Len(disk) \in Nat /\ Len(cur) \in Nat
      /\ done \in Nat /\ Written \in Nat /\ next \in Nat /\ LeftByTrim \in Nat
  BY Kinds, SeqFacts, RecorderAssumption DEF LeftByTrim
<1>3. /\ pc # "gone" /\ ~Rewriting => file /\ fileSize = Len(disk)
      /\ At(Content, stream, Written - Len(Content))
      /\ Len(Content) = Written \/ Len(Content) >= LeftByTrim
  BY <1>1 DEF Sound
<1>4. ASSUME NEW n \in 1..MaxChunk, Write(n) PROVE Sound'
  <2>1. Content' = Content /\ Written' = Written /\ UNCHANGED <<pc, file, fileSize, disk>>
    BY <1>4 DEF Write, Content, Written, Rewriting, fs, loop
  <2>2. At(Content, stream', Written - Len(Content))
    <3>1. CASE HasRoom
      <4>1. stream' = stream \o Run(next + 1, n)
        BY <1>4, <3>1 DEF Write
      <4>2. Run(next + 1, n) \in Seq(Nat)
        <5>1. n \in Nat /\ next + 1 \in Nat /\ (next + 1)..(next + 1 + n - 1) \subseteq Nat
          BY <1>2
        <5> QED
          BY <5>1, RunFacts, SeqMonotonic
      <4> QED
        BY <1>2, <1>3, <4>1, <4>2, Grows
    <3>2. CASE ~HasRoom
      BY <1>3, <1>4, <3>2 DEF Write
    <3> QED
      BY <3>1, <3>2
  <2> QED
    BY <1>3, <2>1, <2>2 DEF Sound, Rewriting
<1>5. CASE Take \/ SeeStop \/ DrainEnd
  <2>1. /\ pc = "select" /\ pc' \in {"select", "before", "gone"} /\ UNCHANGED <<disk, done, stream, fileSize>>
        /\ pc' # "gone" => UNCHANGED file
    BY <1>5 DEF Take, SeeStop, DrainEnd, Go, fs, hist
  <2>2. Content' = Content /\ Written' = Written
    BY <2>1 DEF Content, Written, Rewriting
  <2>3. file /\ fileSize = Len(disk)
    BY <1>3, <2>1 DEF Rewriting
  <2>4. pc' # "gone" /\ ~Rewriting' => file' /\ fileSize' = Len(disk')
    BY <2>1, <2>3
  <2>5. stream' = stream
    BY <2>1
  <2> QED
    BY <1>3, <2>2, <2>4, <2>5 DEF Sound
<1>6. CASE ProcessBefore \/ ProcessAfter
  <2>1. /\ pc \in {"before", "after"} /\ pc' \in {"write", "select", "rewriteB", "rewriteA"}
        /\ UNCHANGED stream
    BY <1>6 DEF ProcessBefore, ProcessAfter, TrimRead, Go, hist
  <2>2. Content = disk /\ Written' = Written
    <3>1. CASE ProcessBefore
      <4>1. pc = "before" /\ pc' \in {"write", "rewriteB"} /\ done' = done
        BY <3>1 DEF ProcessBefore, TrimRead, Go
      <4> QED
        BY <4>1 DEF Content, Written, Rewriting
    <3>2. CASE ProcessAfter
      <4>1. pc = "after" /\ pc' \in {"select", "rewriteA"} /\ done' = done + Len(cur)
        BY <3>2 DEF ProcessAfter, TrimRead, Go
      <4> QED
        BY <4>1 DEF Content, Written, Rewriting
    <3> QED
      BY <1>6, <3>1, <3>2
  <2>3. file /\ fileSize = Len(disk)
    BY <1>3, <2>1 DEF Rewriting
  <2>4. \/ Full /\ pc' \in {"rewriteB", "rewriteA"} /\ remaining' = Kept
        \/ pc' \in {"write", "select"} /\ UNCHANGED <<disk, file, fileSize>>
    BY <1>1, <1>6 DEF ProcessBefore, ProcessAfter, TrimRead, Go, fs
  <2>5. CASE Full /\ pc' \in {"rewriteB", "rewriteA"} /\ remaining' = Kept
    <3>1. Content' = Kept
      BY <2>5 DEF Content, Rewriting
    <3>2. Len(Kept) >= LeftByTrim /\ At(Kept, stream, Written - Len(Kept))
      BY <1>2, <1>3, <2>2, <2>3, <2>5, KeepsTheEnd
    <3> QED
      BY <2>1, <2>2, <2>5, <3>1, <3>2 DEF Sound, Rewriting
  <2>6. CASE pc' \in {"write", "select"} /\ UNCHANGED <<disk, file, fileSize>>
    <3>1. Content' = Content
      BY <2>2, <2>6 DEF Content, Rewriting
    <3> QED
      BY <1>3, <2>1, <2>2, <2>3, <2>6, <3>1 DEF Sound
  <2> QED
    BY <2>4, <2>5, <2>6
<1>7. CASE ProcessWrite
  <2>1. pc = "write" /\ pc' = "after" /\ UNCHANGED <<cur, done, stream>>
    BY <1>7 DEF ProcessWrite, Go, hist
  <2>2. Content = disk /\ Content' = disk' /\ Written = done /\ Written' = done + Len(cur) /\ file /\ fileSize = Len(disk)
    BY <1>3, <2>1 DEF Content, Written, Rewriting
  <2>3. disk' = disk \o cur /\ fileSize' = fileSize + Len(cur) /\ file' = file
    BY <1>1, <1>7, <2>2 DEF ProcessWrite
  <2>4. Len(disk') = Len(disk) + Len(cur)
    BY <1>2, <2>3, ConcatProperties
  <2>5. At(disk', stream, done - Len(disk))
    <3>1. (done - Len(disk)) + Len(disk) = done
      BY <1>2
    <3>2. At(disk, stream, done - Len(disk)) /\ At(cur, stream, (done - Len(disk)) + Len(disk))
      BY <1>3, <2>2, <3>1 DEF Aligned
    <3> QED
      BY <1>2, <2>3, <3>2, ConcatAt
  <2>6. Written' - Len(Content') = done - Len(disk)
    BY <1>2, <2>2, <2>4
  <2>7. Len(Content') = Written' \/ Len(Content') >= LeftByTrim
    <3>1. Len(disk) = done \/ Len(disk) >= LeftByTrim
      BY <1>3, <2>2
    <3>2. CASE Len(disk) = done
      BY <2>2, <2>4, <3>2
    <3>3. CASE Len(disk) >= LeftByTrim
      <4>1. Len(disk') >= LeftByTrim
        BY <1>2, <2>4, <3>3
      <4> QED
        BY <2>2, <4>1
    <3> QED
      BY <3>1, <3>2, <3>3
  <2>8. fileSize' = Len(disk')
    BY <2>2, <2>3, <2>4
  <2> QED
    BY <2>1, <2>2, <2>3, <2>5, <2>6, <2>7, <2>8 DEF Sound
<1>8. CASE Rewrite
  <2>1. pc \in {"rewriteB", "rewriteA"} /\ pc' \in {"write", "select"} /\ UNCHANGED <<done, stream>>
    BY <1>8 DEF Rewrite, TrimWrite, Go, hist
  <2>2. Content = remaining /\ Content' = disk' /\ Written = done /\ Written' = done /\ disk = <<>>
    BY <2>1 DEF Content, Written, Rewriting, Hands
  <2>3. disk' = disk \o remaining /\ fileSize' = Len(remaining) /\ file'
    BY <1>1, <1>8 DEF Rewrite, TrimWrite, Rewritten, SizeAfterTrim
  <2>4. disk' = remaining
    BY <1>2, <2>2, <2>3, ConcatEmptySeq
  <2> QED
    BY <1>3, <2>1, <2>2, <2>3, <2>4 DEF Sound
<1>9. CASE Restart
  <2>1. /\ stream' = disk /\ Content' = disk /\ Written' = Len(disk) /\ disk' = disk /\ file' /\ fileSize' = Len(disk)
    BY <1>9 DEF Restart, Content, Written, Rewriting
  <2>2. At(disk, disk, 0) /\ Len(disk) - Len(disk) = 0
    BY <1>2 DEF At
  <2> QED
    BY <2>1, <2>2 DEF Sound
<1>10. CASE Stop \/ Exit \/ Crash \/ UNCHANGED vars
  <2>1. Content' = Content /\ Written' = Written /\ UNCHANGED <<pc, file, fileSize, disk, stream>>
    BY <1>10 DEF Stop, Exit, Crash, Dies, vars, fs, loop, hist, Content, Written, Rewriting
  <2> QED
    BY <1>3, <2>1 DEF Sound, Rewriting
<1> QED
  BY <1>4, <1>5, <1>6, <1>7, <1>8, <1>9, <1>10 DEF Next, LoopStep

LEMMA SizedInit == Init => Sized
<1> SUFFICES ASSUME Init PROVE Sized
  OBVIOUS
<1>1. PICK n \in 0..MaxOld : disk = Run(1, n)
  BY DEF Init
<1>2. n \in Nat /\ n <= MaxOld /\ Len(Run(1, n)) = n
  <2>1. n \in Nat /\ n <= MaxOld /\ 1 \in Nat
    BY RecorderAssumption
  <2> QED
    BY <2>1, RunFacts
<1>3. Content = disk /\ pc = "select"
  BY DEF Init, Content, Rewriting
<1> QED
  BY <1>1, <1>2, <1>3 DEF Sized, Fits

LEMMA SizedNext == TypeOK /\ Hands /\ Aligned /\ Sound /\ Sized /\ [Next]_vars => Sized'
<1> SUFFICES ASSUME TypeOK, Hands, Aligned, Sound, Sized, [Next]_vars, faults' = 0 PROVE Sized'
  BY DEF Sized
<1>1. faults = 0 /\ ~Fault
  BY NoFaults
<1>2. /\ disk \in Seq(Nat) /\ cur \in Seq(Nat) /\ remaining \in Seq(Nat)
      /\ Content \in Seq(Nat) /\ Len(Content) \in Nat /\ Len(disk) \in Nat /\ Len(cur) \in Nat
      /\ Written \in Nat /\ Len(cur) <= MaxChunk
  BY Kinds, SeqFacts DEF Hands
<1>3. /\ MaxSize \in Nat /\ TrimSize \in Nat /\ MaxChunk \in Nat /\ MaxOld \in Nat
      /\ MaxChunk > 0 /\ MaxChunk <= TrimSize /\ MaxSize > 0
  BY RecorderAssumption
<1>4. Fits(IF pc \in {"rewriteB", "write"} THEN Len(Content) + MaxChunk ELSE Len(Content))
  BY <1>1 DEF Sized
<1>5. \A m, n \in Nat : m <= n /\ Fits(n) => Fits(m)
  BY <1>3 DEF Fits
<1>6. Fits(Len(Content))
  <2>1. Len(Content) + MaxChunk \in Nat /\ Len(Content) <= Len(Content) + MaxChunk
    BY <1>2, <1>3
  <2> QED
    BY <1>2, <1>4, <1>5, <2>1
<1>7. CASE Content' = Content /\ (pc' = pc \/ pc' \notin {"rewriteB", "write"})
  BY <1>4, <1>6, <1>7 DEF Sized
<1>8. \A n \in 1..MaxChunk : Write(n) => Content' = Content /\ pc' = pc
  BY DEF Write, fs, loop, Content, Rewriting
<1>9. Take \/ SeeStop \/ DrainEnd => Content' = Content /\ pc' \notin {"rewriteB", "write"}
  <2> SUFFICES ASSUME Take \/ SeeStop \/ DrainEnd PROVE Content' = Content /\ pc' \notin {"rewriteB", "write"}
    OBVIOUS
  <2>1. pc = "select" /\ pc' \in {"select", "before", "gone"} /\ UNCHANGED disk
    BY DEF Take, SeeStop, DrainEnd, Go, fs
  <2> QED
    BY <2>1 DEF Content, Rewriting
<1>10. CASE ProcessBefore \/ ProcessAfter
  <2>1. pc \in {"before", "after"} /\ Content = disk /\ file /\ fileSize = Len(disk)
    <3>1. pc \in {"before", "after"}
      BY <1>10 DEF ProcessBefore, ProcessAfter, TrimRead, Go
    <3> QED
      BY <1>1, <3>1 DEF Content, Rewriting, Sound
  <2>2. \/ Full /\ pc' \in {"rewriteB", "rewriteA"} /\ remaining' = Kept
        \/ ~Full /\ pc' \in {"write", "select"} /\ UNCHANGED disk
    BY <1>1, <1>10, <2>1 DEF ProcessBefore, ProcessAfter, TrimRead, Go, fs
  <2>3. CASE Full /\ pc' \in {"rewriteB", "rewriteA"} /\ remaining' = Kept
    <3>1. Content' = Kept
      BY <2>3 DEF Content, Rewriting
    <3>2. Len(Kept) = IF TrimSize < Len(disk) THEN Len(disk) - TrimSize ELSE 0
      <4>1. At(disk, stream, Written - Len(disk))
        BY <1>1, <2>1 DEF Sound
      <4> QED
        BY <1>2, <2>1, <2>3, <4>1, KeepsTheEnd
    <3>3. Len(Kept) \in Nat /\ Len(Kept) <= Len(disk) /\ Fits(Len(Kept))
      <4>1. Len(Kept) \in Nat /\ Len(Kept) <= Len(disk)
        BY <1>2, <1>3, <3>2
      <4> QED
        BY <1>2, <1>5, <1>6, <2>1, <4>1
    <3>4. Fits(Len(Kept) + MaxChunk)
      <4>1. CASE TrimSize < Len(disk)
        <5>1. Len(Kept) + MaxChunk \in Nat /\ Len(Kept) + MaxChunk <= Len(disk)
          BY <1>2, <1>3, <3>2, <4>1
        <5> QED
          BY <1>2, <1>5, <1>6, <2>1, <5>1
      <4>2. CASE ~(TrimSize < Len(disk))
        BY <1>3, <3>2, <4>2 DEF Fits
      <4> QED
        BY <4>1, <4>2
    <3> QED
      BY <3>1, <3>3, <3>4 DEF Sized
  <2>4. CASE ~Full /\ pc' \in {"write", "select"} /\ UNCHANGED disk
    <3>1. Content' = disk
      BY <2>4 DEF Content, Rewriting
    <3>2. Len(disk) + MaxChunk < MaxSize + MaxChunk
      BY <1>2, <1>3, <2>1, <2>4 DEF Full
    <3>3. Fits(Len(disk) + MaxChunk) /\ Fits(Len(disk))
      BY <1>6, <2>1, <3>2 DEF Fits
    <3> QED
      BY <3>1, <3>3 DEF Sized
  <2> QED
    BY <2>2, <2>3, <2>4
<1>11. CASE ProcessWrite
  <2>1. pc = "write" /\ pc' = "after"
    BY <1>11 DEF ProcessWrite, Go
  <2>2. Content = disk /\ Content' = disk' /\ file
    BY <1>1, <2>1 DEF Content, Rewriting, Sound
  <2>3. disk' = disk \o cur
    BY <1>1, <1>11, <2>2 DEF ProcessWrite
  <2>4. Len(disk') = Len(disk) + Len(cur)
    BY <1>2, <2>3, ConcatProperties
  <2>5. Fits(Len(disk) + MaxChunk)
    BY <1>4, <2>1, <2>2
  <2>6. Fits(Len(disk) + Len(cur))
    <3>1. /\ Len(disk) + Len(cur) \in Nat /\ Len(disk) + MaxChunk \in Nat
          /\ Len(disk) + Len(cur) <= Len(disk) + MaxChunk
      BY <1>2, <1>3
    <3> QED
      BY <1>5, <2>5, <3>1
  <2> QED
    BY <2>1, <2>2, <2>4, <2>6 DEF Sized
<1>12. CASE Rewrite
  <2>1. (pc = "rewriteB" /\ pc' = "write") \/ (pc = "rewriteA" /\ pc' = "select")
    BY <1>12 DEF Rewrite, TrimWrite, Go
  <2>2. Content = remaining /\ Content' = disk' /\ disk = <<>>
    BY <2>1 DEF Content, Rewriting, Hands
  <2>3. disk' = disk \o remaining
    BY <1>1, <1>12 DEF Rewrite, TrimWrite, Rewritten
  <2>4. Content' = Content
    BY <1>2, <2>2, <2>3, ConcatEmptySeq
  <2>5. CASE pc = "rewriteB" /\ pc' = "write"
    BY <1>4, <2>4, <2>5 DEF Sized
  <2>6. CASE pc = "rewriteA" /\ pc' = "select"
    BY <1>6, <2>4, <2>6 DEF Sized
  <2> QED
    BY <2>1, <2>5, <2>6
<1>13. CASE Restart
  <2>1. Content' = disk /\ pc' = "select"
    BY <1>13 DEF Restart, Content, Rewriting
  <2>2. Fits(Len(disk))
    <3>1. CASE Rewriting
      <4>1. Len(disk) = 0
        BY <3>1, EmptySeq DEF Hands
      <4> QED
        BY <1>3, <4>1 DEF Fits
    <3>2. CASE ~Rewriting
      BY <1>6, <3>2 DEF Content
    <3> QED
      BY <3>1, <3>2
  <2> QED
    BY <2>1, <2>2 DEF Sized
<1>14. Stop \/ Exit \/ Crash \/ UNCHANGED vars => Content' = Content /\ pc' = pc
  BY DEF Stop, Exit, Crash, Dies, vars, fs, loop, Content, Rewriting
<1> QED
  BY <1>7, <1>8, <1>9, <1>10, <1>11, <1>12, <1>13, <1>14 DEF Next, LoopStep

\* With the channel empty and no chunk in hand, all of the stream is dealt with.
LEMMA NothingLeft ==
    ASSUME TypeOK, Aligned, writeCh = <<>>, cur = <<>>
    PROVE  done = Len(stream)
<1>1. Len(<<>>) = 0 /\ done \in Nat
  BY EmptySeq, Kinds
<1>2. PICK off \in [1..(Len(writeCh) + 1) -> Nat] : Pieces(off, writeCh, stream, done + Len(cur))
  BY DEF Aligned, Rest
<1> QED
  BY <1>1, <1>2 DEF Pieces

LEMMA DrainsNext == TypeOK /\ Hands /\ Aligned /\ Drains /\ [Next]_vars => Drains'
<1> SUFFICES ASSUME TypeOK, Hands, Aligned, Drains, [Next]_vars PROVE Drains'
  OBVIOUS
<1>1. Len(stream) \in Nat /\ Len(disk) \in Nat /\ done \in Nat
  BY Kinds, SeqFacts
<1>2. ASSUME NEW n \in 1..MaxChunk, Write(n) PROVE Drains'
  <2>1. UNCHANGED <<atStop, draining, stop, pc, file, done>>
    BY <1>2 DEF Write, fs, loop
  <2>2. Len(stream') \in Nat /\ Len(stream) <= Len(stream')
    <3>1. n \in Nat /\ next + 1 \in Nat
      BY RecorderAssumption, Kinds
    <3>2. Run(next + 1, n) \in Seq((next + 1)..(next + 1 + n - 1)) /\ Len(Run(next + 1, n)) = n
      BY <3>1, RunFacts
    <3>3. Run(next + 1, n) \in Seq(Nat)
      <4>1. (next + 1)..(next + 1 + n - 1) \subseteq Nat
        BY <3>1
      <4> QED
        BY <3>2, <4>1, SeqMonotonic
    <3>4. Len(stream \o Run(next + 1, n)) = Len(stream) + n
      BY <3>2, <3>3, Kinds, ConcatProperties
    <3> QED
      BY <1>1, <1>2, <3>1, <3>4 DEF Write
  <2> QED
    BY <1>1, <2>1, <2>2 DEF Drains
<1>3. CASE Stop
  BY <1>1, <1>3 DEF Stop, fs, loop, Drains
<1>4. CASE Take \/ SeeStop
  BY <1>4 DEF Take, SeeStop, Go, hist, Drains
<1>5. CASE DrainEnd
  <2>1. /\ writeCh = <<>> /\ cur = <<>> /\ draining /\ pc' = "gone" /\ file' = FALSE
        /\ UNCHANGED <<atStop, stream, stop, draining, done>>
    BY <1>5 DEF DrainEnd, Drained, Go, hist, Hands
  <2>2. done = Len(stream)
    BY <2>1, NothingLeft
  <2> QED
    BY <1>1, <2>1, <2>2 DEF Drains
<1>6. CASE ProcessBefore \/ ProcessWrite \/ ProcessAfter \/ Rewrite
  <2>1. pc' # "gone" /\ UNCHANGED <<atStop, stream, stop, draining>>
    BY <1>6 DEF ProcessBefore, ProcessWrite, ProcessAfter, Rewrite, TrimRead, TrimWrite, Go, hist
  <2> QED
    BY <2>1 DEF Drains
<1>7. CASE Restart
  BY <1>1, <1>7 DEF Restart, Drains
<1>8. CASE Exit \/ Crash \/ UNCHANGED vars
  BY <1>8 DEF Exit, Crash, Dies, vars, fs, loop, hist, Drains
<1> QED
  BY <1>2, <1>3, <1>4, <1>5, <1>6, <1>7, <1>8 DEF Next, LoopStep

-----------------------------------------------------------------------------
(* The file as a Journal.                                                   *)

LEMMA ChunksNext == TypeOK /\ Chunks /\ [Next]_vars => Chunks'
<1> SUFFICES ASSUME TypeOK, Chunks, [Next]_vars PROVE Chunks'
  OBVIOUS
<1>1. Len(<<>>) = 0
  BY EmptySeq
<1>2. ASSUME NEW n \in 1..MaxChunk, Write(n) PROVE Chunks'
  <2>1. cur' = cur
    BY <1>2 DEF Write, loop
  <2>2. CASE writeCh' = writeCh
    BY <2>1, <2>2 DEF Chunks
  <2>3. CASE writeCh' = Append(writeCh, Run(next + 1, n))
    <3>1. writeCh \in Seq(Seq(Nat)) /\ Len(writeCh) \in Nat /\ next + 1 \in Nat /\ n \in Nat /\ 1 \in 1..n
      BY Kinds, SeqFacts, RecorderAssumption
    <3>2. /\ Run(next + 1, n) \in Seq(Nat) /\ Len(Run(next + 1, n)) = n
          /\ \A i \in 1..n : Run(next + 1, n)[i] = next + 1 + i - 1
      <4>1. (next + 1)..(next + 1 + n - 1) \subseteq Nat
        BY <3>1
      <4> QED
        BY <3>1, <4>1, RunFacts, SeqMonotonic
    <3>3. Unbroken(Run(next + 1, n))
      BY <3>1, <3>2 DEF Unbroken
    <3>4. /\ Len(writeCh') = Len(writeCh) + 1 /\ writeCh'[Len(writeCh) + 1] = Run(next + 1, n)
          /\ \A k \in 1..Len(writeCh) : writeCh'[k] = writeCh[k]
      BY <2>3, <3>1, <3>2, AppendProperties
    <3>5. ASSUME NEW k \in 1..(Len(writeCh) + 1) PROVE Unbroken(writeCh'[k])
      <4>1. CASE k = Len(writeCh) + 1
        BY <3>3, <3>4, <4>1
      <4>2. CASE k \in 1..Len(writeCh)
        BY <3>4, <4>2 DEF Chunks
      <4> QED
        BY <3>1, <4>1, <4>2
    <3> QED
      BY <2>1, <3>4, <3>5 DEF Chunks
  <2> QED
    BY <1>2, <2>2, <2>3 DEF Write
<1>3. CASE Take
  <2>1. /\ Len(writeCh) \in Nat \ {0} /\ Head(writeCh) = writeCh[1] /\ Len(Tail(writeCh)) = Len(writeCh) - 1
        /\ \A k \in 1..Len(Tail(writeCh)) : Tail(writeCh)[k] = writeCh[k + 1]
    BY <1>3, Kinds, HeadTailProperties, EmptySeq DEF Take
  <2>2. 1 \in 1..Len(writeCh) /\ \A k \in 1..Len(Tail(writeCh)) : k + 1 \in 1..Len(writeCh)
    BY <2>1
  <2>3. Unbroken(Head(writeCh)) /\ \A k \in 1..Len(Tail(writeCh)) : Unbroken(Tail(writeCh)[k])
    BY <2>1, <2>2 DEF Chunks
  <2> QED
    BY <1>3, <2>3 DEF Take, Chunks
<1>4. CASE ProcessAfter \/ Restart
  <2>1. cur' = <<>> /\ (writeCh' = writeCh \/ writeCh' = <<>>)
    BY <1>4 DEF ProcessAfter, Restart
  <2> QED
    BY <1>1, <2>1 DEF Chunks, Unbroken
<1>5. CASE UNCHANGED <<cur, writeCh>>
  BY <1>5 DEF Chunks
<1>6. Stop \/ SeeStop \/ DrainEnd \/ ProcessBefore \/ ProcessWrite \/ Rewrite \/ Exit \/ Crash \/ UNCHANGED vars
         => UNCHANGED <<cur, writeCh>>
  BY DEF Stop, SeeStop, DrainEnd, ProcessBefore, ProcessWrite, Rewrite, Exit, Crash, Dies, vars, loop
<1> QED
  BY <1>2, <1>3, <1>4, <1>5, <1>6 DEF Next, LoopStep

LEMMA CountedNext == TypeOK /\ Hands /\ Counted /\ [Next]_vars => Counted'
<1> SUFFICES ASSUME TypeOK, Hands, Counted, [Next]_vars PROVE Counted'
  OBVIOUS
<1>1. /\ disk \in Seq(Nat) /\ remaining \in Seq(Nat) /\ cur \in Seq(Nat) /\ file \in BOOLEAN
      /\ Len(disk) \in Nat /\ Len(remaining) \in Nat /\ Len(cur) \in Nat /\ fileSize \in Nat
  BY Kinds, SeqFacts DEF TypeOK
<1>2. CASE ProcessBefore \/ ProcessAfter
  <2>1. pc \in {"before", "after"} /\ (file' = FALSE \/ UNCHANGED <<file, fileSize, disk>>)
    BY <1>2 DEF ProcessBefore, ProcessAfter, TrimRead, Go, fs
  <2>2. pc' \in {"write", "select"} \/ file' = FALSE
    BY <1>2 DEF ProcessBefore, ProcessAfter, TrimRead, Go
  <2> QED
    BY <2>1, <2>2 DEF Counted, Rewriting
<1>3. CASE ProcessWrite
  <2>1. pc' = "after" /\ file' = file
    BY <1>3 DEF ProcessWrite, Go, fs
  <2>2. \/ fileSize' = fileSize + Len(cur) /\ disk' = disk \o cur
        \/ fileSize' = fileSize /\ \E k \in 0..(Len(cur) - 1) : disk' = disk \o SubSeq(cur, 1, k)
        \/ fileSize' = fileSize /\ disk' = disk
    BY <1>3 DEF ProcessWrite, SizeAfterError, fs
  <2>3. Len(disk \o cur) = Len(disk) + Len(cur)
    BY <1>1, ConcatProperties
  <2>4. \A k \in 0..(Len(cur) - 1) : Len(disk \o SubSeq(cur, 1, k)) = Len(disk) + k
    BY <1>1, TypePrefix, ConcatProperties
  <2>5. file' => fileSize' <= Len(disk')
    BY <1>1, <2>1, <2>2, <2>3, <2>4 DEF Counted
  <2> QED
    BY <2>1, <2>5 DEF Counted, Rewriting
<1>4. CASE Rewrite
  <2>1. Rewriting /\ ~file /\ disk = <<>> /\ pc' \in {"write", "select"}
    <3>1. pc \in {"rewriteB", "rewriteA"} /\ pc' \in {"write", "select"}
      BY <1>4 DEF Rewrite, TrimWrite, Go
    <3> QED
      BY <3>1 DEF Rewriting, Counted, Hands
  <2>2. file' = file \/ (disk' = disk \o remaining /\ fileSize' = Len(remaining))
    BY <1>4 DEF Rewrite, TrimWrite, Rewritten, SizeAfterTrim
  <2>3. Len(<<>> \o remaining) = Len(remaining)
    BY <1>1, ConcatEmptySeq
  <2> QED
    BY <1>1, <2>1, <2>2, <2>3 DEF Counted, Rewriting
<1>5. CASE Restart
  BY <1>1, <1>5 DEF Restart, Counted, Rewriting
<1>6. CASE DrainEnd
  BY <1>6 DEF DrainEnd, Go, Counted, Rewriting
<1>7. CASE Take \/ SeeStop
  BY <1>7 DEF Take, SeeStop, Go, fs, Counted, Rewriting
<1>8. CASE UNCHANGED <<fs, loop>>
  BY <1>8 DEF fs, loop, Counted, Rewriting
<1>9. (\E n \in 1..MaxChunk : Write(n)) \/ Stop \/ Exit \/ Crash \/ UNCHANGED vars => UNCHANGED <<fs, loop>>
  BY DEF Write, Stop, Exit, Crash, Dies, vars
<1> QED
  BY <1>2, <1>3, <1>4, <1>5, <1>6, <1>7, <1>8, <1>9 DEF Next, LoopStep

\* How far the recorder has got is at most what was read, and what is still
\* to be written begins right behind it.
Placed ==
    /\ Reached \in Nat /\ Reached <= next
    /\ Written < Len(stream) => stream[Written + 1] = Reached + 1
    /\ ~(Written < Len(stream)) => Reached = next

LEMMA Position == TypeOK /\ Ordered => Placed
<1> SUFFICES ASSUME TypeOK, Ordered PROVE Placed
  OBVIOUS
<1>1. Written \in Nat /\ next \in Nat /\ Len(stream) \in Nat
  BY Kinds, SeqFacts
<1>2. ASSUME Written < Len(stream)
      PROVE  stream[Written + 1] \in Nat /\ stream[Written + 1] >= 1 /\ stream[Written + 1] <= next
  <2>1. Written + 1 \in 1..Len(stream)
    BY <1>1, <1>2
  <2>2. stream[Written + 1] \in Bytes /\ stream[Written + 1] <= next
    BY <2>1, SeqFacts DEF TypeOK, Ordered
  <2> QED
    BY <2>2, RecorderAssumption DEF Bytes
<1> QED
  BY <1>1, <1>2 DEF Reached, Placed

LEMMA PositionNext == TypeOK' /\ Ordered' => Placed'
BY Position, PTL

\* A chunk that is offered does not move the recorder back.
LEMMA WriteAdvances ==
    ASSUME TypeOK, Aligned, Ordered, TypeOK', Ordered', NEW n \in 1..MaxChunk, Write(n)
    PROVE  Reached <= Reached'
<1>1. /\ Written \in Nat /\ Len(stream) \in Nat /\ stream \in Seq(Nat) /\ next \in Nat /\ n \in Nat \ {0}
      /\ next' = next + n /\ Written' = Written
      /\ Reached \in Nat /\ Reached <= next
  BY Kinds, SeqFacts, Position, RecorderAssumption DEF Placed, Write, Written, loop
<1>2. /\ Reached' \in Nat
      /\ Written < Len(stream') => stream'[Written + 1] = Reached' + 1
      /\ ~(Written < Len(stream')) => Reached' = next'
  BY <1>1, PositionNext DEF Placed
<1>3. CASE HasRoom
  <2> DEFINE u == Run(next + 1, n)
  <2>1. stream' = stream \o u
    BY <1>3 DEF Write
  <2>2. u \in Seq(Nat) /\ Len(u) = n /\ u[1] = next + 1
    <3>1. (next + 1)..(next + 1 + n - 1) \subseteq Nat /\ 1 \in 1..n /\ n \in Nat /\ next + 1 \in Nat
      BY <1>1
    <3>2. u \in Seq((next + 1)..(next + 1 + n - 1)) /\ Len(u) = n /\ u[1] = next + 1 + 1 - 1
      BY <3>1, RunFacts
    <3>3. u \in Seq(Nat)
      BY <3>1, <3>2, SeqMonotonic
    <3> QED
      BY <1>1, <3>2, <3>3
  <2> HIDE DEF u
  <2>3. /\ Len(stream') = Len(stream) + n
        /\ \A i \in 1..(Len(stream) + n) : stream'[i] = IF i <= Len(stream) THEN stream[i] ELSE u[i - Len(stream)]
    <3>1. /\ Len(stream \o u) = Len(stream) + Len(u)
          /\ \A i \in 1..Len(stream) + Len(u) :
                (stream \o u)[i] = IF i <= Len(stream) THEN stream[i] ELSE u[i - Len(stream)]
      BY <1>1, <2>2, ConcatProperties
    <3> QED
      BY <2>1, <2>2, <3>1
  <2>4. CASE Written < Len(stream)
    <3>1. Written + 1 \in 1..(Len(stream) + n) /\ Written + 1 <= Len(stream) /\ Written < Len(stream')
      BY <1>1, <2>3, <2>4
    <3>2. stream'[Written + 1] = stream[Written + 1]
      BY <2>3, <3>1
    <3> QED
      BY <1>1, <1>2, <2>4, <3>1, <3>2, Position DEF Placed
  <2>5. CASE ~(Written < Len(stream))
    <3>1. Written = Len(stream)
      <4>1. done \in Nat /\ Len(cur) \in Nat /\ done + Len(cur) <= Len(stream)
        BY Kinds DEF Aligned, At
      <4>2. Written <= Len(stream)
        BY <1>1, <4>1 DEF Written
      <4> QED
        BY <1>1, <2>5, <4>2
    <3>2. Written + 1 \in 1..(Len(stream) + n) /\ ~(Written + 1 <= Len(stream)) /\ (Written + 1) - Len(stream) = 1
      BY <1>1, <3>1
    <3>3. stream'[Written + 1] = next + 1 /\ Written < Len(stream')
      BY <1>1, <2>2, <2>3, <3>1, <3>2
    <3>4. Reached' + 1 = next + 1
      BY <1>2, <3>3
    <3>5. next \in Nat /\ Reached <= next /\ Reached' \in Nat
      BY <1>1, <1>2
    <3>6. \A a, b \in Nat : a + 1 = b + 1 => a = b
      OBVIOUS
    <3>7. Reached' = next
      BY <3>4, <3>5, <3>6
    <3> QED
      BY <3>5, <3>7
  <2> QED
    BY <2>4, <2>5
<1>4. CASE ~HasRoom
  <2>1. stream' = stream
    BY <1>4 DEF Write
  <2>2. CASE Written < Len(stream)
    BY <1>1, <1>2, <2>1, <2>2, Position DEF Placed
  <2>3. CASE ~(Written < Len(stream))
    BY <1>1, <1>2, <2>1, <2>3
  <2> QED
    BY <2>2, <2>3
<1> QED
  BY <1>3, <1>4

\* The chunk in hand is what follows, and with it the recorder gets as far as
\* the end of the chunk at least.
LEMMA ChunkFollows ==
    ASSUME TypeOK, Aligned, Ordered, Chunks, TypeOK', Ordered', ProcessWrite
    PROVE  /\ Reached + Len(cur) <= Reached'
           /\ \A k \in 0..Len(cur) : SubSeq(cur, 1, k) = Run(Reached + 1, k)
<1>1. /\ cur \in Seq(Nat) /\ stream \in Seq(Nat) /\ Len(cur) \in Nat /\ Len(stream) \in Nat /\ done \in Nat
      /\ next \in Nat /\ Reached \in Nat /\ Reached <= next
  BY Kinds, SeqFacts, Position DEF Placed
<1>2. Written = done /\ Written' = done + Len(cur) /\ stream' = stream /\ next' = next
  BY DEF ProcessWrite, Go, hist, Written
<1>3. /\ done + Len(cur) <= Len(stream)
      /\ \A i \in 1..Len(cur) : cur[i] = stream[done + i] /\ cur[i] = cur[1] + i - 1
  BY DEF Aligned, At, Chunks, Unbroken
<1>4. /\ Reached' \in Nat
      /\ done + Len(cur) < Len(stream) => stream[done + Len(cur) + 1] = Reached' + 1
      /\ ~(done + Len(cur) < Len(stream)) => Reached' = next
  BY <1>2, PositionNext DEF Placed
<1>5. ASSUME Len(cur) # 0
      PROVE  /\ \A i \in 1..Len(cur) : cur[i] = Reached + i
             /\ Reached + Len(cur) <= Reached'
  <2>1. 1 \in 1..Len(cur) /\ Len(cur) \in 1..Len(cur) /\ done < Len(stream)
    BY <1>1, <1>3, <1>5
  <2>2. cur[1] = Reached + 1
    BY <1>2, <1>3, <2>1, Position DEF Placed
  <2>3. \A i \in 1..Len(cur) : cur[i] = Reached + i
    BY <1>1, <1>3, <2>2
  <2>4. stream[done + Len(cur)] = Reached + Len(cur) /\ done + Len(cur) \in 1..Len(stream)
    <3>1. cur[Len(cur)] = stream[done + Len(cur)] /\ cur[Len(cur)] = Reached + Len(cur)
      BY <1>3, <2>1, <2>3
    <3>2. done + Len(cur) \in 1..Len(stream)
      BY <1>1, <1>3, <2>1
    <3> QED
      BY <3>1, <3>2
  <2>5. CASE done + Len(cur) < Len(stream)
    <3>1. done + Len(cur) + 1 \in 1..Len(stream) /\ done + Len(cur) < done + Len(cur) + 1
      BY <1>1, <2>5
    <3>2. stream[done + Len(cur)] < stream[done + Len(cur) + 1]
      BY <2>4, <3>1 DEF Ordered, Rising
    <3> QED
      BY <1>1, <1>4, <2>3, <2>4, <2>5, <3>2
  <2>6. CASE ~(done + Len(cur) < Len(stream))
    <3>1. stream[done + Len(cur)] <= next
      BY <2>4 DEF Ordered
    <3> QED
      BY <1>4, <2>3, <2>4, <2>6, <3>1
  <2> QED
    BY <2>3, <2>5, <2>6
<1>6. ASSUME Len(cur) = 0 PROVE Reached' = Reached
  <2>1. Written' = Written
    BY <1>1, <1>2, <1>6
  <2> QED
    BY <1>2, <2>1 DEF Reached
<1>7. ASSUME NEW k \in 0..Len(cur) PROVE SubSeq(cur, 1, k) = Run(Reached + 1, k)
  <2>1. /\ SubSeq(cur, 1, k) \in Seq(Nat) /\ Len(SubSeq(cur, 1, k)) = k
        /\ \A i \in 1..k : SubSeq(cur, 1, k)[i] = cur[i]
    BY <1>1, Prefix
  <2>2. /\ Run(Reached + 1, k) \in Seq((Reached + 1)..(Reached + 1 + k - 1)) /\ Len(Run(Reached + 1, k)) = k
        /\ \A i \in 1..k : Run(Reached + 1, k)[i] = Reached + 1 + i - 1
    <3>1. Reached + 1 \in Nat /\ k \in Nat
      BY <1>1
    <3> QED
      BY <3>1, RunFacts
  <2>3. \A i \in 1..k : SubSeq(cur, 1, k)[i] = Run(Reached + 1, k)[i]
    <3> SUFFICES ASSUME NEW i \in 1..k PROVE cur[i] = Reached + 1 + i - 1
      BY <2>1, <2>2
    <3>1. Len(cur) # 0 /\ i \in 1..Len(cur)
      BY <1>1
    <3>2. cur[i] = Reached + i
      BY <1>5, <3>1
    <3> QED
      BY <1>1, <3>2
  <2>4. Run(Reached + 1, k) \in Seq(Nat)
    <3>1. (Reached + 1)..(Reached + 1 + k - 1) \subseteq Nat
      BY <1>1
    <3> QED
      BY <2>2, <3>1, SeqMonotonic
  <2> QED
    BY <2>1, <2>2, <2>3, <2>4, SeqEqual
<1> QED
  BY <1>1, <1>5, <1>6, <1>7

\* A step that only moves the recorder forward.
LEMMA Misses ==
    ASSUME TypeOK, TypeOK', Ordered, Ordered', Held' = Held, Phase' = Phase, Reached <= Reached'
    PROVE  File!Next
<1>1. Reached' \in 0..(MaxOld + MaxBytes)
  <2>1. Reached' \in Nat /\ Reached' <= next' /\ next' \in 0..(MaxOld + MaxBytes)
    BY PositionNext DEF Placed, TypeOK
  <2> QED
    BY <2>1, RecorderAssumption
<1>2. File!Miss(Reached')
  BY DEF File!Miss
<1> QED
  BY <1>1, <1>2 DEF File!Next

\* trim up to os.Create is a cut of a full file or, if it fails, the end of
\* recording.
LEMMA TrimReadRefines ==
    ASSUME TypeOK, Hands, Counted, ProcessBefore \/ ProcessAfter
    PROVE  File!Next \/ UNCHANGED File!vars
<1>1. /\ up = TRUE /\ up' = TRUE /\ ~Rewriting /\ Held = disk /\ UNCHANGED <<stream, next>>
      /\ pc \in {"before", "after"} /\ Written' = Written
  <2>1. CASE ProcessBefore
    <3>1. up /\ up' = up /\ pc = "before" /\ pc' \in {"write", "rewriteB"} /\ UNCHANGED <<stream, next, done>>
      BY <2>1 DEF ProcessBefore, TrimRead, Go, hist
    <3> QED
      BY <3>1 DEF Rewriting, Held, Written, TypeOK
  <2>2. CASE ProcessAfter
    <3>1. /\ up /\ up' = up /\ pc = "after" /\ pc' \in {"select", "rewriteA"} /\ UNCHANGED <<stream, next>>
          /\ done' = done + Len(cur)
      BY <2>2 DEF ProcessAfter, TrimRead, Go, hist
    <3> QED
      BY <3>1 DEF Rewriting, Held, Written, TypeOK
  <2> QED
    BY <2>1, <2>2, Zenon
<1>2. Reached' = Reached
  BY <1>1 DEF Reached
<1>3. \/ file /\ Full /\ pc' \in {"rewriteB", "rewriteA"} /\ remaining' = Kept
      \/ file /\ pc' \in {"write", "select"} /\ file' = FALSE /\ UNCHANGED disk
      \/ pc' \in {"write", "select"} /\ UNCHANGED <<file, disk>>
  BY DEF ProcessBefore, ProcessAfter, TrimRead, Go, fs
<1>4. CASE file /\ Full /\ pc' \in {"rewriteB", "rewriteA"} /\ remaining' = Kept
  <2>1. Phase = "open" /\ Phase' = "cutting" /\ Held' = Kept
    BY <1>1, <1>4 DEF Phase, Held, Rewriting
  <2>2. Len(Held) >= MaxSize
    <3>1. Len(disk) \in Nat /\ fileSize \in Nat /\ MaxSize \in Nat
      BY Kinds, SeqFacts, RecorderAssumption
    <3> QED
      BY <1>1, <1>4, <3>1 DEF Counted, Full
  <2> QED
    BY <1>1, <1>2, <2>1, <2>2 DEF File!Next, File!Cut, Kept
<1>5. CASE file /\ pc' \in {"write", "select"} /\ file' = FALSE /\ UNCHANGED disk
  <2>1. Phase = "open" /\ Phase' = "closed" /\ Held' = Held
    BY <1>1, <1>5 DEF Phase, Held, Rewriting
  <2> QED
    BY <1>2, <2>1 DEF File!Next, File!End
<1>6. CASE pc' \in {"write", "select"} /\ UNCHANGED <<file, disk>>
  <2>1. Phase' = Phase /\ Held' = Held
    BY <1>1, <1>6 DEF Phase, Held, Rewriting, TypeOK
  <2> QED
    BY <1>2, <2>1 DEF File!vars
<1> QED
  BY <1>3, <1>4, <1>5, <1>6, Zenon

\* The rest of trim ends the cut, or fails and leaves a part.
LEMMA RewriteRefines ==
    ASSUME TypeOK, Hands, Counted, Rewrite
    PROVE  File!Next
<1>1. /\ up = TRUE /\ up' = TRUE /\ pc \in {"rewriteB", "rewriteA"} /\ pc' \in {"write", "select"}
      /\ UNCHANGED <<stream, next, done>>
  BY DEF Rewrite, TrimWrite, Go, hist, TypeOK
<1>2. /\ Rewriting /\ ~Rewriting' /\ disk = <<>> /\ ~file
      /\ Held = remaining /\ Held' = disk' /\ Phase = "cutting"
  BY <1>1 DEF Rewriting, Held, Phase, Hands, Counted
<1>3. Reached' = Reached
  <2>1. Written' = Written
    BY <1>1 DEF Written
  <2> QED
    BY <1>1, <2>1 DEF Reached
<1>4. /\ remaining \in Seq(Nat) /\ Len(remaining) \in Nat /\ <<>> \o remaining = remaining
      /\ SubSeq(remaining, 1, Len(remaining)) = remaining /\ Len(remaining) \in 0..Len(remaining)
  BY Kinds, SeqFacts, ConcatEmptySeq, SubSeqFull
<1>5. \/ disk' = remaining /\ file' = TRUE
      \/ disk' = remaining /\ file' = file
      \/ file' = file /\ \E k \in 0..(Len(remaining) - 1) : disk' = <<>> \o SubSeq(remaining, 1, k)
  BY <1>2, <1>4 DEF Rewrite, TrimWrite, Rewritten
<1>6. CASE disk' = remaining /\ file' = TRUE
  <2>1. Phase' = "open" /\ Held' = Held
    BY <1>1, <1>2, <1>6 DEF Phase
  <2> QED
    BY <1>2, <1>3, <2>1 DEF File!Next, File!CutDone
<1>7. ASSUME NEW k \in 0..Len(Held), disk' = SubSeq(Held, 1, k), file' = file PROVE File!Next
  <2>1. Phase' = "closed"
    BY <1>1, <1>2, <1>7 DEF Phase
  <2>2. File!CutFails(k)
    BY <1>2, <1>3, <1>7, <2>1 DEF File!CutFails
  <2> QED
    BY <2>2 DEF File!Next
<1>8. CASE disk' = remaining /\ file' = file
  <2>1. Len(remaining) \in 0..Len(Held) /\ disk' = SubSeq(Held, 1, Len(remaining)) /\ file' = file
    BY <1>2, <1>4, <1>8
  <2> QED
    BY <1>7, <2>1, Zenon
<1>9. CASE file' = file /\ \E k \in 0..(Len(remaining) - 1) : disk' = <<>> \o SubSeq(remaining, 1, k)
  <2>1. PICK k \in 0..(Len(remaining) - 1) : disk' = <<>> \o SubSeq(remaining, 1, k)
    BY <1>9
  <2>2. k \in 0..Len(remaining)
    BY <1>4
  <2>3. <<>> \o SubSeq(remaining, 1, k) = SubSeq(remaining, 1, k)
    BY <1>4, <2>2, Prefix, ConcatEmptySeq
  <2> QED
    BY <1>2, <1>7, <1>9, <2>1, <2>2, <2>3
<1> QED
  BY <1>5, <1>6, <1>8, <1>9

\* r.file.Write appends what follows, all of it or a part; without a file the
\* chunk is missed.
LEMMA ProcessWriteRefines ==
    ASSUME TypeOK, Hands, Aligned, Ordered, Chunks, TypeOK', Ordered', ProcessWrite
    PROVE  File!Next
<1>1. /\ up = TRUE /\ up' = TRUE /\ pc = "write" /\ pc' = "after" /\ file' = file
  BY DEF ProcessWrite, Go, TypeOK, fs
<1>2. /\ Held = disk /\ Held' = disk' /\ Phase' = Phase /\ (file => Phase = "open")
  BY <1>1 DEF Held, Phase, Rewriting, TypeOK
<1>3. /\ disk \in Seq(Nat) /\ cur \in Seq(Nat) /\ Len(cur) \in Nat /\ Reached \in Nat /\ Reached' \in Nat
      /\ Reached + Len(cur) <= Reached'
      /\ \A k \in 0..Len(cur) : SubSeq(cur, 1, k) = Run(Reached + 1, k)
      /\ SubSeq(cur, 1, Len(cur)) = cur
  BY Kinds, SeqFacts, Position, PositionNext, ChunkFollows, SubSeqFull DEF Placed
<1>4. Reached' \in 0..(MaxOld + MaxBytes)
  <2>1. Reached' \in Nat /\ Reached' <= next' /\ next' \in 0..(MaxOld + MaxBytes)
    BY PositionNext DEF Placed, TypeOK
  <2> QED
    BY <2>1, RecorderAssumption
<1>5. ASSUME NEW k \in 0..Len(cur), file, disk' = disk \o SubSeq(cur, 1, k) PROVE File!Next
  <2>1. Held' = Held \o File!Run(Reached + 1, k)
    BY <1>2, <1>3, <1>5 DEF Run, File!Run
  <2>2. Reached + k <= Reached' /\ k \in 0..Reached'
    BY <1>3
  <2>3. File!Record(k, Reached')
    BY <1>2, <1>5, <2>1, <2>2 DEF File!Record
  <2> QED
    BY <1>4, <2>2, <2>3 DEF File!Next
<1>6. \/ file /\ disk' = disk \o cur
      \/ file /\ \E k \in 0..(Len(cur) - 1) : disk' = disk \o SubSeq(cur, 1, k)
      \/ disk' = disk
  BY DEF ProcessWrite, fs
<1>7. CASE file /\ disk' = disk \o cur
  <2>1. Len(cur) \in 0..Len(cur)
    BY <1>3
  <2> QED
    BY <1>3, <1>5, <1>7, <2>1
<1>8. CASE file /\ \E k \in 0..(Len(cur) - 1) : disk' = disk \o SubSeq(cur, 1, k)
  <2>1. \A k \in 0..(Len(cur) - 1) : k \in 0..Len(cur)
    BY <1>3
  <2> QED
    BY <1>5, <1>8, <2>1
<1>9. CASE disk' = disk
  <2>1. Reached <= Reached'
    BY <1>3
  <2> QED
    BY <1>2, <1>9, <2>1, Misses
<1> QED
  BY <1>6, <1>7, <1>8, <1>9

\* The end of the process: a rewrite that is under way is lost, what is in a
\* file stays.
LEMMA EndRefines ==
    ASSUME TypeOK, Hands, DrainEnd \/ Exit \/ Crash
    PROVE  File!Next
<1>1. up = TRUE /\ UNCHANGED <<stream, next, done, cur, disk, remaining>> /\ Written' = Written
  <2>1. up = TRUE /\ UNCHANGED <<stream, next, done, cur, disk, remaining>>
    BY DEF DrainEnd, Exit, Crash, Dies, Go, hist, fs, loop, TypeOK
  <2>2. pc' = pc \/ (pc = "select" /\ pc' = "gone")
    BY DEF DrainEnd, Exit, Crash, Dies, Go, loop
  <2> QED
    BY <2>1, <2>2 DEF Written
<1>2. Reached' = Reached
  BY <1>1 DEF Reached
<1>3. CASE DrainEnd
  <2>1. up' = TRUE /\ pc = "select" /\ pc' = "gone" /\ file' = FALSE
    BY <1>1, <1>3 DEF DrainEnd, Go
  <2>2. Phase \in {"open", "closed"} /\ Phase' = "closed" /\ Held' = Held
    BY <1>1, <2>1 DEF Phase, Held, Rewriting, TypeOK
  <2> QED
    BY <1>2, <2>2 DEF File!Next, File!End
<1>4. CASE (Exit \/ Crash) /\ Rewriting
  <2>1. up' = FALSE
    BY <1>4 DEF Exit, Crash, Dies
  <2>2. Phase = "cutting" /\ Phase' = "down" /\ Held = remaining /\ Held' = <<>>
    BY <1>1, <1>4, <2>1 DEF Phase, Held, Hands
  <2>3. SubSeq(Held, 1, 0) = <<>> /\ 0 \in 0..Len(Held)
    BY <2>2, Kinds, SeqFacts, SubSeqEmpty
  <2>4. File!CutFails(0)
    BY <1>2, <2>2, <2>3 DEF File!CutFails
  <2> QED
    BY <2>3, <2>4 DEF File!Next
<1>5. CASE (Exit \/ Crash) /\ ~Rewriting
  <2>1. up' = FALSE
    BY <1>5 DEF Exit, Crash, Dies
  <2>2. Phase \in {"open", "closed"} /\ Phase' = "down" /\ Held' = Held
    BY <1>1, <1>5, <2>1 DEF Phase, Held, TypeOK
  <2> QED
    BY <1>2, <2>2 DEF File!Next, File!End
<1> QED
  BY <1>3, <1>4, <1>5

LEMMA RestartRefines ==
    ASSUME TypeOK, Ordered, TypeOK', Ordered', Restart
    PROVE  File!Next
<1>1. Held' = Held /\ Phase = "down" /\ Phase' = "open"
  BY DEF Restart, Held, Phase, Rewriting, TypeOK
<1>2. Reached \in Nat /\ Reached <= next /\ next \in Nat
  BY Position, Kinds DEF Placed
<1>3. Reached' = next
  <2>1. Written' = Len(disk) /\ stream' = disk /\ next' = next /\ Len(disk) \in Nat
    BY Kinds, SeqFacts DEF Restart, Written
  <2>2. ~(Written' < Len(stream'))
    BY <2>1
  <2> QED
    BY <2>1, <2>2 DEF Reached
<1>4. File!Restart(next)
  BY <1>1, <1>2, <1>3 DEF File!Restart
<1>5. next \in 0..(MaxOld + MaxBytes)
  BY DEF TypeOK
<1> QED
  BY <1>4, <1>5 DEF File!Next

LEMMA JournalNext == IInv /\ IInv' /\ [Next]_vars => [File!Next]_(File!vars)
<1> SUFFICES ASSUME IInv, IInv', [Next]_vars PROVE File!Next \/ UNCHANGED File!vars
  OBVIOUS
<1>1. /\ TypeOK /\ Hands /\ Aligned /\ Ordered /\ Chunks /\ Counted
      /\ TypeOK' /\ Ordered'
  BY DEF IInv
<1>2. ASSUME NEW n \in 1..MaxChunk, Write(n) PROVE File!Next
  <2>1. Held' = Held /\ Phase' = Phase
    BY <1>2 DEF Write, fs, loop, Held, Phase, Rewriting
  <2>2. Reached <= Reached'
    BY <1>1, <1>2, WriteAdvances
  <2> QED
    BY <1>1, <2>1, <2>2, Misses
<1>3. CASE Stop \/ SeeStop \/ Take \/ UNCHANGED vars
  <2>1. /\ UNCHANGED <<stream, next, done, disk, remaining, up, file>>
        /\ (pc' = pc /\ cur' = cur) \/ (pc = "select" /\ pc' = "before")
    BY <1>3 DEF Stop, SeeStop, Take, Go, vars, fs, loop, hist
  <2>2. Held' = Held /\ Phase' = Phase /\ Written' = Written
    BY <2>1 DEF Held, Phase, Rewriting, Written
  <2>3. Reached' = Reached
    BY <2>1, <2>2 DEF Reached
  <2> QED
    BY <2>2, <2>3 DEF File!vars
<1>4. CASE ProcessBefore \/ ProcessAfter
  BY <1>1, <1>4, TrimReadRefines
<1>5. CASE ProcessWrite
  BY <1>1, <1>5, ProcessWriteRefines
<1>6. CASE Rewrite
  BY <1>1, <1>6, RewriteRefines
<1>7. CASE DrainEnd \/ Exit \/ Crash
  BY <1>1, <1>7, EndRefines
<1>8. CASE Restart
  BY <1>1, <1>8, RestartRefines
<1> QED
  BY <1>2, <1>3, <1>4, <1>5, <1>6, <1>7, <1>8 DEF Next, LoopStep

LEMMA JournalInit == Init => File!Init
<1> SUFFICES ASSUME Init PROVE File!Init
  OBVIOUS
<1>1. PICK n \in 0..MaxOld : disk = Run(1, n) /\ stream = Run(1, n) /\ next = n /\ done = n
  BY DEF Init
<1>2. up = TRUE /\ pc = "select" /\ file = TRUE
  BY DEF Init
<1>3. Held = File!Run(1, n) /\ Phase = "open"
  BY <1>1, <1>2 DEF Held, Phase, Rewriting, Run, File!Run
<1>4. Reached = n
  <2>1. Len(stream) = n /\ n \in Nat
    BY <1>1, RunFacts, RecorderAssumption
  <2>2. Written = n
    BY <1>1, <1>2 DEF Written
  <2> QED
    BY <1>1, <2>1, <2>2 DEF Reached
<1> QED
  BY <1>3, <1>4 DEF File!Init

-----------------------------------------------------------------------------
(* What follows.                                                            *)

LEMMA InvariantHolds == Spec => []IInv
<1>1. Init => IInv
  <2>1. Init => Drains
    <3> SUFFICES ASSUME Init PROVE Drains
      OBVIOUS
    <3>1. Len(stream) \in Nat
      BY TypeInit, Kinds, SeqFacts
    <3> QED
      BY <3>1 DEF Init, Drains
  <2>2. Init => Chunks
    BY EmptySeq DEF Init, Chunks, Unbroken
  <2>3. Init => Counted
    <3> SUFFICES ASSUME Init PROVE Counted
      OBVIOUS
    <3>1. PICK n \in 0..MaxOld : disk = Run(1, n) /\ fileSize = n
      BY DEF Init
    <3>2. Len(disk) = n /\ n \in Nat
      BY <3>1, RunFacts, RecorderAssumption
    <3> QED
      BY <3>1, <3>2 DEF Init, Counted, Rewriting
  <2> QED
    BY <2>1, <2>2, <2>3, TypeInit, HandsInit, AlignedInit, OrderedInit, SoundInit, SizedInit DEF IInv
<1>2. IInv /\ [Next]_vars => IInv'
  BY TypeNext, HandsNext, AlignedNext, OrderedNext, SoundNext, SizedNext, DrainsNext, ChunksNext, CountedNext DEF IInv
<1> QED
  BY <1>1, <1>2, PTL DEF Spec

\* TypeOK: every variable keeps its type, no byte is numbered beyond what the
\* device can have sent, and writeCh never holds more than its capacity.
THEOREM TypeCorrect == Spec => []TypeOK
<1>1. IInv => TypeOK
  BY DEF IInv
<1> QED
  BY <1>1, InvariantHolds, PTL

\* The file holds bytes in the order the device sent them, none of them twice:
\* through trims, operations that fail half-way, crashes in the middle of a
\* trim and restarts, for any sizes and any number of faults and crashes.
THEOREM FileIsAChronicle == Spec => []Chronicle
<1>1. IInv => Chronicle
  <2> SUFFICES ASSUME IInv PROVE Rising(disk)
    BY DEF Chronicle, Rising
  <2>1. CASE Rewriting
    BY <2>1, EmptySeq DEF IInv, Hands, Rising
  <2>2. CASE ~Rewriting
    BY <2>2 DEF IInv, Ordered, Content
  <2> QED
    BY <2>1, <2>2
<1> QED
  BY <1>1, InvariantHolds, PTL

\* Without faults, writeLoop between two chunks and at its end has the file hold the unbroken
\* end of what it has dealt with, all of it or at least what one trim leaves of a
\* file of MaxSize, however the two sizes are configured: the checks of fileSize
\* before and after a write never cut too deep.
THEOREM EndIsRetained == Spec => []Retained
<1>1. IInv => Retained
  <2> SUFFICES ASSUME IInv, faults = 0, pc \in {"select", "gone"}
               PROVE  /\ IsSuffix(disk, SubSeq(stream, 1, done))
                      /\ Len(disk) = done \/ Len(disk) >= LeftByTrim
    BY DEF Retained
  <2>1. Content = disk /\ Written = done
    BY DEF Content, Written, Rewriting
  <2>2. At(disk, stream, done - Len(disk)) /\ (Len(disk) = done \/ Len(disk) >= LeftByTrim)
    BY <2>1 DEF IInv, Sound
  <2>3. disk \in Seq(Nat) /\ stream \in Seq(Nat) /\ done \in Nat /\ Len(disk) \in Nat /\ Len(stream) \in Nat
    BY Kinds, SeqFacts DEF IInv
  <2>4. done \in 0..Len(stream)
    BY <2>2, <2>3 DEF At
  <2>5. /\ SubSeq(stream, 1, done) \in Seq(Nat) /\ Len(SubSeq(stream, 1, done)) = done
        /\ \A i \in 1..done : SubSeq(stream, 1, done)[i] = stream[i]
    BY <2>3, <2>4, Prefix
  <2>6. At(disk, SubSeq(stream, 1, done), done - Len(disk))
    <3>1. done - Len(disk) \in Nat /\ (done - Len(disk)) + Len(disk) <= done
      BY <2>2, <2>3 DEF At
    <3>2. \A i \in 1..Len(disk) : disk[i] = SubSeq(stream, 1, done)[(done - Len(disk)) + i]
      <4>1. \A i \in 1..Len(disk) : disk[i] = stream[(done - Len(disk)) + i]
        BY <2>2 DEF At
      <4>2. \A i \in 1..Len(disk) : (done - Len(disk)) + i \in 1..done
        BY <2>3, <3>1
      <4> QED
        BY <2>5, <4>1, <4>2
    <3> QED
      BY <2>5, <3>1, <3>2 DEF At
  <2>7. IsSuffix(disk, SubSeq(stream, 1, done))
    BY <2>3, <2>5, <2>6, AtTheEnd
  <2> QED
    BY <2>2, <2>7
<1> QED
  BY <1>1, InvariantHolds, PTL

\* writeLoop ends only after Stop, with the file closed and everything dealt
\* with that was accepted before Stop, for any capacity of the channel and
\* whatever fails: when a drain finds the channel empty, the stream is done.
THEOREM StopIsFlushed == Spec => []FlushedWhenGone
<1>1. IInv => FlushedWhenGone
  BY DEF IInv, Drains, FlushedWhenGone
<1> QED
  BY <1>1, InvariantHolds, PTL

\* The file is a Journal: whatever fails and whenever the process ends, it
\* grows by unbroken pieces in the order of the device, and only a cut of a
\* full file, or the rewrite after it, loses what was in it.
THEOREM RecorderKeepsAJournal == Spec => ImplementsJournal
<1> QED
  BY InvariantHolds, JournalInit, JournalNext, PTL DEF Spec, ImplementsJournal, File!Spec

\* Without faults the file outgrows its limit by less than one chunk, or was
\* left too big by an earlier process: there is always room for the chunk that
\* is about to be written.
THEOREM SizeIsBounded == Spec => []SizeBound
<1>1. IInv => SizeBound
  <2> SUFFICES ASSUME IInv, faults = 0 PROVE Fits(Len(disk))
    BY DEF SizeBound, Fits
  <2>1. Len(Content) \in Nat /\ MaxChunk \in Nat /\ MaxSize \in Nat /\ MaxOld \in Nat /\ MaxSize + MaxChunk > 0
    BY Kinds, RecorderAssumption DEF IInv
  <2>2. Fits(Len(Content))
    BY <2>1 DEF IInv, Sized, Fits
  <2>3. CASE Rewriting
    BY <2>1, <2>3, EmptySeq DEF IInv, Hands, Fits
  <2>4. CASE ~Rewriting
    BY <2>2, <2>4 DEF Content
  <2> QED
    BY <2>3, <2>4
<1> QED
  BY <1>1, InvariantHolds, PTL
=============================================================================
