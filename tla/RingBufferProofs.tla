-------------------------- MODULE RingBufferProofs --------------------------
(***************************************************************************)
(* The ring buffer, for all limits and sizes: its type, its bookkeeping and *)
(* that it implements BoundedHistory.                                      *)
(***************************************************************************)
EXTENDS RingBuffer, SequenceTheorems, TLAPS

\* The cumulative sizes never fall and start at zero.
EndsGrow == ends[1] = 0 /\ \A i, j \in 1..Len(ends) : i <= j => ends[i] <= ends[j]

\* The limits hold whenever nobody is in the loop.
WithinLimits == ~mu => ~OverLimit

IInv == TypeOK /\ EndsGrow /\ BytesExact /\ DroppedForCause /\ WithinLimits

USE RingAssumption

\* The empty buffer of NewRingBuffer satisfies the inductive invariant.
LEMMA InitIInv == Init => IInv
<1> SUFFICES ASSUME Init PROVE IInv
  OBVIOUS
<1>1. TypeOK
  <2>1. ends \in Seq(Nat) /\ Len(ends) \in 1..(MaxAppends + 1)
    BY DEF Init
  <2>2. entries \in Seq(Entry) /\ view \in Seq(Entry)
    BY DEF Init
  <2>3. totalBytes \in Nat
    BY DEF Init
  <2>4. mu \in BOOLEAN
    BY DEF Init
  <2> QED
    BY <2>1, <2>2, <2>3, <2>4 DEF TypeOK
<1>2. EndsGrow /\ WithinLimits
  BY DEF Init, EndsGrow, WithinLimits, OverLimit
<1>3. BytesExact /\ DroppedForCause
  BY DEF Init, BytesExact, DroppedForCause, Dropped
<1> QED
  BY <1>1, <1>2, <1>3 DEF IInv

\* Append before its loop: the new entry is counted, and may exceed the limits.
LEMMA PushIInv == ASSUME IInv, NEW b \in Sizes, Push(b) PROVE IInv'
<1> DEFINE n == Len(ends)
<1> DEFINE d == Dropped
<1>0. ends \in Seq(Nat) /\ n \in 1..(MaxAppends + 1) /\ entries \in Seq(Entry) /\ b \in Nat
      /\ totalBytes \in Nat
  BY DEF IInv, TypeOK
<1>1. /\ n <= MaxAppends /\ mu' = TRUE /\ view' = view
      /\ entries' = Append(entries, [seq |-> n, bytes |-> b])
      /\ totalBytes' = totalBytes + b /\ ends' = Append(ends, ends[n] + b)
  BY DEF Push, NextSeq
<1>2. ends[n] \in Nat /\ [seq |-> n, bytes |-> b] \in Entry
  BY <1>0, <1>1 DEF Entry
<1>3. /\ ends' \in Seq(Nat) /\ Len(ends') = n + 1
      /\ \A i \in 1..n : ends'[i] = ends[i] 
      /\ ends'[n + 1] = ends[n] + b
  BY <1>0, <1>1, <1>2
<1>4. /\ entries' \in Seq(Entry) /\ Len(entries') = Len(entries) + 1
      /\ \A i \in 1..Len(entries) : entries'[i] = entries[i]
      /\ entries'[Len(entries) + 1] = [seq |-> n, bytes |-> b]
  BY <1>0, <1>1, <1>2
<1>5. TypeOK'
  BY <1>0, <1>1, <1>3, <1>4 DEF IInv, TypeOK
<1>6. EndsGrow'
  <2>1. EndsGrow
    BY DEF IInv
  <2>2. ends'[1] = 0
    BY <2>1, <1>0, <1>3 DEF EndsGrow
  <2>3. ASSUME NEW i \in 1..Len(ends'), NEW j \in 1..Len(ends'), i <= j
        PROVE  ends'[i] <= ends'[j]
    <3>1. CASE j <= n
      <4>1. i \in 1..n /\ j \in 1..n
        BY <3>1, <2>3, <1>0, <1>3
      <4>2. ends[i] <= ends[j]
        BY <4>1, <2>3, <2>1 DEF EndsGrow
      <4> QED
        BY <4>1, <4>2, <1>3
    <3>2. CASE j = n + 1 /\ i <= n
      <4>1. ends[i] <= ends[n] /\ ends[i] \in Nat
        BY <3>2, <2>1, <1>0 DEF EndsGrow
      <4> QED
        BY <4>1, <3>2, <1>0, <1>2, <1>3
    <3>3. CASE j = n + 1 /\ i = n + 1
      BY <3>3, <1>0, <1>2, <1>3
    <3> QED
      BY <3>1, <3>2, <3>3, <2>3, <1>0, <1>3
  <2> QED
    BY <2>2, <2>3 DEF EndsGrow
<1>7. BytesExact'
  <2>0. d = n - 1 - Len(entries) /\ d >= 0 /\ d \in Nat
    BY <1>0 DEF IInv, BytesExact, Dropped
  <2>1. /\ totalBytes = ends[n] - ends[d + 1]
        /\ \A i \in 1..Len(entries) :
              entries[i] = [seq |-> d + i, bytes |-> ends[d + i + 1] - ends[d + i]]
    BY DEF IInv, BytesExact
  <2>2. Dropped' = d /\ d + 1 \in 1..n /\ ends[d + 1] \in Nat
    BY <1>0, <1>3, <1>4, <2>0 DEF Dropped
  <2>3. totalBytes' = ends'[Len(ends')] - ends'[d + 1]
    <3>1. ends'[Len(ends')] = ends[n] + b /\ ends'[d + 1] = ends[d + 1]
      BY <1>3, <2>2
    <3>2. totalBytes' = (ends[n] - ends[d + 1]) + b
      BY <1>1, <2>1
    <3>3. ends[n] \in Nat /\ ends[d + 1] \in Nat /\ b \in Nat
      BY <1>0, <1>2, <2>2
    <3> QED
      BY <3>1, <3>2, <3>3
  <2>4. ASSUME NEW i \in 1..Len(entries')
        PROVE  entries'[i] = [seq |-> d + i, bytes |-> ends'[d + i + 1] - ends'[d + i]]
    <3>1. CASE i \in 1..Len(entries)
      <4>1. d + i \in 1..n /\ d + i + 1 \in 1..n
        BY <3>1, <1>0, <2>0
      <4> QED
        BY <3>1, <4>1, <1>3, <1>4, <2>1
    <3>2. CASE i = Len(entries) + 1
      <4>1. d + i = n
        BY <3>2, <1>0, <2>0
      <4>2. ends'[n] = ends[n] /\ ends'[n + 1] - ends'[n] = b
        BY <1>0, <1>2, <1>3
      <4>3. entries'[i] = [seq |-> n, bytes |-> b]
        BY <3>2, <1>4
      <4> QED
        BY <4>1, <4>2, <4>3
    <3> QED
      BY <3>1, <3>2, <1>0, <1>4
  <2> QED
    BY <2>0, <2>2, <2>3, <2>4 DEF BytesExact
<1>8. DroppedForCause'
  <2>0. d = n - 1 - Len(entries) /\ d \in Int
    BY <1>0 DEF Dropped
  <2>1. d > 0 => Len(entries) + 1 > MaxLines \/ ends[n] - ends[d] > MaxBytes
    BY DEF IInv, DroppedForCause
  <2>2. Dropped' = d
    BY <1>0, <1>3, <1>4 DEF Dropped
  <2>3. ASSUME d > 0 PROVE Len(entries') + 1 > MaxLines \/ ends'[Len(ends')] - ends'[d] > MaxBytes
    <3>1. d \in 1..n /\ ends[d] \in Nat
      BY <2>0, <2>3, <1>0
    <3>2. ends'[Len(ends')] = ends[n] + b /\ ends'[d] = ends[d]
      BY <3>1, <1>3
    <3>3. CASE Len(entries) + 1 > MaxLines
      BY <3>3, <1>0, <1>4
    <3>4. CASE ends[n] - ends[d] > MaxBytes
      <4>1. ends[n] \in Nat /\ b \in Nat
        BY <1>0, <1>2
      <4>2. (ends[n] + b) - ends[d] > MaxBytes
        BY <4>1, <3>1, <3>4
      <4> QED
        BY <4>2, <3>2
    <3> QED
      BY <2>1, <2>3, <3>3, <3>4
  <2> QED
    BY <2>2, <2>3 DEF DroppedForCause
<1>9. WithinLimits'
  BY <1>1 DEF WithinLimits
<1> QED
  BY <1>5, <1>6, <1>7, <1>8, <1>9 DEF IInv

\* A turn of the loop of Append: the oldest entry goes with its bytes.
LEMMA EvictIInv == ASSUME IInv, Evict PROVE IInv'
<1> DEFINE n == Len(ends)
<1> DEFINE d == Dropped
<1>0. ends \in Seq(Nat) /\ n \in 1..(MaxAppends + 1) /\ entries \in Seq(Entry)
      /\ totalBytes \in Nat /\ mu
  BY DEF IInv, TypeOK, Evict
<1>1. /\ mu' = mu /\ view' = view /\ ends' = ends
      /\ entries' = Tail(entries) /\ totalBytes' = totalBytes - entries[1].bytes
      /\ (Len(entries) > MaxLines \/ totalBytes > MaxBytes)
  BY DEF Evict, OverLimit
<1>2. /\ d = n - 1 - Len(entries) /\ d \in Nat
      /\ totalBytes = ends[n] - ends[d + 1]
      /\ \A i \in 1..Len(entries) :
            entries[i] = [seq |-> d + i, bytes |-> ends[d + i + 1] - ends[d + i]]
  <2>1. d = n - 1 - Len(entries) /\ d \in Nat
    BY <1>0 DEF IInv, BytesExact, Dropped
  <2> QED
    BY <2>1 DEF IInv, BytesExact
<1>3. Len(entries) \in Nat \ {0}
  <2>1. CASE Len(entries) = 0
    <3>1. d + 1 = n
      BY <2>1, <1>0, <1>2
    <3>2. ends[n] \in Nat
      <4>1. n \in 1..Len(ends)
        BY <1>0
      <4> QED
        BY <4>1, <1>0
    <3> HIDE DEF n, d
    <3>3. totalBytes = 0
      BY <3>1, <3>2, <1>2
    <3> QED
      BY <3>3, <2>1, <1>1
  <2> QED
    BY <2>1, <1>0
<1>4. /\ Tail(entries) \in Seq(Entry) /\ Len(Tail(entries)) = Len(entries) - 1
      /\ \A i \in 1..(Len(entries) - 1) : Tail(entries)[i] = entries[i + 1]
  <2>1. entries # <<>>
    BY <1>0, <1>3
  <2> QED
    BY <1>0, <1>3, <2>1
<1>5. /\ d + 1 \in 1..n /\ d + 2 \in 1..n /\ ends[d + 1] \in Nat /\ ends[d + 2] \in Nat
      /\ ends[n] \in Nat /\ entries[1].bytes = ends[d + 2] - ends[d + 1]
  <2>1. d + 1 \in 1..n /\ d + 2 \in 1..n
    BY <1>0, <1>2, <1>3
  <2>2. 1 \in 1..Len(entries) /\ d + 1 + 1 = d + 2
    BY <1>0, <1>2, <1>3
  <2>3. entries[1] = [seq |-> d + 1, bytes |-> ends[d + 1 + 1] - ends[d + 1]]
    BY <1>2, <2>2
  <2>4. ends[d + 1] \in Nat /\ ends[d + 2] \in Nat /\ ends[n] \in Nat
    BY <2>1, <1>0
  <2> QED
    BY <2>1, <2>2, <2>3, <2>4
<1>6. totalBytes' = ends[n] - ends[d + 2] /\ totalBytes' \in Nat
  <2>1. d + 2 <= n /\ n \in 1..n
    BY <1>0, <1>5
  <2>2. ends[d + 2] <= ends[n]
    BY <2>1, <1>5 DEF IInv, EndsGrow
  <2>3. totalBytes' = (ends[n] - ends[d + 1]) - (ends[d + 2] - ends[d + 1])
    BY <1>1, <1>2, <1>5
  <2> QED
    BY <2>2, <2>3, <1>5
<1>7. TypeOK'
  BY <1>0, <1>1, <1>4, <1>6 DEF IInv, TypeOK
<1>8. Dropped' = d + 1
  BY <1>0, <1>1, <1>2, <1>3, <1>4 DEF Dropped
<1>9. BytesExact'
  <2>1. ASSUME NEW i \in 1..Len(entries')
        PROVE  entries'[i] = [seq |-> d + 1 + i, bytes |-> ends'[d + 1 + i + 1] - ends'[d + 1 + i]]
    <3>1. i + 1 \in 1..Len(entries) /\ entries'[i] = entries[i + 1]
      BY <1>0, <1>1, <1>3, <1>4
    <3>2. entries[i + 1] = [seq |-> d + (i + 1), bytes |-> ends[d + (i + 1) + 1] - ends[d + (i + 1)]]
      BY <3>1, <1>2
    <3>3. d + (i + 1) = d + 1 + i /\ d + (i + 1) + 1 = d + 1 + i + 1
      BY <1>2, <3>1
    <3> QED
      BY <3>1, <3>2, <3>3, <1>1
  <2>2. totalBytes' = ends'[Len(ends')] - ends'[d + 1 + 1]
    <3>1. d + 1 + 1 = d + 2
      BY <1>2
    <3> QED
      BY <3>1, <1>1, <1>6
  <2>3. Dropped' >= 0
    BY <1>2, <1>8
  <2> QED
    BY <1>8, <2>1, <2>2, <2>3 DEF BytesExact
<1>10. DroppedForCause'
  BY <1>0, <1>1, <1>2, <1>3, <1>4, <1>8 DEF DroppedForCause
<1>11. EndsGrow' /\ WithinLimits'
  BY <1>0, <1>1 DEF IInv, EndsGrow, WithinLimits
<1> QED
  BY <1>7, <1>9, <1>10, <1>11 DEF IInv

\* Every step of the buffer keeps the inductive invariant.
LEMMA NextIInv == IInv /\ [Next]_vars => IInv'
<1> SUFFICES ASSUME IInv, [Next]_vars PROVE IInv'
  OBVIOUS
<1>1. ASSUME NEW b \in Sizes, Push(b) PROVE IInv'
  BY <1>1, PushIInv
<1>2. CASE Evict
  BY <1>2, EvictIInv
<1>3. CASE Release
  <2>1. TypeOK' /\ EndsGrow' /\ WithinLimits'
    BY <1>3 DEF IInv, TypeOK, EndsGrow, WithinLimits, OverLimit, Release
  <2>2. BytesExact' /\ DroppedForCause'
    BY <1>3 DEF IInv, BytesExact, DroppedForCause, Dropped, Release
  <2> QED
    BY <2>1, <2>2 DEF IInv
<1>4. ASSUME NEW n \in 1..MaxAppends, Read(n) PROVE IInv'
  <2>1. view' \in Seq(Entry)
    <3> DEFINE k == IF n > Len(entries) THEN Len(entries) ELSE n
    <3>1. entries \in Seq(Entry) /\ view' = SubSeq(entries, Len(entries) - k + 1, Len(entries))
      BY <1>4 DEF IInv, TypeOK, Read
    <3>2. Len(entries) \in Nat /\ k \in 0..Len(entries)
      BY <3>1
    <3> HIDE DEF k
    <3>3. Len(entries) - k + 1 \in Int /\ Len(entries) \in Int /\ Len(entries) - k + 1 >= 1
      BY <3>2
    <3>4. \A i \in (Len(entries) - k + 1)..Len(entries) : entries[i] \in Entry
      BY <3>1, <3>3
    <3> QED
      BY <3>1, <3>3, <3>4, SubSeqProperties
  <2>2. TypeOK' /\ EndsGrow' /\ WithinLimits'
    BY <1>4, <2>1 DEF IInv, TypeOK, EndsGrow, WithinLimits, OverLimit, Read
  <2>3. BytesExact' /\ DroppedForCause'
    BY <1>4 DEF IInv, BytesExact, DroppedForCause, Dropped, Read
  <2> QED
    BY <2>2, <2>3 DEF IInv
<1>5. CASE UNCHANGED vars
  BY <1>5 DEF IInv, TypeOK, EndsGrow, WithinLimits, OverLimit, BytesExact, DroppedForCause, Dropped, vars
<1> QED
  BY <1>1, <1>2, <1>3, <1>4, <1>5 DEF Next

\* ringbuffer.go:31-41: Append keeps entries, totalBytes and the limits as
\* TypeOK, BytesExact and DroppedForCause say, whatever is appended.
THEOREM RingCorrect == Spec => [](TypeOK /\ BytesExact /\ DroppedForCause)
<1>1. IInv => TypeOK /\ BytesExact /\ DroppedForCause
  BY DEF IInv
<1> QED
  BY <1>1, InitIInv, NextIInv, PTL DEF Spec

-----------------------------------------------------------------------------
\* Outside the loop the entries are as many as the longest suffix that fits.
LEMMA KeepsLongest == ASSUME IInv, ~mu PROVE Len(entries) = History!LongestFit(ends)
<1> DEFINE n == Len(ends)
<1> DEFINE k == Len(entries)
<1>0. ends \in Seq(Nat) /\ n \in 1..(MaxAppends + 1) /\ entries \in Seq(Entry) /\ k \in Nat
  BY DEF IInv, TypeOK
<1>1. k \in 0..(n - 1) /\ totalBytes = ends[n] - ends[n - k] 
  <2>1. n - 1 - k >= 0 /\ totalBytes = ends[n] - ends[n - 1 - k + 1]
    BY DEF IInv, BytesExact, Dropped
  <2>2. n - 1 - k + 1 = n - k
    BY <1>0
  <2> QED
    BY <2>1, <2>2, <1>0
<1>2. History!Fits(ends, k)
  BY <1>1, <1>0 DEF IInv, WithinLimits, OverLimit, TypeOK, History!Fits
<1>3. ASSUME NEW j \in 0..(n - 1), History!Fits(ends, j) PROVE j <= k
  <2>1. SUFFICES ASSUME j > k PROVE FALSE
    BY <1>0
  <2>2. n - 1 - k > 0 /\ n - 1 - k \in 1..n /\ n - j \in 1..n /\ n - j <= n - 1 - k
    BY <2>1, <1>0, <1>3
  <2>3. k + 1 > MaxLines \/ ends[n] - ends[n - 1 - k] > MaxBytes
    BY <2>2 DEF IInv, DroppedForCause, Dropped
  <2>4. ends[n - j] <= ends[n - 1 - k]
    BY <2>2 DEF IInv, EndsGrow
  <2>5. j <= MaxLines /\ ends[n] - ends[n - j] <= MaxBytes
    BY <1>3 DEF History!Fits
  <2>6. ends[n] \in Nat /\ ends[n - j] \in Nat /\ ends[n - 1 - k] \in Nat
    <3>1. \A i \in 1..n : ends[i] \in Nat
      BY <1>0
    <3>2. n \in 1..n
      BY <1>0
    <3> QED
      BY <3>1, <3>2, <2>2
  <2>7. ~(k + 1 > MaxLines)
    BY <2>1, <2>5, <1>0
  <2> QED
    BY <2>3, <2>4, <2>5, <2>6, <2>7
<1>4. History!IsLongestFit(ends, k)
  BY <1>1, <1>2, <1>3 DEF History!IsLongestFit, History!Lines
<1>5. ASSUME NEW j \in 0..(n - 1), History!IsLongestFit(ends, j) PROVE j = k
  BY <1>5, <1>4, <1>0 DEF History!IsLongestFit, History!Lines
<1> QED
  BY <1>0, <1>1, <1>4, <1>5 DEF History!LongestFit, History!Lines

\* What Tail returns is a suffix of the longest history that fits.
LEMMA ReadRefines ==
  ASSUME IInv, NEW n \in 1..MaxAppends, Read(n) PROVE History!Read(n)
<1> DEFINE len == Len(entries)
<1> DEFINE k == IF n > len THEN len ELSE n
<1> DEFINE e == Len(ends)
<1>0. /\ ends \in Seq(Nat) /\ e \in Nat /\ entries \in Seq(Entry) /\ len \in Nat
      /\ ~mu /\ ends' = ends
      /\ view' = SubSeq(entries, len - k + 1, len)
  BY DEF IInv, TypeOK, Read, MayRead
<1>1. len = History!LongestFit(ends)
  BY KeepsLongest, <1>0
<1>2. k = IF n < History!LongestFit(ends) THEN n ELSE History!LongestFit(ends)
  BY <1>1, <1>0
<1>3. k \in 0..len
  BY <1>0
<1>4. view' = [i \in 1..k |-> entries[i + (len - k)]]
  <2> HIDE DEF k
  <2>1. len - k + 1 \in Int /\ len \in Int /\ len - k + 1 >= 1 /\ k \in Nat
    BY <1>0, <1>3
  <2>2. \A i \in (len - k + 1)..len : entries[i] \in Entry
    BY <1>0, <2>1
  <2>3. /\ view' \in Seq(Entry)
        /\ Len(view') = IF len - k + 1 <= len THEN len - (len - k + 1) + 1 ELSE 0
        /\ \A i \in 1..(len - (len - k + 1) + 1) : view'[i] = entries[(len - k + 1) + i - 1]
    BY <1>0, <2>1, <2>2, SubSeqProperties
  <2>4. Len(view') = k
    BY <1>3, <2>1, <2>3
  <2>5. \A i \in 1..k : view'[i] = entries[i + (len - k)]
    <3>1. len - (len - k + 1) + 1 = k
      BY <2>1
    <3>2. \A i \in 1..k : (len - k + 1) + i - 1 = i + (len - k)
      BY <2>1
    <3> QED
      BY <3>1, <3>2, <2>3
  <2>6. view' = [i \in 1..Len(view') |-> view'[i]]
    BY <2>3
  <2> QED
    BY <2>4, <2>5, <2>6
<1>5. ASSUME NEW i \in 1..k
      PROVE  entries[i + (len - k)] = History!Line(ends, e - 1 - k + i)
  <2>1. i + (len - k) \in 1..len
    BY <1>0, <1>3
  <2>2. entries[i + (len - k)] =
          [seq |-> (e - 1 - len) + (i + (len - k)),
           bytes |-> ends[(e - 1 - len) + (i + (len - k)) + 1] - ends[(e - 1 - len) + (i + (len - k))]]
    BY <2>1 DEF IInv, BytesExact, Dropped
  <2>3. (e - 1 - len) + (i + (len - k)) = e - 1 - k + i
    BY <1>0, <1>3
  <2> QED
    BY <2>2, <2>3 DEF History!Line
<1>6. view' = History!Newest(ends, k)
  BY <1>4, <1>5 DEF History!Newest, History!Lines
<1> QED
  BY <1>0, <1>2, <1>6 DEF History!Read

\* ringbuffer.go:31-60: what Tail and All return is always what BoundedHistory
\* returns, so that the eviction loop is invisible behind rb.mu.
THEOREM RingImplementsHistory == Spec => ImplementsHistory
<1>1. Init => History!Init
  BY DEF Init, History!Init
<1>2. IInv /\ [Next]_vars => [History!Next]_<<ends, view>>
  <2> SUFFICES ASSUME IInv, [Next]_vars PROVE [History!Next]_<<ends, view>>
    OBVIOUS
  <2>1. ASSUME NEW b \in Sizes, Push(b) PROVE History!Next
    <3>1. History!NewLine(b)
      BY <2>1 DEF IInv, TypeOK, Push, History!NewLine, History!Lines
    <3> QED
      BY <3>1 DEF History!Next
  <2>2. ASSUME NEW n \in 1..MaxAppends, Read(n) PROVE History!Next
    BY <2>2, ReadRefines DEF History!Next
  <2>3. CASE Evict \/ Release \/ UNCHANGED vars
    BY <2>3 DEF Evict, Release, vars
  <2> QED
    BY <2>1, <2>2, <2>3 DEF Next
<1>3. Spec => []IInv
  BY InitIInv, NextIInv, PTL DEF Spec
<1> QED
  BY <1>1, <1>2, <1>3, PTL DEF Spec, ImplementsHistory, History!Spec
=============================================================================
