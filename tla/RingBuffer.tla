----------------------------- MODULE RingBuffer -----------------------------
(***************************************************************************)
(* internal/serial/ringbuffer.go: the history of a port's lines, appended   *)
(* to by readLoop and read by the HTTP handlers.  Append holds rb.mu over    *)
(* its eviction loop; here each turn of the loop is a step, so that what    *)
(* the lock hides from a reader is part of the model.                       *)
(***************************************************************************)
EXTENDS Integers, Sequences

CONSTANTS
    MaxLines,     \* rb.maxLines
    MaxBytes,     \* rb.maxBytes
    Sizes,        \* the sizes of lines, in bytes
    MaxAppends    \* bound: lines appended

ASSUME RingAssumption ==
    MaxLines \in Nat /\ MaxBytes \in Nat /\ Sizes \subseteq Nat /\ MaxAppends \in Nat

VARIABLES
    entries,      \* rb.entries
    totalBytes,   \* rb.totalBytes
    mu,           \* rb.mu is held by Append
    ends,         \* history: ends[i + 1] is the bytes of the first i lines
    view          \* what the last Tail or All returned

vars == <<entries, totalBytes, mu, ends, view>>

Entry == [seq : 1..MaxAppends, bytes : Nat]

TypeOK ==
    /\ entries \in Seq(Entry) /\ totalBytes \in Nat /\ mu \in BOOLEAN
    /\ ends \in Seq(Nat) /\ Len(ends) \in 1..(MaxAppends + 1)
    /\ view \in Seq(Entry)

Init ==
    /\ entries = <<>> /\ totalBytes = 0 /\ mu = FALSE
    /\ ends = <<0>> /\ view = <<>>

\* readLoop counts seqCounter up before it numbers the line.
NextSeq == Len(ends)

\* Lock, append and count the entry.
Push(b) ==
    /\ ~mu /\ Len(ends) <= MaxAppends
    /\ mu' = TRUE
    /\ entries' = Append(entries, [seq |-> NextSeq, bytes |-> b])
    /\ totalBytes' = totalBytes + b
    /\ ends' = Append(ends, ends[Len(ends)] + b)
    /\ UNCHANGED view

OverLimit == Len(entries) > MaxLines \/ totalBytes > MaxBytes

\* One turn of the loop drops the oldest entry.
Evict_KeepCount ==                                          \* Mutant
    /\ mu /\ OverLimit
    /\ entries' = Tail(entries) /\ UNCHANGED <<totalBytes, mu, ends, view>>
Evict ==
    /\ mu /\ OverLimit
    /\ totalBytes' = totalBytes - Head(entries).bytes /\ entries' = Tail(entries)
    /\ UNCHANGED <<mu, ends, view>>

Release == mu /\ ~OverLimit /\ mu' = FALSE /\ UNCHANGED <<entries, totalBytes, ends, view>>

\* Tail(n) and, with n at least the number of entries, All.
MayRead_NoLock == TRUE                                      \* Mutant
MayRead == ~mu

Read(n) ==
    /\ MayRead
    /\ LET k == IF n > Len(entries) THEN Len(entries) ELSE n IN
       view' = SubSeq(entries, Len(entries) - k + 1, Len(entries))
    /\ UNCHANGED <<entries, totalBytes, mu, ends>>

Next ==
    \/ \E b \in Sizes : Push(b)
    \/ Evict \/ Release
    \/ \E n \in 1..MaxAppends : Read(n)

Spec == Init /\ [][Next]_vars

-----------------------------------------------------------------------------
\* How many lines have been evicted.
Dropped == Len(ends) - 1 - Len(entries)

\* rb.totalBytes is the sum of the entries that are left and they are the
\* newest lines without a gap, even in the middle of the loop: a drift would
\* wear the history away or let it outgrow its limit, many lines later, or
\* have the loop index an empty slice.
BytesExact ==
    /\ Dropped >= 0
    /\ totalBytes = ends[Len(ends)] - ends[Dropped + 1]
    /\ \A i \in 1..Len(entries) :
          entries[i] = [seq |-> Dropped + i, bytes |-> ends[Dropped + i + 1] - ends[Dropped + i]]

\* No line is dropped in vain: with the youngest of the dropped lines the
\* history would exceed a limit, and it does so ever after.
DroppedForCause ==
    Dropped > 0 => \/ Len(entries) + 1 > MaxLines
                   \/ ends[Len(ends)] - ends[Dropped] > MaxBytes

\* Readers cannot tell the ring buffer from the history that BoundedHistory
\* promises: an eviction loop caught half-way would show.
History == INSTANCE BoundedHistory WITH
    MaxLines <- MaxLines, MaxBytes <- MaxBytes, Sizes <- Sizes, MaxAppends <- MaxAppends,
    ends <- ends, view <- view
ImplementsHistory == History!Spec
=============================================================================
