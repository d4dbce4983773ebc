--------------------------- MODULE BoundedHistory ---------------------------
(***************************************************************************)
(* What internal/serial/ringbuffer.go promises: the lines of a port as one  *)
(* endless history, of which a reader gets the n newest lines or, if fewer  *)
(* are kept, all of the longest suffix of the history that respects both    *)
(* limits.  Line i has sequence number i and ends[i + 1] - ends[i] bytes.   *)
(***************************************************************************)
EXTENDS Integers, Sequences

CONSTANTS
    MaxLines,     \* rb.maxLines
    MaxBytes,     \* rb.maxBytes
    Sizes,        \* the sizes of lines, in bytes
    MaxAppends    \* bound: lines appended

VARIABLES ends,   \* ends[i + 1]: bytes of the first i lines; ends[1] = 0
          view    \* what the last Tail or All returned

Lines(e) == Len(e) - 1
Line(e, i) == [seq |-> i, bytes |-> e[i + 1] - e[i]]

\* The k newest lines, and whether they respect the limits.
Newest(e, k) == [i \in 1..k |-> Line(e, Lines(e) - k + i)]
Fits(e, k) == k <= MaxLines /\ e[Len(e)] - e[Len(e) - k] <= MaxBytes

IsLongestFit(e, k) ==
    /\ k \in 0..Lines(e) /\ Fits(e, k)
    /\ \A j \in 0..Lines(e) : Fits(e, j) => j <= k

LongestFit(e) == CHOOSE k \in 0..Lines(e) : IsLongestFit(e, k)

Init == ends = <<0>> /\ view = <<>>

NewLine(b) ==
    /\ Lines(ends) < MaxAppends
    /\ ends' = Append(ends, ends[Len(ends)] + b) /\ UNCHANGED view

\* n = MaxAppends stands for All, too.
Read(n) ==
    /\ view' = Newest(ends, IF n < LongestFit(ends) THEN n ELSE LongestFit(ends))
    /\ UNCHANGED ends

Next == (\E b \in Sizes : NewLine(b)) \/ (\E n \in 1..MaxAppends : Read(n))

Spec == Init /\ [][Next]_<<ends, view>>
=============================================================================
