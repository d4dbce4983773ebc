------------------------------- MODULE Journal -------------------------------
(***************************************************************************)
(* What a FileRecorder promises of the file of a port, whatever fails and   *)
(* whenever the process ends: bytes are appended in the order of the        *)
(* device, as unbroken pieces, and none a second time; the oldest TrimSize   *)
(* go when the file has reached MaxSize; others are lost only if rewriting   *)
(* the file after such a cut fails or is cut short, from the end of what    *)
(* was kept, and in that life of the process nothing is recorded any more.  *)
(***************************************************************************)
EXTENDS Integers, Sequences

CONSTANTS
    MaxSize, TrimSize,
    MaxOld,       \* bound: longest file left by an earlier process
    MaxByte       \* bound: highest number of a byte

VARIABLES
    content,      \* what the file holds, or what is to be written back
    reached,      \* how far in the output of the device the recorder has got
    phase         \* "open", "cutting" (the file is rewritten), "closed", "down"

vars == <<content, reached, phase>>

Run(first, n) == [i \in 1..n |-> first + i - 1]

Init ==
    /\ \E n \in 0..MaxOld : content = Run(1, n) /\ reached = n
    /\ phase = "open"

\* A chunk reaches the file, or the first n bytes of it.
Record(n, to) ==
    /\ phase = "open" /\ reached + n <= to
    /\ content' = content \o Run(reached + 1, n) /\ reached' = to /\ UNCHANGED phase

\* Bytes that find the channel full, or the file closed.
Miss(to) == reached <= to /\ reached' = to /\ UNCHANGED <<content, phase>>

Cut ==
    /\ phase = "open" /\ phase' = "cutting" /\ Len(content) >= MaxSize
    /\ content' = SubSeq(content, TrimSize + 1, Len(content)) /\ UNCHANGED reached

CutDone == phase = "cutting" /\ phase' = "open" /\ UNCHANGED <<content, reached>>

CutFails(n) ==
    /\ phase = "cutting" /\ phase' \in {"closed", "down"}
    /\ content' = SubSeq(content, 1, n) /\ UNCHANGED reached

End ==
    /\ phase \in {"open", "closed"} /\ phase' \in {"closed", "down"}
    /\ UNCHANGED <<content, reached>>

Restart(to) == phase = "down" /\ reached <= to /\ phase' = "open" /\ reached' = to /\ UNCHANGED content

Next ==
    \/ \E to \in 0..MaxByte : Miss(to) \/ Restart(to) \/ \E n \in 0..to : Record(n, to)
    \/ Cut \/ CutDone \/ End
    \/ \E n \in 0..Len(content) : CutFails(n)

Spec == Init /\ [][Next]_vars
=============================================================================
