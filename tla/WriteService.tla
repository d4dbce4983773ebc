---------------------------- MODULE WriteService ----------------------------
(***************************************************************************)
(* What a SerialSession promises to those who write to it, whatever happens *)
(* to the device and however many loops come and go: each client has one    *)
(* request at a time; requests are taken in the order of the queue; each is *)
(* delivered to the device, in whole or in part, at most once, and answered *)
(* in the same moment: one that was not delivered is refused, one that was  *)
(* may be.  A client that has stopped waiting learns nothing, its request   *)
(* may still be delivered, and if it is a terminal, with the bytes of a     *)
(* later keystroke.                                                         *)
(***************************************************************************)
EXTENDS Integers, Sequences

CONSTANTS
    HttpClients, SshClients,
    QueueCap,       \* capacity of writeCh
    DiscardInput,   \* a request that meets no device is refused, not dropped
    MaxReqs         \* bound: write requests of one client

Clients  == HttpClients \cup SshClients
Requests == Clients \X (1..MaxReqs)    \* <<client, number>>; the number stands for the bytes

VARIABLES
    submitted,    \* requests that entered the queue
    waiting,      \* the queue
    taken,        \* requests that left it and are undecided
    answer,       \* what the session said of a request
    verdict,      \* what its client concluded
    wire          \* <<request, bytes>>: the device got these bytes, or part of them

vars == <<submitted, waiting, taken, answer, verdict, wire>>

Init ==
    /\ submitted = {} /\ waiting = <<>> /\ taken = {} /\ wire = <<>>
    /\ answer = [r \in Requests |-> "none"] /\ verdict = [r \in Requests |-> "none"]

Earlier(q, r) == q[1] = r[1] /\ q[2] < r[2]

Submit(r) ==
    /\ r \notin submitted /\ Len(waiting) < QueueCap
    /\ \A q \in Requests : Earlier(q, r) => verdict[q] # "none"
    /\ submitted' = submitted \cup {r} /\ waiting' = Append(waiting, r)
    /\ UNCHANGED <<taken, answer, verdict, wire>>

Take ==
    /\ waiting # <<>>
    /\ taken' = taken \cup {Head(waiting)} /\ waiting' = Tail(waiting)
    /\ UNCHANGED <<submitted, answer, verdict, wire>>

Decide(r, a) ==
    /\ r \in taken /\ taken' = taken \ {r} /\ answer' = [answer EXCEPT ![r] = a]
    /\ UNCHANGED <<submitted, waiting, verdict>>

Deliver(r, bytes) ==
    /\ bytes # r[2] => r[1] \in SshClients /\ verdict[r] = "timeout"
    /\ Decide(r, "ok") \/ Decide(r, "err")
    /\ wire' = Append(wire, <<r, bytes>>)

Refuse(r) == Decide(r, "err") /\ UNCHANGED wire

Drop(r) == ~DiscardInput /\ Decide(r, "none") /\ UNCHANGED wire

Conclude(r, v) ==
    /\ r \in submitted /\ verdict[r] = "none" /\ verdict' = [verdict EXCEPT ![r] = v]
    /\ UNCHANGED <<submitted, waiting, taken, answer, wire>>

Learn(r) == answer[r] # "none" /\ Conclude(r, answer[r])

GiveUp(r) == Conclude(r, "timeout")

Next ==
    \/ Take
    \/ \E r \in Requests :
         \/ Submit(r) \/ Refuse(r) \/ Drop(r) \/ Learn(r) \/ GiveUp(r)
         \/ \E bytes \in r[2]..MaxReqs : Deliver(r, bytes)

Spec == Init /\ [][Next]_vars

(* A request that entered the queue is there, or in work, until it has an   *)
(* answer.                                                                  *)
NoneLost ==
    DiscardInput =>
        \A r \in submitted :
            \/ answer[r] # "none" \/ r \in taken
            \/ \E i \in 1..Len(waiting) : waiting[i] = r
=============================================================================
