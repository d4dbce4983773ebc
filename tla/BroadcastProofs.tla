-------------------------- MODULE BroadcastProofs ---------------------------
(***************************************************************************)
(* Proofs about Broadcast: no send on a closed channel and a complete      *)
(* stream, for any number of broadcasters, requests and terminals and any  *)
(* capacity.                                                               *)
(***************************************************************************)
EXTENDS Broadcast, SequenceTheorems, TLAPS

(* Who is in the map, and whose channel is closed, follows from where its   *)
(* handler is.                                                             *)
Subscribed ==
    \A c \in Consumers : /\ c \in subs <=> cpc[c] \in {"write", "stream", "print", "last", "unsub"}
                         /\ c \in closed <=> cpc[c] = "end"

(* Only a broadcast that holds the lock has channels to visit, and all of   *)
(* them are in the map: nobody may leave it meanwhile.                      *)
Visits ==
    \A b \in Broadcasters : todo[b] \subseteq subs /\ (bpc[b] # "send" => todo[b] = {})

(* A broadcast under way has a message.                                     *)
Numbered == \A b \in Broadcasters : bpc[b] # "idle" => count[b] >= 1
TypeInv == TypeOK /\ Numbered

(* What a consumer has been sent.  The message of a broadcast under way is   *)
(* not among it as long as the lock or the consumer's channel is to come.   *)
Sent(c) == got[c] \o chan[c]

Numbers(c) ==
    \A i \in 1..Len(Sent(c)) :
        LET b == Sent(c)[i][1] IN
        /\ Sent(c)[i][2] <= count[b]
        /\ bpc[b] = "lock" \/ c \in todo[b] => Sent(c)[i][2] < count[b]

Ordered == \A c \in Consumers : InOrder(Sent(c)) /\ Numbers(c)

IInv == TypeInv /\ Subscribed /\ Visits /\ Ordered /\ StreamFaithful

-----------------------------------------------------------------------------
(* What the model is built from.                                           *)

Pcs == {"begin", "sub", "write", "stream", "print", "last", "unsub", "close", "end"}

LEMMA HandlerOrder ==
    ASSUME NEW c
    PROVE  /\ After(c, "start") = "begin" /\ After(c, "begin") = "sub"
           /\ After(c, "sub") \in {"write", "stream"}
           /\ c \in Execs => After(c, "sub") = "write" /\ After(c, "write") = "stream"
BY DEF After, ExecOrder

(* A message that is sent goes to the end of a channel, and one that is     *)
(* taken to what its consumer got.                                         *)
LEMMA RangeOfAppend ==
    ASSUME NEW S, NEW s \in Seq(S), NEW e \in S
    PROVE  /\ Append(s, e) \in Seq(S) /\ Len(Append(s, e)) = Len(s) + 1
           /\ Range(Append(s, e)) = Range(s) \cup {e}
<1>1. /\ Append(s, e) \in Seq(S) /\ Len(Append(s, e)) = Len(s) + 1
      /\ \A i \in 1..Len(s) : Append(s, e)[i] = s[i]
      /\ Append(s, e)[Len(s) + 1] = e
  BY AppendProperties
<1>2. /\ Len(s) \in Nat
      /\ Range(s) = {s[i] : i \in 1..Len(s)}
      /\ Range(Append(s, e)) = {Append(s, e)[i] : i \in 1..Len(s) + 1}
  BY <1>1, RangeEquality, LenProperties
<1> QED BY <1>1, <1>2

LEMMA RangeOfTail ==
    ASSUME NEW S, NEW s \in Seq(S), s # <<>>
    PROVE  /\ Head(s) \in S /\ Tail(s) \in Seq(S) /\ Len(Tail(s)) = Len(s) - 1
           /\ Range(s) = {Head(s)} \cup Range(Tail(s))
<1>1. /\ Head(s) \in S /\ Tail(s) \in Seq(S) /\ Len(Tail(s)) = Len(s) - 1
      /\ Head(s) = s[1] /\ Len(s) \in Nat \ {0}
      /\ \A i \in 1..Len(s) - 1 : Tail(s)[i] = s[i + 1]
  BY HeadTailProperties, EmptySeq
<1>2. /\ Range(s) = {s[i] : i \in 1..Len(s)}
      /\ Range(Tail(s)) = {Tail(s)[i] : i \in 1..Len(s) - 1}
  BY <1>1, RangeEquality
<1>3. ASSUME NEW x \in Range(s) PROVE x = s[1] \/ x \in Range(Tail(s))
  <2>1. PICK i \in 1..Len(s) : x = s[i]
    BY <1>2, <1>3
  <2>2. CASE i # 1
    <3>1. i - 1 \in 1..Len(s) - 1 /\ x = Tail(s)[i - 1]
      BY <1>1, <2>1, <2>2
    <3> QED BY <1>2, <3>1
  <2> QED BY <2>1, <2>2
<1>4. ASSUME NEW x \in Range(Tail(s)) PROVE x \in Range(s)
  <2>1. PICK i \in 1..Len(s) - 1 : x = Tail(s)[i]
    BY <1>2, <1>4
  <2>2. i + 1 \in 1..Len(s) /\ x = s[i + 1]
    BY <1>1, <2>1
  <2> QED BY <1>2, <2>2
<1>5. s[1] \in Range(s)
  BY <1>1, <1>2
<1> QED BY <1>1, <1>3, <1>4, <1>5

-----------------------------------------------------------------------------
(* Types.                                                                   *)

LEMMA TypeInit == Init => TypeInv
BY HandlerOrder, BroadcastAssumption, EmptySeq DEF Init, TypeInv, Numbered, TypeOK, Messages

LEMMA TypeNext == TypeInv /\ [Next]_vars => TypeInv'
<1> SUFFICES ASSUME TypeInv, [Next]_vars PROVE TypeInv'
  OBVIOUS
<1> USE BroadcastAssumption DEF TypeInv, Numbered, TypeOK, bvars, ivars
<1>1. ASSUME NEW b \in Broadcasters, BroadcastBegin(b) \/ BroadcastStep(b) PROVE TypeInv'
  <2>1. CASE BroadcastBegin(b)
    BY <2>1 DEF BroadcastBegin
  <2>2. CASE BroadcastLock(b)
    BY <2>2 DEF BroadcastLock
  <2>3. CASE BroadcastSend(b)
    <3>1. PICK c \in todo[b] :
            /\ todo' = [todo EXCEPT ![b] = @ \ {c}]
            /\ IF Len(chan[c]) < ChanCap
               THEN chan' = [chan EXCEPT ![c] = Append(@, <<b, count[b]>>)] /\ UNCHANGED lost
               ELSE lost' = lost \cup {c} /\ UNCHANGED chan
      BY <2>3 DEF BroadcastSend, Left, HasRoom
    <3>2. bpc[b] = "send" /\ UNCHANGED <<bpc, count, subs, closed, cpc, got, ivars, gone>>
      BY <2>3 DEF BroadcastSend
    <3>3. c \in Consumers
      BY <3>1
    <3>4. chan' \in [Consumers -> Seq(Messages)] /\ \A d \in Consumers : Len(chan'[d]) <= ChanCap
      <4>1. CASE Len(chan[c]) < ChanCap
        <5>1. <<b, count[b]>> \in Messages
          BY <3>2 DEF Messages
        <5>2. Len(chan[c]) \in Nat /\ Append(chan[c], <<b, count[b]>>) \in Seq(Messages)
              /\ Len(Append(chan[c], <<b, count[b]>>)) = Len(chan[c]) + 1
          BY <3>3, <5>1, RangeOfAppend, LenProperties
        <5>3. chan' = [chan EXCEPT ![c] = Append(chan[c], <<b, count[b]>>)]
          BY <3>1, <4>1
        <5> DEFINE q == Append(chan[c], <<b, count[b]>>)
        <5>4. q \in Seq(Messages) /\ Len(q) <= ChanCap /\ chan' = [chan EXCEPT ![c] = q]
          BY <4>1, <5>2, <5>3
        <5> HIDE DEF q
        <5> QED BY <3>3, <5>4
      <4>2. CASE ~(Len(chan[c]) < ChanCap)
        BY <3>1, <4>2
      <4> QED BY <4>1, <4>2
    <3> QED BY <3>1, <3>2, <3>3, <3>4
  <2>4. CASE BroadcastUnlock(b)
    BY <2>4 DEF BroadcastUnlock
  <2> QED BY <1>1, <2>1, <2>2, <2>3, <2>4 DEF BroadcastStep
<1>2. ASSUME NEW c \in Consumers, ConsumerNext(c) PROVE TypeInv'
  <2>1. CASE Begin(c) \/ LockStep(c)
    BY <2>1, HandlerOrder DEF Begin, LockStep, Subscribe, Delete, Close, Consumer
  <2>2. CASE ExecWrite(c)
    <3>1. /\ c \in Execs /\ cpc' \in [Consumers -> Pcs]
          /\ since' = [since EXCEPT ![c] = count] \/ UNCHANGED since
      BY <2>2, HandlerOrder DEF ExecWrite, Consumer, Pcs
    <3>2. since' \in [Execs -> [Broadcasters -> 0..MaxMsgs]]
      BY <3>1
    <3> QED BY <2>2, <3>1, <3>2 DEF ExecWrite, Consumer, Pcs
  <2>3. CASE SilenceExpires(c) \/ MaxExpires(c) \/ StallOrReadOn(c) \/ HangUp(c)
    BY <2>3 DEF SilenceExpires, MaxExpires, StallOrReadOn, HangUp, Meanwhile
  <2>4. CASE ExecPrinted(c) \/ ExecSilence(c) \/ ExecTimeout(c) \/ ExecGone(c)
    <3>1. c \in Execs /\ \E to \in Pcs : cpc' = [cpc EXCEPT ![c] = to]
      BY <2>4 DEF ExecPrinted, ExecSilence, ExecTimeout, ExecGone, ExecEnd, Consumer, Pcs
    <3> QED BY <2>4, <3>1 DEF ExecPrinted, ExecSilence, ExecTimeout, ExecGone, ExecEnd, Consumer, Pcs
  <2>5. CASE ExecMessage(c) \/ SshOutput(c)
    <3>1. \/ UNCHANGED <<chan, got>>
          \/ /\ chan[c] # <<>> /\ chan' = [chan EXCEPT ![c] = Tail(@)]
             /\ got' = [got EXCEPT ![c] = Append(@, Head(chan[c]))]
      BY <2>5 DEF ExecMessage, SshOutput
    <3>2. /\ chan' \in [Consumers -> Seq(Messages)] /\ got' \in [Consumers -> Seq(Messages)]
          /\ \A d \in Consumers : Len(chan'[d]) <= ChanCap
      <4>1. CASE chan[c] # <<>> /\ chan' = [chan EXCEPT ![c] = Tail(@)]
                 /\ got' = [got EXCEPT ![c] = Append(@, Head(chan[c]))]
        <5>1. /\ Head(chan[c]) \in Messages /\ Tail(chan[c]) \in Seq(Messages)
              /\ Len(Tail(chan[c])) = Len(chan[c]) - 1 /\ Len(chan[c]) \in Nat
          BY <4>1, RangeOfTail, LenProperties
        <5>2. Append(got[c], Head(chan[c])) \in Seq(Messages)
          BY <5>1, RangeOfAppend
        <5> QED BY <4>1, <5>1, <5>2
      <4> QED BY <3>1, <4>1
    <3> QED BY <2>5, <3>2 DEF ExecMessage, SshOutput, Consumer
  <2> QED BY <1>2, <2>1, <2>2, <2>3, <2>4, <2>5 DEF ConsumerNext
<1>3. CASE UNCHANGED vars
  BY <1>3 DEF vars
<1> QED BY <1>1, <1>2, <1>3 DEF Next

(* For every number of broadcasters, requests and terminals: the types of   *)
(* the fan-out, channels within their capacity included.                   *)
THEOREM TypeCorrect == Spec => []TypeOK
<1>1. TypeInv => TypeOK
  BY DEF TypeInv
<1> QED BY <1>1, TypeInit, TypeNext, PTL DEF Spec

-----------------------------------------------------------------------------
(* The map, the lock and the timers.                                        *)

MapInv == Subscribed /\ Visits

LEMMA MapNext == TypeInv /\ MapInv /\ [Next]_vars => MapInv'
<1> SUFFICES ASSUME TypeInv, MapInv, [Next]_vars PROVE MapInv'
  OBVIOUS
<1> USE DEF MapInv, TypeInv, TypeOK, bvars, ivars
<1>1. ASSUME UNCHANGED <<subs, closed, cpc>>,
             \A b \in Broadcasters : /\ todo'[b] \subseteq subs
                                     /\ bpc'[b] # "send" => todo'[b] = {}
      PROVE  MapInv'
  BY <1>1 DEF Subscribed, Visits
<1>2. ASSUME NEW b \in Broadcasters, BroadcastBegin(b) \/ BroadcastStep(b) PROVE MapInv'
  <2>1. CASE BroadcastBegin(b)
    BY <1>1, <2>1 DEF BroadcastBegin, Visits
  <2>2. CASE BroadcastLock(b)
    BY <1>1, <2>2 DEF BroadcastLock, Visits
  <2>3. CASE BroadcastSend(b)
    <3>1. UNCHANGED <<subs, closed, cpc, bpc>> /\ \E c \in todo[b] : todo' = [todo EXCEPT ![b] = @ \ {c}]
      BY <2>3 DEF BroadcastSend, Left
    <3> QED BY <1>1, <3>1 DEF Visits
  <2>4. CASE BroadcastUnlock(b)
    BY <1>1, <2>4 DEF BroadcastUnlock, Visits
  <2> QED BY <1>2, <2>1, <2>2, <2>3, <2>4 DEF BroadcastStep
<1>3. ASSUME NEW c \in Consumers, ConsumerNext(c) PROVE MapInv'
  <2>1. UNCHANGED <<bpc, todo>>
    BY <1>3 DEF ConsumerNext, Begin, LockStep, Subscribe, Delete, Close, ExecWrite, SilenceExpires,
       MaxExpires, StallOrReadOn, HangUp, Meanwhile, ExecMessage, ExecPrinted, ExecSilence, ExecTimeout, ExecGone, ExecEnd, SshOutput, Consumer
  <2>2. CASE Begin(c)
    <3>1. cpc[c] = "begin" /\ cpc' = [cpc EXCEPT ![c] = "sub"] /\ UNCHANGED <<subs, closed>>
      BY <2>2, HandlerOrder DEF Begin, Consumer
    <3> QED BY <2>1, <3>1 DEF Subscribed, Visits
  <2>3. CASE Subscribe(c)
    <3>1. /\ cpc[c] = "sub" /\ subs' = subs \cup {c} /\ closed' = closed
          /\ \E to \in {"write", "stream"} : cpc' = [cpc EXCEPT ![c] = to]
      BY <2>3, HandlerOrder DEF Subscribe, Consumer
    <3> QED BY <2>1, <3>1 DEF Subscribed, Visits
  <2>4. CASE Delete(c)
    <3>1. /\ cpc[c] = "unsub" /\ cpc' = [cpc EXCEPT ![c] = "close"]
          /\ subs' = subs \ {c} /\ closed' = closed
      BY <2>4 DEF Delete, Consumer
    <3>2. \A b \in Broadcasters : bpc[b] # "send" /\ todo[b] = {}
      BY <2>4 DEF Delete, LockFree, Readers, Visits
    <3> QED BY <2>1, <3>1, <3>2 DEF Subscribed, Visits
  <2>5. CASE Close(c)
    <3>1. /\ cpc[c] = "close" /\ cpc' = [cpc EXCEPT ![c] = "end"]
          /\ subs' = subs /\ closed' = closed \cup {c}
      BY <2>5 DEF Close, Consumer
    <3> QED BY <2>1, <3>1 DEF Subscribed, Visits
  <2>6. CASE ~Begin(c) /\ ~LockStep(c)
    <3>1. UNCHANGED <<subs, closed>>
      BY <1>3, <2>6 DEF ConsumerNext, ExecWrite, SilenceExpires, MaxExpires, StallOrReadOn, HangUp, Meanwhile,
         ExecMessage, ExecPrinted, ExecSilence, ExecTimeout, ExecGone, ExecEnd, SshOutput
    <3>2. \/ UNCHANGED cpc
          \/ /\ cpc[c] \in {"write", "stream", "print", "last"}
             /\ \E to \in {"stream", "print", "last", "unsub"} : cpc' = [cpc EXCEPT ![c] = to]
      BY <1>3, <2>6, HandlerOrder DEF ConsumerNext, ExecWrite, SilenceExpires, MaxExpires, StallOrReadOn, HangUp, Meanwhile,
         ExecMessage, ExecPrinted, ExecSilence, ExecTimeout, ExecGone, ExecEnd, SshOutput, Consumer
    <3> QED BY <2>1, <3>1, <3>2 DEF Subscribed, Visits
  <2> QED BY <1>3, <2>2, <2>3, <2>4, <2>5, <2>6 DEF LockStep
<1>4. CASE UNCHANGED vars
  BY <1>1, <1>4 DEF vars, Visits
<1> QED BY <1>2, <1>3, <1>4 DEF Next

-----------------------------------------------------------------------------
(* The stream of one request, as far as one broadcaster fills it.           *)

Received(c) == Range(got[c]) \cup Range(chan[c])

Complete(c, b) ==
    Streaming(c) /\ c \notin lost =>
        \A n \in (since[c][b] + 1)..count[b] :
            <<b, n>> \in Received(c) \/ (n = count[b] /\ (bpc[b] = "lock" \/ c \in todo[b]))

(* Steps without a new message: what was received stays so, and the last    *)
(* message is received, or lost, or still to be delivered.                 *)
LEMMA CompleteKept ==
    ASSUME NEW c \in Execs, NEW b \in Broadcasters, Complete(c, b),
           Streaming(c)' => Streaming(c), lost \subseteq lost',
           since'[c][b] = since[c][b], count'[b] = count[b],
           Received(c) \subseteq Received(c)',
           bpc[b] = "lock" \/ c \in todo[b] =>
              \/ bpc'[b] = "lock" \/ c \in todo'[b] \/ <<b, count[b]>> \in Received(c)'
              \/ c \in lost' \/ ~Streaming(c)'
    PROVE  Complete(c, b)'
BY DEF Complete

LEMMA StreamNext ==
    ASSUME TypeInv, MapInv, [Next]_vars, NEW c \in Execs, NEW b \in Broadcasters, Complete(c, b)
    PROVE  Complete(c, b)'
<1> USE DEF TypeInv, TypeOK, bvars, ivars, Streaming
<1>1. c \in Consumers /\ c \notin Sshs
  BY BroadcastAssumption DEF Consumers
<1>2. ASSUME UNCHANGED <<cpc, lost, since, count, got, chan, bpc, todo>> PROVE Complete(c, b)'
  BY <1>2 DEF Complete, Received
<1>3. ASSUME NEW d \in Broadcasters, BroadcastBegin(d) PROVE Complete(c, b)'
  <2>1. UNCHANGED <<cpc, lost, since, got, chan, todo>> /\ bpc[d] = "idle"
        /\ bpc' = [bpc EXCEPT ![d] = "lock"] /\ count' = [count EXCEPT ![d] = @ + 1]
    BY <1>3 DEF BroadcastBegin
  <2>2. CASE b = d
    <3>1. todo[b] = {} /\ bpc'[b] = "lock" /\ count'[b] = count[b] + 1
      BY <2>1, <2>2 DEF MapInv, Visits
    <3>2. count[b] \in Nat /\ since[c][b] \in Nat
      BY BroadcastAssumption
    <3> QED BY <2>1, <2>2, <3>1, <3>2 DEF Complete, Received
  <2>3. CASE b # d
    BY <2>1, <2>3 DEF Complete, Received
  <2> QED BY <2>2, <2>3
<1>4. ASSUME NEW d \in Broadcasters, BroadcastLock(d) PROVE Complete(c, b)'
  <2>1. UNCHANGED <<cpc, lost, since, got, chan, count>> /\ bpc[d] = "lock"
        /\ bpc' = [bpc EXCEPT ![d] = "send"] /\ todo' = [todo EXCEPT ![d] = subs]
    BY <1>4 DEF BroadcastLock
  <2>2. Streaming(c) => c \in subs
    BY <1>1 DEF MapInv, Subscribed
  <2>3. bpc[b] = "lock" \/ c \in todo[b] => bpc'[b] = "lock" \/ c \in todo'[b] \/ ~Streaming(c)'
    BY <2>1, <2>2 DEF MapInv, Visits
  <2>4. Received(c) \subseteq Received(c)'
    BY <2>1 DEF Received
  <2> QED BY <2>1, <2>3, <2>4, CompleteKept
<1>5. ASSUME NEW d \in Broadcasters, BroadcastSend(d) PROVE Complete(c, b)'
  <2>1. PICK e \in todo[d] :
          /\ todo' = [todo EXCEPT ![d] = @ \ {e}]
          /\ IF HasRoom(e)
             THEN chan' = [chan EXCEPT ![e] = Append(@, <<d, count[d]>>)] /\ UNCHANGED lost
             ELSE lost' = lost \cup {e} /\ UNCHANGED chan
    BY <1>5 DEF BroadcastSend, Left
  <2>2. bpc[d] = "send" /\ UNCHANGED <<bpc, count, cpc, got, since>>
    BY <1>5 DEF BroadcastSend
  <2>3. CASE e # c
    <3>1. chan'[c] = chan[c] /\ lost \subseteq lost' /\ (c \in todo[b] => c \in todo'[b])
      BY <1>1, <2>1, <2>3
    <3> QED BY <2>2, <3>1, CompleteKept DEF Received
  <2>4. CASE e = c /\ ~HasRoom(c)
    BY <2>1, <2>4 DEF Complete
  <2>5. CASE e = c /\ HasRoom(c)
    <3> DEFINE m == <<d, count[d]>>
    <3>1. m \in Messages /\ chan[c] \in Seq(Messages)
      BY <1>1, <2>2, BroadcastAssumption DEF Numbered, Messages
    <3>2. chan'[c] = Append(chan[c], m) /\ lost' = lost
      BY <1>1, <2>1, <2>5
    <3> HIDE DEF m
    <3>3. Range(chan'[c]) = Range(chan[c]) \cup {m}
      BY <3>1, <3>2, RangeOfAppend
    <3>4. Received(c) \subseteq Received(c)' /\ m \in Received(c)'
      BY <2>2, <3>3 DEF Received
    <3>5. c \in todo[b] => c \in todo'[b] \/ b = d
      BY <2>1
    <3>6. b = d => m = <<b, count[b]>>
      BY DEF m
    <3> QED BY <2>2, <3>2, <3>4, <3>5, <3>6, CompleteKept
  <2> QED BY <2>3, <2>4, <2>5
<1>6. ASSUME NEW d \in Broadcasters, BroadcastUnlock(d) PROVE Complete(c, b)'
  <2>1. UNCHANGED <<cpc, lost, since, got, chan, count, todo>> /\ bpc[d] = "send"
        /\ bpc' = [bpc EXCEPT ![d] = "idle"]
    BY <1>6 DEF BroadcastUnlock
  <2> QED BY <2>1, CompleteKept DEF Received
<1>7. ASSUME NEW d \in Consumers, ConsumerNext(d), d # c PROVE Complete(c, b)'
  <2>1. UNCHANGED <<bvars, lost>> /\ cpc'[c] = cpc[c]
    BY <1>1, <1>7 DEF ConsumerNext, Begin, LockStep, Subscribe, Delete, Close, ExecWrite, SilenceExpires,
       MaxExpires, StallOrReadOn, HangUp, Meanwhile, ExecMessage, ExecPrinted, ExecSilence, ExecTimeout, ExecGone, ExecEnd, SshOutput, Consumer
  <2>2. got'[c] = got[c] /\ chan'[c] = chan[c] /\ since'[c] = since[c]
    BY <1>1, <1>7 DEF ConsumerNext, Begin, LockStep, Subscribe, Delete, Close, ExecWrite, SilenceExpires,
       MaxExpires, StallOrReadOn, HangUp, Meanwhile, ExecMessage, ExecPrinted, ExecSilence, ExecTimeout, ExecGone, ExecEnd, SshOutput
  <2> QED BY <2>1, <2>2 DEF Complete, Received
<1>8. CASE ConsumerNext(c)
  <2>1. ASSUME ~Streaming(c)' PROVE Complete(c, b)'
    BY <2>1 DEF Complete
  <2>2. CASE Begin(c) \/ LockStep(c)
    <3>1. ~Streaming(c)'
      BY <1>1, <2>2, HandlerOrder DEF Begin, LockStep, Subscribe, Delete, Close, Consumer
    <3> QED BY <2>1, <3>1
  <2>3. CASE ExecWrite(c)
    <3>1. CASE since' = [since EXCEPT ![c] = count] /\ count' = count
      <4>1. since'[c][b] = count'[b] /\ count'[b] \in Nat
        BY <3>1
      <4> QED BY <4>1 DEF Complete
    <3>2. CASE cpc' = [cpc EXCEPT ![c] = "unsub"]
      BY <1>1, <2>1, <3>2
    <3> QED BY <2>3, <3>1, <3>2 DEF ExecWrite, Consumer
  <2>4. CASE SilenceExpires(c) \/ MaxExpires(c) \/ StallOrReadOn(c) \/ HangUp(c)
    <3>1. UNCHANGED <<lost, since, count, got, chan, bpc, todo, cpc>>
      BY <2>4 DEF SilenceExpires, MaxExpires, StallOrReadOn, HangUp, Meanwhile
    <3> QED BY <1>2, <3>1
  <2>5. CASE ExecMessage(c)
    <3>1. /\ chan[c] # <<>> /\ chan[c] \in Seq(Messages) /\ got[c] \in Seq(Messages)
          /\ got'[c] = Append(got[c], Head(chan[c])) /\ chan'[c] = Tail(chan[c])
          /\ cpc[c] = "stream" /\ UNCHANGED <<lost, since, bvars>>
      BY <1>1, <2>5 DEF ExecMessage, Consumer
    <3>2. /\ Range(chan[c]) = {Head(chan[c])} \cup Range(chan'[c])
          /\ Head(chan[c]) \in Messages
      BY <3>1, RangeOfTail
    <3>3. Range(got'[c]) = Range(got[c]) \cup {Head(chan[c])}
      BY <3>1, <3>2, RangeOfAppend
    <3>4. Received(c) \subseteq Received(c)'
      BY <3>2, <3>3 DEF Received
    <3> QED BY <3>1, <3>4, CompleteKept
  <2>6. CASE ExecPrinted(c) \/ ExecSilence(c) \/ ExecTimeout(c) \/ ExecGone(c)
    <3>1. UNCHANGED <<lost, since, count, got, chan, bpc, todo>> /\ Streaming(c)
      BY <2>6 DEF ExecPrinted, ExecSilence, ExecTimeout, ExecGone, ExecEnd, Consumer
    <3> QED BY <3>1 DEF Complete, Received
  <2>7. CASE SshOutput(c)
    BY <1>1, <2>7 DEF SshOutput
  <2> QED BY <1>8, <2>2, <2>3, <2>4, <2>5, <2>6, <2>7 DEF ConsumerNext
<1>9. CASE UNCHANGED vars
  BY <1>2, <1>9 DEF vars
<1> QED BY <1>3, <1>4, <1>5, <1>6, <1>7, <1>8, <1>9 DEF Next, BroadcastStep

-----------------------------------------------------------------------------
(* What is sent, and taken from the channel, comes behind what was sent.    *)
LEMMA SentGrows ==
    ASSUME NEW s \in Seq(Messages), NEW t \in Seq(Messages)
    PROVE  /\ s \o t \in Seq(Messages)
           /\ \A m \in Messages :
                 /\ Len(s \o Append(t, m)) = Len(s \o t) + 1
                 /\ (s \o Append(t, m))[Len(s \o t) + 1] = m
                 /\ \A i \in 1..Len(s \o t) : (s \o Append(t, m))[i] = (s \o t)[i]
           /\ t # <<>> => Append(s, Head(t)) \o Tail(t) = s \o t
<1>1. Len(s) \in Nat /\ Len(t) \in Nat
  BY LenProperties
<1>2. ASSUME NEW u \in Seq(Messages)
      PROVE  /\ s \o u \in Seq(Messages) /\ Len(s \o u) = Len(s) + Len(u)
             /\ \A i \in 1..Len(s) + Len(u) : (s \o u)[i] = IF i <= Len(s) THEN s[i] ELSE u[i - Len(s)]
  BY ConcatProperties
<1>3. ASSUME NEW m \in Messages
      PROVE  /\ Len(s \o Append(t, m)) = Len(s \o t) + 1
             /\ (s \o Append(t, m))[Len(s \o t) + 1] = m
             /\ \A i \in 1..Len(s \o t) : (s \o Append(t, m))[i] = (s \o t)[i]
  <2>1. /\ Append(t, m) \in Seq(Messages) /\ Len(Append(t, m)) = Len(t) + 1
        /\ Append(t, m)[Len(t) + 1] = m /\ \A i \in 1..Len(t) : Append(t, m)[i] = t[i]
    BY AppendProperties
  <2>2. /\ Len(s \o Append(t, m)) = Len(s) + (Len(t) + 1)
        /\ \A i \in 1..Len(s) + (Len(t) + 1) :
              (s \o Append(t, m))[i] = IF i <= Len(s) THEN s[i] ELSE Append(t, m)[i - Len(s)]
    BY <1>2, <2>1
  <2>3. Len(s \o t) = Len(s) + Len(t)
    BY <1>2
  <2>4. (s \o Append(t, m))[Len(s \o t) + 1] = m
    BY <1>1, <2>1, <2>2, <2>3
  <2>5. ASSUME NEW i \in 1..Len(s \o t) PROVE (s \o Append(t, m))[i] = (s \o t)[i]
    <3>1. (s \o t)[i] = IF i <= Len(s) THEN s[i] ELSE t[i - Len(s)]
      BY <1>2, <2>3
    <3>2. i > Len(s) => i - Len(s) \in 1..Len(t)
      BY <1>1, <2>3
    <3> QED BY <1>1, <2>1, <2>2, <2>3, <3>1, <3>2
  <2> QED BY <1>1, <2>2, <2>3, <2>4, <2>5
<1>4. ASSUME t # <<>> PROVE Append(s, Head(t)) \o Tail(t) = s \o t
  <2>1. /\ Head(t) = t[1] /\ Head(t) \in Messages /\ Tail(t) \in Seq(Messages)
        /\ Len(t) \in Nat \ {0} /\ Len(Tail(t)) = Len(t) - 1
        /\ \A i \in 1..Len(t) - 1 : Tail(t)[i] = t[i + 1]
    BY <1>4, HeadTailProperties, EmptySeq
  <2>2. /\ Append(s, Head(t)) \in Seq(Messages) /\ Len(Append(s, Head(t))) = Len(s) + 1
        /\ Append(s, Head(t))[Len(s) + 1] = t[1] /\ \A i \in 1..Len(s) : Append(s, Head(t))[i] = s[i]
    BY <2>1, AppendProperties
  <2> DEFINE a == Append(s, Head(t))  b == Tail(t)
  <2> HIDE DEF a, b
  <2>3. /\ a \in Seq(Messages) /\ b \in Seq(Messages) /\ Len(a) = Len(s) + 1 /\ Len(b) = Len(t) - 1
    BY <2>1, <2>2 DEF a, b
  <2>4. /\ a \o b \in Seq(Messages) /\ Len(a \o b) = Len(a) + Len(b)
        /\ \A i \in 1..Len(a) + Len(b) : (a \o b)[i] = IF i <= Len(a) THEN a[i] ELSE b[i - Len(a)]
    BY <2>3, ConcatProperties
  <2>5. Len(a) + Len(b) = Len(s) + Len(t)
    BY <1>1, <2>3
  <2>6. ASSUME NEW i \in 1..Len(s) + Len(t) PROVE (a \o b)[i] = (s \o t)[i]
    <3>1. (s \o t)[i] = IF i <= Len(s) THEN s[i] ELSE t[i - Len(s)]
      BY <1>2
    <3>2. (a \o b)[i] = IF i <= Len(a) THEN a[i] ELSE b[i - Len(a)]
      BY <2>4, <2>5
    <3>3. CASE i <= Len(s)
      BY <1>1, <2>2, <2>3, <3>1, <3>2, <3>3 DEF a
    <3>4. CASE i = Len(s) + 1
      BY <1>1, <2>2, <2>3, <3>1, <3>2, <3>4 DEF a
    <3>5. CASE i > Len(s) + 1
      <4>1. i - Len(a) \in 1..Len(t) - 1 /\ (i - Len(a)) + 1 = i - Len(s)
        BY <1>1, <2>3, <3>5
      <4>2. b[i - Len(a)] = t[i - Len(s)]
        BY <2>1, <4>1 DEF b
      <4> QED BY <1>1, <2>3, <3>1, <3>2, <3>5, <4>2
    <3>6. i <= Len(s) \/ i = Len(s) + 1 \/ i > Len(s) + 1
      BY <1>1
    <3> QED BY <3>3, <3>4, <3>5, <3>6, Zenon
  <2>7. a \o b = s \o t
    BY <1>2, <2>4, <2>5, <2>6, SeqEqual
  <2> QED BY <2>7 DEF a, b
<1> QED BY <1>2, <1>3, <1>4

LEMMA OrderNext == TypeInv /\ MapInv /\ Ordered /\ [Next]_vars => Ordered'
<1> SUFFICES ASSUME TypeInv, MapInv, Ordered, [Next]_vars, NEW c \in Consumers
             PROVE  InOrder(Sent(c))' /\ Numbers(c)'
  BY DEF Ordered
<1> USE DEF bvars, ivars
<1>1. /\ got[c] \in Seq(Messages) /\ chan[c] \in Seq(Messages) /\ Sent(c) \in Seq(Messages)
      /\ Len(Sent(c)) \in Nat /\ InOrder(Sent(c)) /\ Numbers(c)
      /\ \A b \in Broadcasters : count[b] \in Nat
  BY SentGrows, LenProperties, BroadcastAssumption DEF Sent, Ordered, TypeInv, TypeOK
<1>2. \A i \in 1..Len(Sent(c)) : Sent(c)[i][1] \in Broadcasters /\ Sent(c)[i][2] \in Nat
  <2>1. \A i \in 1..Len(Sent(c)) : Sent(c)[i] \in Messages
    BY <1>1, ElementOfSeq
  <2> QED BY <2>1, BroadcastAssumption DEF Messages
<1>3. ASSUME Sent(c)' = Sent(c), UNCHANGED count,
             \A b \in Broadcasters : bpc'[b] = "lock" \/ c \in todo'[b] => bpc[b] = "lock" \/ c \in todo[b]
      PROVE  InOrder(Sent(c))' /\ Numbers(c)'
  <2>1. InOrder(Sent(c))'
    BY <1>1, <1>3 DEF InOrder
  <2>2. ASSUME NEW i \in 1..Len(Sent(c)), NEW b \in Broadcasters, Sent(c)[i][1] = b
        PROVE  /\ Sent(c)[i][2] <= count'[b]
               /\ bpc'[b] = "lock" \/ c \in todo'[b] => Sent(c)[i][2] < count'[b]
    BY <1>1, <1>3, <2>2 DEF Numbers
  <2>3. Numbers(c)'
    BY <1>2, <1>3, <2>2 DEF Numbers
  <2> QED BY <2>1, <2>3
<1>4. ASSUME NEW d \in Broadcasters, BroadcastBegin(d) PROVE InOrder(Sent(c))' /\ Numbers(c)'
  <2>1. /\ Sent(c)' = Sent(c) /\ todo' = todo
        /\ \A b \in Broadcasters : /\ count'[b] = IF b = d THEN count[b] + 1 ELSE count[b]
                                   /\ b # d => bpc'[b] = bpc[b]
    BY <1>4 DEF BroadcastBegin, Sent, TypeInv, TypeOK
  <2> QED BY <1>1, <1>2, <2>1 DEF InOrder, Numbers
<1>5. ASSUME NEW d \in Broadcasters, BroadcastLock(d) \/ BroadcastUnlock(d)
      PROVE  InOrder(Sent(c))' /\ Numbers(c)'
  <2>1. /\ Sent(c)' = Sent(c) /\ UNCHANGED count
        /\ \A b \in Broadcasters \ {d} : bpc'[b] = bpc[b] /\ todo'[b] = todo[b]
        /\ bpc'[d] # "lock" /\ (bpc[d] = "lock" \/ todo'[d] = todo[d])
    BY <1>5 DEF BroadcastLock, BroadcastUnlock, Sent, TypeInv, TypeOK
  <2> QED BY <1>3, <2>1
<1>6. ASSUME NEW d \in Broadcasters, BroadcastSend(d) PROVE InOrder(Sent(c))' /\ Numbers(c)'
  <2>1. PICK e \in todo[d] :
          /\ todo' = [todo EXCEPT ![d] = @ \ {e}]
          /\ IF HasRoom(e)
             THEN chan' = [chan EXCEPT ![e] = Append(@, <<d, count[d]>>)]
             ELSE UNCHANGED chan
    BY <1>6 DEF BroadcastSend, Left
  <2>2. bpc[d] = "send" /\ UNCHANGED <<bpc, count, got>>
    BY <1>6 DEF BroadcastSend
  <2>3. \A b \in Broadcasters : todo'[b] = IF b = d THEN todo[b] \ {e} ELSE todo[b]
    BY <2>1 DEF TypeInv, TypeOK
  <2>4. CASE chan'[c] = chan[c]
    BY <1>3, <2>2, <2>3, <2>4 DEF Sent
  <2>5. CASE e = c /\ HasRoom(c)
    <3> DEFINE m == <<d, count[d]>>
    <3>1. m \in Messages /\ m[1] = d /\ m[2] = count[d]
      BY <1>1, <2>2, BroadcastAssumption DEF Messages, TypeInv, TypeOK, Numbered
    <3>2. chan'[c] = Append(chan[c], m) /\ got'[c] = got[c]
      BY <2>1, <2>2, <2>5 DEF TypeInv, TypeOK
    <3> HIDE DEF m
    <3>3. /\ Len(Sent(c)') = Len(Sent(c)) + 1 /\ Sent(c)'[Len(Sent(c)) + 1] = m
          /\ \A i \in 1..Len(Sent(c)) : Sent(c)'[i] = Sent(c)[i]
      <4>1. Sent(c)' = got[c] \o Append(chan[c], m)
        BY <3>2 DEF Sent
      <4> DEFINE s == got[c]  t == chan[c]
      <4>2. s \in Seq(Messages) /\ t \in Seq(Messages)
        BY <1>1
      <4> HIDE DEF s, t
      <4>3. /\ Len(s \o Append(t, m)) = Len(s \o t) + 1 /\ (s \o Append(t, m))[Len(s \o t) + 1] = m
            /\ \A i \in 1..Len(s \o t) : (s \o Append(t, m))[i] = (s \o t)[i]
        BY <3>1, <4>2, SentGrows
      <4> QED BY <4>1, <4>3 DEF Sent, s, t
    <3>4. \A i \in 1..Len(Sent(c)') : i \in 1..Len(Sent(c)) \/ i = Len(Sent(c)) + 1
      BY <1>1, <3>3
    <3>5. \A i \in 1..Len(Sent(c)) : Sent(c)[i][1] = d => Sent(c)[i][2] < count[d]
      BY <1>1, <2>1, <2>5 DEF Numbers
    <3>6. InOrder(Sent(c))'
      <4> SUFFICES ASSUME NEW i \in 1..Len(Sent(c)'), NEW j \in 1..Len(Sent(c)'), i < j,
                          Sent(c)'[i][1] = Sent(c)'[j][1]
                   PROVE  Sent(c)'[i][2] < Sent(c)'[j][2]
        BY DEF InOrder
      <4>1. i \in 1..Len(Sent(c))
        BY <1>1, <3>3
      <4>2. CASE j \in 1..Len(Sent(c))
        BY <1>1, <3>3, <4>1, <4>2 DEF InOrder
      <4>3. CASE j = Len(Sent(c)) + 1
        BY <3>1, <3>3, <3>5, <4>1, <4>3
      <4> QED BY <3>4, <4>2, <4>3
    <3>7. Numbers(c)'
      <4>1. ASSUME NEW i \in 1..Len(Sent(c))
            PROVE  LET b == Sent(c)[i][1] IN
                   /\ Sent(c)[i][2] <= count[b]
                   /\ bpc[b] = "lock" \/ c \in todo'[b] => Sent(c)[i][2] < count[b]
        BY <1>1, <1>2, <2>3 DEF Numbers
      <4>2. /\ m[2] <= count[m[1]] /\ ~(bpc[m[1]] = "lock" \/ c \in todo'[m[1]])
        <5>1. bpc[d] # "lock" /\ c \notin todo'[d] /\ count[d] \in Nat
          BY <1>1, <2>2, <2>3, <2>5
        <5> QED BY <3>1, <5>1
      <4> QED BY <2>2, <3>3, <3>4, <4>1, <4>2 DEF Numbers
    <3> QED BY <3>6, <3>7
  <2>6. chan'[c] = chan[c] \/ (e = c /\ HasRoom(c))
    BY <2>1 DEF TypeInv, TypeOK
  <2> QED BY <2>4, <2>5, <2>6
<1>7. ASSUME NEW d \in Consumers, ConsumerNext(d) PROVE InOrder(Sent(c))' /\ Numbers(c)'
  <2>1. /\ UNCHANGED bvars
        /\ \/ UNCHANGED <<got, chan>>
           \/ /\ chan[d] # <<>> /\ got' = [got EXCEPT ![d] = Append(@, Head(chan[d]))]
              /\ chan' = [chan EXCEPT ![d] = Tail(@)]
    BY <1>7 DEF ConsumerNext, Begin, LockStep, Subscribe, Delete, Close, ExecWrite, SilenceExpires,
       MaxExpires, StallOrReadOn, HangUp, Meanwhile, ExecMessage, ExecPrinted, ExecSilence, ExecTimeout, ExecGone, ExecEnd, SshOutput, Consumer
  <2>2. \/ UNCHANGED <<got[c], chan[c]>>
        \/ /\ chan[c] # <<>> /\ got'[c] = Append(got[c], Head(chan[c])) /\ chan'[c] = Tail(chan[c])
    BY <2>1 DEF TypeInv, TypeOK
  <2>3. chan[c] # <<>> => Append(got[c], Head(chan[c])) \o Tail(chan[c]) = got[c] \o chan[c]
    BY <1>1, SentGrows, Zenon
  <2>4. Sent(c)' = Sent(c)
    BY <2>2, <2>3 DEF Sent
  <2> QED BY <1>3, <2>1, <2>4
<1>8. CASE UNCHANGED vars
  BY <1>3, <1>8 DEF vars, Sent
<1> QED BY <1>4, <1>5, <1>6, <1>7, <1>8 DEF Next, BroadcastStep

LEMMA FaithfulIs ==
    StreamFaithful <=> /\ \A c \in Consumers : InOrder(Sent(c))
                       /\ \A c \in Execs, b \in Broadcasters : Complete(c, b)
BY DEF StreamFaithful, Complete, Received, Sent

LEMMA InitInv == Init => IInv
<1> SUFFICES ASSUME Init PROVE IInv
  OBVIOUS
<1>1. MapInv
  BY HandlerOrder DEF Init, MapInv, Subscribed, Visits
<1>3. Ordered
  <2>1. \A c \in Consumers : Sent(c) = <<>> /\ Len(Sent(c)) = 0
    BY EmptySeq, ConcatEmptySeq DEF Init, Sent
  <2> QED BY <2>1 DEF Ordered, InOrder, Numbers
<1>4. \A c \in Execs, b \in Broadcasters : Complete(c, b)
  BY HandlerOrder DEF Init, Complete, Consumers
<1>5. StreamFaithful
  BY <1>3, <1>4, FaithfulIs DEF Ordered
<1> QED BY <1>1, <1>3, <1>5, TypeInit DEF IInv, MapInv

LEMMA NextInv == IInv /\ [Next]_vars => IInv'
<1> SUFFICES ASSUME IInv, [Next]_vars PROVE IInv'
  OBVIOUS
<1>1. TypeInv' /\ MapInv' /\ Ordered'
  BY TypeNext, MapNext, OrderNext DEF IInv, MapInv
<1>2. StreamFaithful'
  <2>1. \A c \in Execs, b \in Broadcasters : Complete(c, b)'
    BY StreamNext, FaithfulIs DEF IInv, MapInv
  <2> QED BY <1>1, <2>1 DEF Ordered, StreamFaithful, Complete, Received, Sent
<1> QED BY <1>1, <1>2 DEF IInv, MapInv

LEMMA InvariantHolds == Spec => []IInv
BY InitInv, NextInv, PTL DEF Spec

(* However Subscribe, Unsubscribe and any number of broadcasts interleave,  *)
(* no broadcast ever has a closed channel left to visit (session.go's       *)
(* broadcast holds subMu while Unsubscribe waits to delete, then closes).   *)
THEOREM NothingSentOnClosed == Spec => []NoSendOnClosed
<1>1. IInv => NoSendOnClosed
  BY DEF IInv, Subscribed, Visits, TypeInv, TypeOK, NoSendOnClosed
<1> QED BY <1>1, InvariantHolds, PTL

(* Every consumer gets the messages of a broadcaster in order and none      *)
(* twice, however many broadcast at once; and a stream that never had a     *)
(* full channel has been given all since its request was written, up to     *)
(* the one being delivered: exec subscribes before it writes.               *)
THEOREM StreamsAreFaithful == Spec => []StreamFaithful
<1>1. IInv => StreamFaithful
  BY DEF IInv
<1> QED BY <1>1, InvariantHolds, PTL
=============================================================================
