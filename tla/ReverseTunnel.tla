--------------------------- MODULE ReverseTunnel ---------------------------
(***************************************************************************)
(* tunnel.ReverseTunnel with its keepAliveMonitor: run() dials and serves  *)
(* one SSH connection after another; each has a remote listener per        *)
(* forward, one accept goroutine per listener, a bounded acceptCh and an   *)
(* errCh between those and connect(), a monitor, and a forward goroutine   *)
(* per accepted connection.  Stop closes stopCh and waits for the          *)
(* WaitGroup.  Connections are numbered in the order they are made.        *)
(*                                                                         *)
(* The link, the listeners' Accept and Close and the remote users are      *)
(* those of golang.org/x/crypto/ssh and the network, as the code uses      *)
(* them: a request on a silent link waits for its reply until TCP gives    *)
(* the link up, which needs something to be written on it.                 *)
(* killRemotePortHolders is time spent on the link and changes no state of *)
(* the gateway; so is the retry of a failed Listen.  Time is not modelled, *)
(* and with it the back-off interval.                                      *)
(***************************************************************************)
EXTENDS Naturals, Sequences, FiniteSets

CONSTANTS NumForwards,  \* listeners per connection
          Remotes,      \* connections of remote users
          Stuck,        \* those whose target may neither read nor send any more
          AcceptCap,    \* capacity of acceptCh (8 in the code)
          MaxFails,     \* keepAliveMaxFails
          MaxConns      \* bound: SSH connections made in a behaviour

ASSUME ReverseTunnelAssumption ==
    /\ NumForwards \in Nat \ {0} /\ AcceptCap \in Nat \ {0}
    /\ MaxFails \in Nat \ {0} /\ MaxConns \in Nat \ {0}
    /\ IsFiniteSet(Remotes) /\ Stuck \subseteq Remotes

VARIABLES stopped,      \* stopCh is closed
          stop,         \* Stop(): "no", "waiting", "returned"
          wg,           \* counter of the WaitGroup
          run,          \* run() and connect(): where they are
          failed,       \* connect() is returning an error
          conn,         \* number of connections made
          opened,       \* listeners of the current connection open so far
          link,         \* [Conn -> "none", "up", "silent", "broken", "closed"]
          accept,       \* [Conn -> [Fwd -> state of the accept goroutine]]
          acceptCh,     \* [Conn -> queue of remotes]
          errCh,        \* [Conn -> number of errors queued]
          monitor,      \* [Conn -> "none", "watch", "gone"]
          fails,        \* [Conn -> consecutive failed keepalives]
          remote        \* [Remotes -> [at, conn, fwd, copies]]; fwd until it is queued

vars == <<stopped, stop, wg, run, failed, conn, opened, link, accept, acceptCh,
          errCh, monitor, fails, remote>>

Conn == 1..MaxConns
Fwd == 1..NumForwards

Init == /\ stopped = FALSE /\ stop = "no"
        /\ wg = 1                               \* Start: run() is counted
        /\ run = "dial" /\ failed = FALSE
        /\ conn = 0 /\ opened = 0
        /\ link = [k \in Conn |-> "none"]
        /\ accept = [k \in Conn |-> [f \in Fwd |-> "none"]]
        /\ acceptCh = [k \in Conn |-> <<>>]
        /\ errCh = [k \in Conn |-> 0]
        /\ monitor = [k \in Conn |-> "none"]
        /\ fails = [k \in Conn |-> 0]
        /\ remote = [r \in Remotes |-> [at |-> "none", conn |-> 0, fwd |-> 0, copies |-> 0]]

Closed == [at |-> "closed", conn |-> 0, fwd |-> 0, copies |-> 0]
Dead(k) == link[k] \in {"broken", "closed"}

----------------------------------------------------------------------------
(* Stop.                                                                    *)

StopCall == /\ stop = "no"
            /\ stopped' = TRUE
            /\ stop' = "waiting"
            /\ UNCHANGED <<wg, run, failed, conn, opened, link, accept, acceptCh,
                           errCh, monitor, fails, remote>>

Waited == wg = 0

StopReturn == /\ stop = "waiting"
              /\ Waited
              /\ stop' = "returned"
              /\ UNCHANGED <<stopped, wg, run, failed, conn, opened, link, accept,
                             acceptCh, errCh, monitor, fails, remote>>

----------------------------------------------------------------------------
(* run() and connect().                                                     *)

MonitorStart_Never == "gone"                                        \* Mutant
MonitorStart == "watch"

DialSucceeds ==
    /\ run = "dial"
    /\ conn < MaxConns
    /\ conn' = conn + 1
    /\ link' = [link EXCEPT ![conn + 1] = "up"]
    /\ monitor' = [monitor EXCEPT ![conn + 1] = MonitorStart]
    /\ opened' = 0
    /\ run' = "open"
    /\ UNCHANGED <<stopped, stop, wg, failed, accept, acceptCh, errCh, fails, remote>>

(* No authentication method, an unreadable key, or no answer.               *)
DialFails ==
    /\ run = "dial"
    /\ failed' = TRUE
    /\ run' = "returned"
    /\ UNCHANGED <<stopped, stop, wg, conn, opened, link, accept, acceptCh, errCh,
                   monitor, fails, remote>>

(* The last listener opened, one accept goroutine is started for each.      *)
OpenListener ==
    /\ run = "open"
    /\ link[conn] = "up"
    /\ opened' = opened + 1
    /\ IF opened + 1 < NumForwards
       THEN UNCHANGED <<run, wg, accept>>
       ELSE /\ run' = "serve"
            /\ wg' = wg + NumForwards
            /\ accept' = [accept EXCEPT ![conn] = [f \in Fwd |-> "accept"]]
    /\ UNCHANGED <<stopped, stop, failed, conn, link, acceptCh, errCh, monitor, fails, remote>>

(* A listen refused twice, or a mode that is misconfigured.                 *)
OpenFails ==
    /\ run = "open"
    /\ link[conn] # "silent"
    /\ failed' = TRUE
    /\ run' = "teardown"
    /\ UNCHANGED <<stopped, stop, wg, conn, opened, link, accept, acceptCh, errCh,
                   monitor, fails, remote>>

(* The three cases of connect()'s select.                                   *)
SeeStop ==
    /\ run = "serve"
    /\ stopped
    /\ failed' = FALSE
    /\ run' = "teardown"
    /\ UNCHANGED <<stopped, stop, wg, conn, opened, link, accept, acceptCh, errCh,
                   monitor, fails, remote>>

SeeError ==
    /\ run = "serve"
    /\ errCh[conn] > 0
    /\ errCh' = [errCh EXCEPT ![conn] = @ - 1]
    /\ failed' = TRUE
    /\ run' = "teardown"
    /\ UNCHANGED <<stopped, stop, wg, conn, opened, link, accept, acceptCh, monitor,
                   fails, remote>>

ForwardAdds_Nothing == 0                                            \* Mutant
ForwardAdds == 1

Dispatch ==
    /\ run = "serve"
    /\ acceptCh[conn] # <<>>
    /\ wg' = wg + ForwardAdds
    /\ remote' = [remote EXCEPT ![Head(acceptCh[conn])].at = "dialing"]
    /\ acceptCh' = [acceptCh EXCEPT ![conn] = Tail(@)]
    /\ UNCHANGED <<stopped, stop, run, failed, conn, opened, link, accept, errCh,
                   monitor, fails>>

(* The deferred closes: the listeners, each a request that waits for its    *)
(* reply, then the client, with every channel on it.                        *)
ClosesClient_Forgotten == link[conn]                                \* Mutant
ClosesClient == "closed"

Teardown ==
    /\ run = "teardown"
    /\ link[conn] = "silent" => opened = 0
    /\ link' = [link EXCEPT ![conn] = ClosesClient]
    /\ run' = "returned"
    /\ UNCHANGED <<stopped, stop, wg, failed, conn, opened, accept, acceptCh, errCh,
                   monitor, fails, remote>>

(* run() ends when connect() returns nil, or with stopCh closed.            *)
RunAgain_WhenStopped == failed                                      \* Mutant
RunAgain == failed /\ ~stopped

ConnectReturned ==
    /\ run = "returned"
    /\ IF RunAgain
       THEN run' = "sleep" /\ UNCHANGED wg
       ELSE run' = "done" /\ wg' = wg - 1
    /\ UNCHANGED <<stopped, stop, failed, conn, opened, link, accept, acceptCh, errCh,
                   monitor, fails, remote>>

(* time.Sleep: it does not watch stopCh.                                    *)
Wake ==
    /\ run = "sleep"
    /\ run' = "dial"
    /\ UNCHANGED <<stopped, stop, wg, failed, conn, opened, link, accept, acceptCh, errCh,
                   monitor, fails, remote>>

----------------------------------------------------------------------------
(* The accept goroutine of listener f of connection k.                      *)

AcceptRemote(k, f, r) ==
    /\ accept[k][f] = "accept"
    /\ link[k] = "up"
    /\ remote[r].at = "none"
    /\ accept' = [accept EXCEPT ![k][f] = "push"]
    /\ remote' = [remote EXCEPT ![r] = [at |-> "accepted", conn |-> k, fwd |-> f, copies |-> 0]]
    /\ UNCHANGED <<stopped, stop, wg, run, failed, conn, opened, link, acceptCh, errCh,
                   monitor, fails>>

Push(k, f, r) ==
    /\ accept[k][f] = "push"
    /\ remote[r].at = "accepted" /\ remote[r].conn = k /\ remote[r].fwd = f
    /\ \/ /\ Len(acceptCh[k]) < AcceptCap
          /\ acceptCh' = [acceptCh EXCEPT ![k] = Append(@, r)]
          /\ remote' = [remote EXCEPT ![r].at = "queued", ![r].fwd = 0]
          /\ accept' = [accept EXCEPT ![k][f] = "accept"]
          /\ UNCHANGED wg
       \/ /\ stopped
          /\ remote' = [remote EXCEPT ![r] = Closed]
          /\ accept' = [accept EXCEPT ![k][f] = "gone"]
          /\ wg' = wg - 1
          /\ UNCHANGED acceptCh
    /\ UNCHANGED <<stopped, stop, run, failed, conn, opened, link, errCh, monitor, fails>>

(* Accept fails when the link, and with it the listener, has gone.          *)
AcceptFails(k, f) ==
    /\ accept[k][f] = "accept"
    /\ Dead(k)
    /\ IF stopped
       THEN /\ accept' = [accept EXCEPT ![k][f] = "gone"]
            /\ wg' = wg - 1
       ELSE /\ accept' = [accept EXCEPT ![k][f] = "report"]
            /\ UNCHANGED wg
    /\ UNCHANGED <<stopped, stop, run, failed, conn, opened, link, acceptCh, errCh,
                   monitor, fails, remote>>

(* make(chan error, len(listeners)): the send does not watch stopCh.        *)
ErrCap_One == 1                                                     \* Mutant
ErrCap == NumForwards

Report(k, f) ==
    /\ accept[k][f] = "report"
    /\ errCh[k] < ErrCap
    /\ errCh' = [errCh EXCEPT ![k] = @ + 1]
    /\ accept' = [accept EXCEPT ![k][f] = "gone"]
    /\ wg' = wg - 1
    /\ UNCHANGED <<stopped, stop, run, failed, conn, opened, link, acceptCh, monitor,
                   fails, remote>>

----------------------------------------------------------------------------
(* keepAliveMonitor: not counted in the WaitGroup; onDead only logs.        *)

MonitorStops(k) ==
    /\ monitor[k] = "watch"
    /\ stopped
    /\ monitor' = [monitor EXCEPT ![k] = "gone"]
    /\ UNCHANGED <<stopped, stop, wg, run, failed, conn, opened, link, accept, acceptCh,
                   errCh, fails, remote>>

FailsAfter(k) == IF Dead(k) THEN fails[k] + 1 ELSE 0

Probe(k) ==
    /\ monitor[k] = "watch"
    /\ link[k] # "silent"                       \* else it waits for the reply
    /\ fails' = [fails EXCEPT ![k] = FailsAfter(k)]
    /\ monitor' = [monitor EXCEPT ![k] = IF FailsAfter(k) >= MaxFails THEN "gone" ELSE @]
    /\ UNCHANGED <<stopped, stop, wg, run, failed, conn, opened, link, accept, acceptCh,
                   errCh, remote>>

----------------------------------------------------------------------------
(* forward(): dial the target, then two copies, of which the first to end   *)
(* closes both connections; the goroutines that copy are not counted.       *)

TargetAnswers(r) ==
    /\ remote[r].at = "dialing"
    /\ remote' = [remote EXCEPT ![r].at = "copying", ![r].copies = 2]
    /\ UNCHANGED <<stopped, stop, wg, run, failed, conn, opened, link, accept, acceptCh,
                   errCh, monitor, fails>>

TargetFails(r) ==
    /\ remote[r].at = "dialing"
    /\ remote' = [remote EXCEPT ![r] = Closed]
    /\ wg' = wg - 1
    /\ UNCHANGED <<stopped, stop, run, failed, conn, opened, link, accept, acceptCh,
                   errCh, monitor, fails>>

(* One side closes, or the link goes; forward() returns, the other copy     *)
(* notices the closed connection afterwards.  A copy notices that the link  *)
(* has gone when it next reads or writes there: one that waits in a write   *)
(* to the target, or in a read of it, does not before the target acts.      *)
EndForward(r) ==
    /\ remote[r].at = "copying"
    /\ remote' = [remote EXCEPT ![r].at = "closed", ![r].copies = 1]
    /\ wg' = wg - 1
    /\ UNCHANGED <<stopped, stop, run, failed, conn, opened, link, accept, acceptCh,
                   errCh, monitor, fails>>

PeerCloses(r) == EndForward(r)
LinkCuts(r) == remote[r].at = "copying" /\ Dead(remote[r].conn) /\ EndForward(r)

LastCopyEnds(r) ==
    /\ remote[r].at = "closed" /\ remote[r].copies = 1
    /\ remote' = [remote EXCEPT ![r] = Closed]
    /\ UNCHANGED <<stopped, stop, wg, run, failed, conn, opened, link, accept, acceptCh,
                   errCh, monitor, fails>>

----------------------------------------------------------------------------
(* The network: a link can break, or fall silent; a silent one breaks when  *)
(* something written on it is not acknowledged.                             *)

Fault(k) ==
    /\ \/ link[k] = "up" /\ link' = [link EXCEPT ![k] = "silent"]
       \/ link[k] \in {"up", "silent"} /\ link' = [link EXCEPT ![k] = "broken"]
    /\ UNCHANGED <<stopped, stop, wg, run, failed, conn, opened, accept, acceptCh, errCh,
                   monitor, fails, remote>>

Written(k) == monitor[k] = "watch" \/ (k = conn /\ run \in {"open", "teardown"})

GiveUp(k) ==
    /\ link[k] = "silent"
    /\ Written(k)
    /\ link' = [link EXCEPT ![k] = "broken"]
    /\ UNCHANGED <<stopped, stop, wg, run, failed, conn, opened, accept, acceptCh, errCh,
                   monitor, fails, remote>>

----------------------------------------------------------------------------
Loop == \/ OpenListener \/ OpenFails
        \/ SeeStop \/ SeeError \/ Dispatch \/ Teardown \/ ConnectReturned \/ Wake

Acceptor(k, f) == \/ AcceptFails(k, f) \/ Report(k, f)
                  \/ \E r \in Remotes : Push(k, f, r)

Monitor(k) == MonitorStops(k) \/ Probe(k)

Dialled(r) == TargetAnswers(r) \/ TargetFails(r)
Forward(r) == Dialled(r) \/ LinkCuts(r) \/ LastCopyEnds(r)

Environment == \/ \E k \in Conn, f \in Fwd, r \in Remotes : AcceptRemote(k, f, r)
               \/ \E r \in Remotes : PeerCloses(r)
               \/ \E k \in Conn : Fault(k)

Next == \/ StopCall \/ StopReturn \/ DialSucceeds \/ DialFails \/ Loop
        \/ \E k \in Conn, f \in Fwd : Acceptor(k, f)
        \/ \E k \in Conn : Monitor(k) \/ GiveUp(k)
        \/ \E r \in Remotes : Forward(r)
        \/ Environment

Spec == Init /\ [][Next]_vars

(* The scheduler runs every goroutine that can run; a dial and a sleep end; *)
(* select chooses at random, so a case that stays ready is chosen.  Nothing *)
(* is assumed of Stop's caller, the remote users or the network, but that   *)
(* TCP gives up a silent link that is written to; and of the targets only   *)
(* that those of users that are not Stuck read or send now and then.        *)
Fairness ==
    /\ WF_vars(StopReturn) /\ WF_vars(DialSucceeds \/ DialFails)
    /\ WF_vars(Loop) /\ SF_vars(SeeStop) /\ SF_vars(SeeError)
    /\ \A k \in Conn : /\ WF_vars(Monitor(k)) /\ WF_vars(GiveUp(k))
                       /\ \A f \in Fwd : WF_vars(Acceptor(k, f))
    /\ \A r \in Remotes : WF_vars(Dialled(r)) /\ WF_vars(LastCopyEnds(r))
    /\ \A r \in Remotes \ Stuck : WF_vars(LinkCuts(r))

FairSpec == Spec /\ Fairness

----------------------------------------------------------------------------
Acceptors == {p \in Conn \X Fwd : accept[p[1]][p[2]] \in {"accept", "push", "report"}}
Forwards == {r \in Remotes : remote[r].at \in {"dialing", "copying"}}

Types ==
    /\ stopped \in BOOLEAN /\ stop \in {"no", "waiting", "returned"}
    /\ run \in {"dial", "open", "serve", "teardown", "returned", "sleep", "done"}
    /\ failed \in BOOLEAN /\ conn \in 0..MaxConns /\ opened \in 0..NumForwards
    /\ link \in [Conn -> {"none", "up", "silent", "broken", "closed"}]
    /\ accept \in [Conn -> [Fwd -> {"none", "accept", "push", "report", "gone"}]]
    /\ acceptCh \in [Conn -> Seq(Remotes)]
    /\ \A k \in Conn : Len(acceptCh[k]) <= AcceptCap
    /\ errCh \in [Conn -> 0..NumForwards]
    /\ monitor \in [Conn -> {"none", "watch", "gone"}]
    /\ fails \in [Conn -> 0..MaxFails]
    /\ remote \in [Remotes -> [at : {"none", "accepted", "queued", "dialing", "copying", "closed"},
                               conn : 0..MaxConns, fwd : 0..NumForwards, copies : 0..2]]

(* The types; the counter of the WaitGroup counts exactly the goroutines of *)
(* run(), the acceptors and the forwards (reverse.go:68,80,201-203,         *)
(* 234-236): never negative, which would panic, and never too high, on      *)
(* which Stop would wait for ever.                                          *)
TypeOK ==
    /\ Types
    /\ wg = (IF run = "done" THEN 0 ELSE 1) + Cardinality(Acceptors) + Cardinality(Forwards)

(* A goroutine that reports its listener's failure never waits: connect()   *)
(* may have returned, and nobody would ever read errCh (reverse.go:197,211).*)
ReportNeverBlocks ==
    \A k \in Conn, f \in Fwd : accept[k][f] = "report" => errCh[k] < ErrCap

Held == {k \in Conn : link[k] \in {"up", "silent", "broken"}}
Active == (IF run = "done" THEN {} ELSE {<<"run", 0>>})
          \cup {"accept"} \X Acceptors \cup {"forward"} \X Forwards

(* ReverseTunnel is a Tunnel: every connection is closed before the next    *)
(* dial, whatever ended it; acceptors and forwards are only started by      *)
(* goroutines that are counted themselves, connect() doing so while Stop    *)
(* already waits; and Stop returns after the last of them                   *)
(* (reverse.go:72-77, 134, 168-172, 201, 225-243).                          *)
Abstract == INSTANCE Tunnel WITH
    Connections <- Conn,
    Goroutines  <- {"run"} \X {0} \cup {"accept"} \X (Conn \X Fwd) \cup {"forward"} \X Remotes,
    Main        <- <<"run", 0>>,
    held        <- Held,
    active      <- Active
ImplementsTunnel == Abstract!Spec

(* Stop returns, also when it is called while run() sleeps or a goroutine   *)
(* is stuck on a full acceptCh of an earlier connection, or else it waits   *)
(* in the end only for forwards whose target neither reads nor sends, which *)
(* closing the client does not interrupt (reverse.go:215-220, 317-326).     *)
Blocked == {r \in Stuck : remote[r].at = "copying"}
StopReturns ==
    stop = "waiting" ~> [](\/ stop = "returned"
                           \/ Blocked # {} /\ wg = Cardinality(Blocked))

(* A link that has gone, silently too, does not leave the tunnel "connected *)
(* forever while every forward is dead" (reverse.go:138-139).               *)
DeadLinkIsReplaced ==
    \A k \in Conn : link[k] = "silent" /\ run = "serve" /\ conn = k ~> run # "serve"

----------------------------------------------------------------------------
(* What the documents say and the code does not guarantee.                 *)

(* "The loop terminates under two conditions: ... or `stopCh` is closed     *)
(* during the backoff wait" (23-reverse-ssh-tunnel-...md:99).               *)
StopEndsBackoff == [][run = "sleep" /\ run' = "dial" => ~stopped]_vars

(* "Any in-flight `forward()` goroutines continue until their connections   *)
(* naturally close - there is no forced interruption of active data         *)
(* transfers" (23-...md:217), said of a Stop: connect() closes the client.  *)
NoForcedInterruption ==
    \A r \in Remotes :
        stopped /\ ~failed /\ remote[r].at = "copying" => link[remote[r].conn] # "closed"

(* "ensuring `Stop()` waits for all in-flight connections to drain"         *)
(* (23-...md:168): a target that neither reads nor sends never drains, and  *)
(* main() calls the Stops before it shuts the mappings down.                *)
ConnectionsDrain == stop = "waiting" ~> stop = "returned"

(* "`t.wg.Wait()` in `Stop()` blocks until all goroutines have exited,      *)
(* ensuring no leaked resources" (23-...md:218).                            *)
StopLeavesNothing ==
    stop = "returned" => /\ \A k \in Conn : monitor[k] # "watch"
                         /\ \A r \in Remotes : remote[r].copies = 0
=============================================================================
