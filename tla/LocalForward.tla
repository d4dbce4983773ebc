---------------------------- MODULE LocalForward ----------------------------
(***************************************************************************)
(* tunnel.LocalForward: run() calls serve(), which dials, listens on a     *)
(* local port, starts three helpers that Stop does not wait for and        *)
(* accepts until the listener is closed under it; each accepted user is    *)
(* served by handle() in a goroutine of the WaitGroup.  The helpers of a   *)
(* connection are the goroutine that waits for stopCh, the one that waits  *)
(* for the client to end (both close the listener) and keepAliveMonitor.   *)
(* They may outlive their connection, so connections are numbered.         *)
(*                                                                         *)
(* The client is golang.org/x/crypto/ssh as the code uses it: a request on *)
(* a silent link waits, until the client is closed or TCP gives the link   *)
(* up, which needs something to be written on it; the probes of the        *)
(* monitor are (ReverseTunnel counts them).  Time and the back-off         *)
(* interval are left out.                                                  *)
(***************************************************************************)
EXTENDS Naturals, FiniteSets

CONSTANTS Users,        \* connections to the local port
          Stuck,        \* those that may neither read nor send any more
          MaxConns      \* bound: SSH connections made in a behaviour

ASSUME LocalForwardAssumption ==
    MaxConns \in Nat /\ IsFiniteSet(Users) /\ Stuck \subseteq Users

VARIABLES stopped,      \* stopCh is closed
          stop,         \* Stop(): "no", "waiting", "returned"
          wg,           \* counter of the WaitGroup
          run,          \* where run() and serve() are
          failed,       \* serve() returns an error
          conn,         \* number of connections made
          link,         \* client of a connection
          listener,     \* local listener of a connection
          helpers,      \* helpers of a connection that run
          at, via       \* of a user: where handle() is, and its connection

svars == <<stopped, stop>>
rvars == <<run, failed, conn>>
cvars == <<link, listener, helpers>>
uvars == <<at, via>>
vars == <<svars, wg, rvars, cvars, uvars>>

Conn == 1..MaxConns
Dead(k) == link[k] \in {"broken", "closed"}

Init ==
    /\ stopped = FALSE /\ stop = "no"
    /\ wg = 1                                   \* Start: run() is counted
    /\ run = "dial" /\ failed = FALSE /\ conn = 0
    /\ link = [k \in Conn |-> "none"] /\ listener = [k \in Conn |-> "none"]
    /\ helpers = [k \in Conn |-> {}]
    /\ at = [u \in Users |-> "none"] /\ via = [u \in Users |-> 0]

-----------------------------------------------------------------------------
StopCall ==
    /\ stop = "no" /\ stop' = "waiting" /\ stopped' = TRUE
    /\ UNCHANGED <<wg, rvars, cvars, uvars>>

StopReturn ==
    /\ stop = "waiting" /\ wg = 0 /\ stop' = "returned"
    /\ UNCHANGED <<stopped, wg, rvars, cvars, uvars>>

-----------------------------------------------------------------------------
(* run() and serve().                                                       *)

DialSucceeds ==
    /\ run = "dial" /\ conn < MaxConns
    /\ conn' = conn + 1 /\ link' = [link EXCEPT ![conn + 1] = "up"]
    /\ run' = "listen"
    /\ UNCHANGED <<svars, wg, failed, listener, helpers, uvars>>

(* No authentication method, an unreadable key, or no answer.               *)
DialFails ==
    /\ run = "dial" /\ run' = "returned" /\ failed' = TRUE
    /\ UNCHANGED <<svars, wg, conn, cvars, uvars>>

Listen ==
    /\ run = "listen" /\ run' = "accept"
    /\ listener' = [listener EXCEPT ![conn] = "open"]
    /\ helpers' = [helpers EXCEPT ![conn] = {"stop", "ssh", "alive"}]
    /\ UNCHANGED <<svars, wg, failed, conn, link, uvars>>

ListenFails ==                                  \* the port is taken
    /\ run = "listen" /\ run' = "close" /\ failed' = TRUE
    /\ UNCHANGED <<svars, wg, conn, cvars, uvars>>

ForwardAdds_Late == 0                                       \* Mutant
ForwardAdds == 1

AcceptUser(u) ==
    /\ run = "accept" /\ listener[conn] = "open" /\ at[u] = "none"
    /\ at' = [at EXCEPT ![u] = "dial"] /\ via' = [via EXCEPT ![u] = conn]
    /\ wg' = wg + ForwardAdds
    /\ UNCHANGED <<svars, rvars, cvars>>

(* The listener is closed, or Accept fails for want of a descriptor.        *)
AcceptFails ==
    /\ run = "accept" /\ run' = "close"
    /\ failed' = ~stopped
    /\ UNCHANGED <<svars, wg, conn, cvars, uvars>>

(* The deferred closes of what serve() had opened.                          *)
ClosesClient_NotOnListenFailure ==                          \* Mutant
    IF listener[conn] = "none" THEN link[conn] ELSE "closed"
ClosesClient == "closed"

Close ==
    /\ run = "close" /\ run' = "returned"
    /\ link' = [link EXCEPT ![conn] = ClosesClient]
    /\ listener' = [listener EXCEPT ![conn] = IF @ = "open" THEN "closed" ELSE @]
    /\ UNCHANGED <<svars, wg, failed, conn, helpers, uvars>>

ServeReturned ==
    /\ run = "returned"
    /\ IF failed /\ ~stopped
       THEN run' = "sleep" /\ UNCHANGED wg
       ELSE run' = "done" /\ wg' = wg - 1
    /\ UNCHANGED <<svars, failed, conn, cvars, uvars>>

Wake ==                                         \* time.Sleep: it does not watch stopCh
    /\ run = "sleep" /\ run' = "dial"
    /\ UNCHANGED <<svars, wg, failed, conn, cvars, uvars>>

-----------------------------------------------------------------------------
(* The helpers of connection k.  shutdown() closes the listener it was made *)
(* with, once.                                                              *)

Shuts_Newest(k) == conn                                     \* Mutant
Shuts(k) == k

HelperEnds(k, h) ==
    /\ h \in helpers[k] /\ helpers' = [helpers EXCEPT ![k] = @ \ {h}]
    /\ UNCHANGED <<svars, wg, rvars, link, uvars>>

Shutdown(k) ==
    listener' = [listener EXCEPT ![Shuts(k)] = IF @ = "open" THEN "closed" ELSE @]

StopWatcher_Missing(k) == FALSE                             \* Mutant
StopWatcher(k) == stopped /\ Shutdown(k) /\ HelperEnds(k, "stop")

SshWatcher_Missing(k) == FALSE                                 \* Mutant
SshWatcher(k) == Dead(k) /\ Shutdown(k) /\ HelperEnds(k, "ssh")

Monitor(k) == (stopped \/ Dead(k)) /\ UNCHANGED listener /\ HelperEnds(k, "alive")

-----------------------------------------------------------------------------
(* handle() of user u: dial the target through the client, then two copies, *)
(* of which the first to end has both connections closed.  A copy notices   *)
(* that the link has gone when it next reads or writes there: one that      *)
(* waits in a write to the user, or in a read, does not before the user     *)
(* acts.                                                                    *)

Handle(u, from, to) ==
    /\ at[u] = from /\ at' = [at EXCEPT ![u] = to]
    /\ UNCHANGED <<svars, rvars, cvars, via>>

TargetAnswers(u) == Handle(u, "dial", "copy") /\ link[via[u]] = "up" /\ UNCHANGED wg

TargetFails(u) == Handle(u, "dial", "gone") /\ link[via[u]] # "silent" /\ wg' = wg - 1

EndCopy(u) == Handle(u, "copy", "closing") /\ wg' = wg - 1

PeerCloses(u) == EndCopy(u)
LinkCuts(u) == EndCopy(u) /\ Dead(via[u])

LastCopyEnds(u) == Handle(u, "closing", "gone") /\ UNCHANGED wg

-----------------------------------------------------------------------------
(* The network.                                                             *)

Link(k, to) ==
    /\ link' = [link EXCEPT ![k] = to]
    /\ UNCHANGED <<svars, wg, rvars, listener, helpers, uvars>>

Fault(k) ==
    \/ link[k] = "up" /\ Link(k, "silent")
    \/ link[k] \in {"up", "silent"} /\ Link(k, "broken")

GiveUp(k) == link[k] = "silent" /\ "alive" \in helpers[k] /\ Link(k, "broken")

-----------------------------------------------------------------------------
Dial == DialSucceeds \/ DialFails
Loop == Listen \/ ListenFails \/ Close \/ ServeReturned \/ Wake
Woken == AcceptFails /\ listener[conn] = "closed"

Helper(k) == StopWatcher(k) \/ SshWatcher(k) \/ Monitor(k)
Dialled(u) == TargetAnswers(u) \/ TargetFails(u)
Forward(u) == Dialled(u) \/ LinkCuts(u) \/ LastCopyEnds(u)

Next ==
    \/ StopCall \/ StopReturn \/ Dial \/ Loop \/ AcceptFails
    \/ \E u \in Users : AcceptUser(u) \/ Forward(u) \/ PeerCloses(u)
    \/ \E k \in Conn : Helper(k) \/ Fault(k) \/ GiveUp(k)

Spec == Init /\ [][Next]_vars

(* Goroutines that can run do, a dial and a sleep end, and TCP gives up a   *)
(* silent link that is written to.  Nothing is assumed of Stop's caller,    *)
(* the targets or the network, and of the users only that those that are    *)
(* not Stuck read or send now and then.                                     *)
Fairness ==
    /\ WF_vars(StopReturn) /\ WF_vars(Dial) /\ WF_vars(Loop) /\ WF_vars(Woken)
    /\ \A k \in Conn : /\ WF_vars(StopWatcher(k)) /\ WF_vars(SshWatcher(k))
                       /\ WF_vars(Monitor(k)) /\ WF_vars(GiveUp(k))
    /\ \A u \in Users : WF_vars(Dialled(u)) /\ WF_vars(LastCopyEnds(u))
    /\ \A u \in Users \ Stuck : WF_vars(LinkCuts(u))

FairSpec == Spec /\ Fairness

-----------------------------------------------------------------------------
Serving == {u \in Users : at[u] \in {"dial", "copy"}}

Types ==
    /\ stopped \in BOOLEAN /\ stop \in {"no", "waiting", "returned"}
    /\ run \in {"dial", "listen", "accept", "close", "returned", "sleep", "done"}
    /\ failed \in BOOLEAN /\ conn \in 0..MaxConns
    /\ link \in [Conn -> {"none", "up", "silent", "broken", "closed"}]
    /\ listener \in [Conn -> {"none", "open", "closed"}]
    /\ helpers \in [Conn -> SUBSET {"stop", "ssh", "alive"}]
    /\ at \in [Users -> {"none", "dial", "copy", "closing", "gone"}]
    /\ via \in [Users -> 0..MaxConns]

(* The types; the WaitGroup counts run() and the users that are served, no  *)
(* more (Stop would not return) and no less (it would panic or return too   *)
(* early; localforward.go:53, 65, 181-183).                                 *)
TypeOK ==
    /\ Types
    /\ wg = (IF run = "done" THEN 0 ELSE 1) + Cardinality(Serving)

Held == {k \in Conn : link[k] \in {"up", "silent", "broken"} \/ listener[k] = "open"}
Active == (IF run = "done" THEN {} ELSE {<<"run", 0>>}) \cup {"user"} \X Serving

(* LocalForward is a Tunnel: the client and the listener of a connection    *)
(* are closed on every path before the next is dialled, users are only      *)
(* taken on while run() is counted, and Stop returns after all of them      *)
(* (localforward.go:52-62, 118, 129, 181).                                  *)
Abstract == INSTANCE Tunnel WITH
    Connections <- Conn,
    Goroutines  <- {"run"} \X {0} \cup {"user"} \X Users,
    Main        <- <<"run", 0>>,
    held        <- Held,
    active      <- Active
ImplementsTunnel == Abstract!Spec

(* A helper that was left behind by an earlier connection does no harm: the *)
(* listener that serve() accepts on is closed only because of Stop or the   *)
(* end of its own connection (localforward.go:148-162).                     *)
ClosedForCause ==
    run = "accept" /\ listener[conn] = "closed" => stopped \/ Dead(conn)

(* Stop returns, though run() may sleep or dial once more, or else it waits *)
(* in the end only for users that neither read nor send; and what it does   *)
(* not wait for ends too: the helpers of all connections and the second     *)
(* copy of every forward (localforward.go:142, 152, 159, 199-202).          *)
Blocked == {u \in Stuck : at[u] = "copy"}
StopEndsAll ==
    stop = "waiting" ~> [](/\ \/ stop = "returned"
                              \/ Blocked # {} /\ wg = Cardinality(Blocked)
                           /\ \A k \in Conn : helpers[k] = {}
                           /\ \A u \in Users : at[u] # "closing")

(* A link that has gone, silently too, is replaced: the monitor's writes    *)
(* let TCP notice, and the listener is closed (localforward.go:140-162).    *)
DeadLinkIsReplaced ==
    \A k \in Conn : Dead(k) \/ link[k] = "silent" ~> ~(run = "accept" /\ conn = k)

-----------------------------------------------------------------------------
(* What the documents say and the code does not guarantee.                  *)

(* "The gateway's `main()` function listens for an `os.Interrupt` signal    *)
(* (Ctrl+C) to perform a clean shutdown" (4-running-as-a-background-        *)
(* service.md:112): its Stop of this tunnel waits for ever for a user that  *)
(* neither reads nor sends.                                                 *)
StopAlwaysReturns == stop = "waiting" ~> stop = "returned"
=============================================================================
