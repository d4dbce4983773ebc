------------------------- MODULE LocalForwardProofs -------------------------
(***************************************************************************)
(* Proofs about LocalForward: the WaitGroup is exact, a listener is closed *)
(* for a cause of its own connection, and LocalForward implements Tunnel,  *)
(* for any users and any number of connections.                            *)
(***************************************************************************)
EXTENDS LocalForward, FiniteSetTheorems, TLAPS

(* What is open belongs to the newest connection, while serve() is in it.   *)
Open == {"up", "silent", "broken"}
InServe == run \in {"listen", "accept", "close"}

Current ==
    /\ \A k \in Conn : link[k] \in Open \/ listener[k] = "open" => k = conn /\ InServe
    /\ InServe => conn \in Conn /\ link[conn] \in Open
    /\ run = "accept" => listener[conn] # "none"

IInv == TypeOK /\ Current /\ ClosedForCause

-----------------------------------------------------------------------------
(* The set of users served, after a step that takes one on or ends one.     *)

LEMMA ServingFinite ==
    IsFiniteSet(Serving) /\ Cardinality(Serving) \in Nat
<1>1. IsFiniteSet(Users) BY LocalForwardAssumption
<1>2. Serving \subseteq Users BY DEF Serving
<1> QED BY <1>1, <1>2, FS_Subset, FS_CardinalityType

LEMMA UserAdded ==
    ASSUME Types, NEW u \in Users, at[u] \notin {"dial", "copy"},
           at' = [at EXCEPT ![u] = "dial"]
    PROVE  /\ Serving' = Serving \cup {u}
           /\ Cardinality(Serving') = Cardinality(Serving) + 1
<1>1. Serving' = Serving \cup {u} BY DEF Serving, Types
<1>2. u \notin Serving BY DEF Serving
<1> QED BY <1>1, <1>2, ServingFinite, FS_AddElement

LEMMA UserEnds ==
    ASSUME Types, NEW u \in Users, at[u] \in {"dial", "copy"},
           NEW to \in {"closing", "gone"}, at' = [at EXCEPT ![u] = to]
    PROVE  /\ Serving' = Serving \ {u} /\ u \in Serving
           /\ Cardinality(Serving') = Cardinality(Serving) - 1
<1>1. Serving' = Serving \ {u} BY DEF Serving, Types
<1>2. u \in Serving BY DEF Serving
<1> QED BY <1>1, <1>2, ServingFinite, FS_RemoveElement

LEMMA UserMoves ==
    ASSUME Types, NEW u \in Users, NEW from, NEW to,
           at[u] = from, at' = [at EXCEPT ![u] = to],
           (from \in {"dial", "copy"}) <=> (to \in {"dial", "copy"})
    PROVE  Serving' = Serving
BY DEF Serving, Types

-----------------------------------------------------------------------------
LEMMA InitInv == Init => IInv
<1> SUFFICES ASSUME Init PROVE IInv
  OBVIOUS
<1>1. Types
  <2>1. 0 \in 0..MaxConns BY LocalForwardAssumption
  <2>2. helpers \in [Conn -> SUBSET {"stop", "ssh", "alive"}] BY DEF Init
  <2>3. link \in [Conn -> {"none", "up", "silent", "broken", "closed"}] BY DEF Init
  <2>4. listener \in [Conn -> {"none", "open", "closed"}] BY DEF Init
  <2> QED BY <2>1, <2>2, <2>3, <2>4 DEF Init, Types
<1>2. Serving = {} BY DEF Init, Serving
<1>3. wg = (IF run = "done" THEN 0 ELSE 1) + Cardinality(Serving)
  BY <1>2, FS_EmptySet DEF Init
<1>4. Current BY DEF Init, Current, InServe, Open
<1>5. ClosedForCause BY DEF Init, ClosedForCause
<1> QED BY <1>1, <1>3, <1>4, <1>5 DEF IInv, TypeOK

(* Steps that leave the users alone.                                        *)
LEMMA SameUsers ==
    ASSUME UNCHANGED uvars
    PROVE  Serving' = Serving
BY DEF Serving, uvars

LEMMA StopStep ==
    ASSUME IInv, StopCall \/ StopReturn
    PROVE  IInv'
<1> USE DEF IInv, StopCall, StopReturn
<1>0. Serving' = Serving BY SameUsers DEF uvars
<1>1. Types' BY DEF TypeOK, Types, rvars, cvars, uvars, Conn
<1>2. TypeOK' BY <1>0, <1>1 DEF TypeOK, rvars
<1>3. Current' BY DEF Current, InServe, rvars, cvars
<1>4. ClosedForCause' BY DEF ClosedForCause, Dead, rvars, cvars
<1> QED BY <1>2, <1>3, <1>4

LEMMA RunStep ==
    ASSUME IInv, Dial \/ Loop \/ AcceptFails
    PROVE  IInv'
<1> USE LocalForwardAssumption DEF IInv
<1>0. Serving' = Serving
  BY SameUsers DEF Dial, DialSucceeds, DialFails, Loop, Listen, ListenFails, Close,
                   ServeReturned, Wake, AcceptFails, uvars
<1>c. Cardinality(Serving) \in Nat BY ServingFinite
<1>1. CASE DialSucceeds
  <2>1. Types' BY <1>1 DEF DialSucceeds, TypeOK, Types, svars, uvars, Conn
  <2>2. TypeOK' BY <1>0, <1>1, <2>1 DEF DialSucceeds, TypeOK
  <2>3. conn + 1 \in Conn BY <1>1 DEF DialSucceeds, TypeOK, Types, Conn
  <2>4. Current' BY <1>1, <2>3 DEF DialSucceeds, Current, InServe, Open, TypeOK, Types
  <2>5. ClosedForCause' BY <1>1 DEF DialSucceeds, ClosedForCause
  <2> QED BY <2>2, <2>4, <2>5
<1>2. CASE DialFails
  <2>1. Types' BY <1>2 DEF DialFails, TypeOK, Types, svars, cvars, uvars, Conn
  <2>2. TypeOK' BY <1>0, <1>2, <2>1 DEF DialFails, TypeOK
  <2>3. Current' BY <1>2 DEF DialFails, Current, InServe, Open, cvars
  <2>4. ClosedForCause' BY <1>2 DEF DialFails, ClosedForCause
  <2> QED BY <2>2, <2>3, <2>4
<1>3. CASE Listen
  <2>0. conn \in Conn BY <1>3 DEF Listen, Current, InServe
  <2>1. Types' BY <1>3, <2>0 DEF Listen, TypeOK, Types, svars, uvars, Conn
  <2>2. TypeOK' BY <1>0, <1>3, <2>1 DEF Listen, TypeOK
  <2>3. Current' BY <1>3, <2>0 DEF Listen, Current, InServe, Open, TypeOK, Types
  <2>4. ClosedForCause' BY <1>3, <2>0 DEF Listen, ClosedForCause, TypeOK, Types
  <2> QED BY <2>2, <2>3, <2>4
<1>4. CASE ListenFails
  <2>1. Types' BY <1>4 DEF ListenFails, TypeOK, Types, svars, cvars, uvars, Conn
  <2>2. TypeOK' BY <1>0, <1>4, <2>1 DEF ListenFails, TypeOK
  <2>3. Current' BY <1>4 DEF ListenFails, Current, InServe, Open, cvars
  <2>4. ClosedForCause' BY <1>4 DEF ListenFails, ClosedForCause
  <2> QED BY <2>2, <2>3, <2>4
<1>5. CASE AcceptFails
  <2>1. Types' BY <1>5 DEF AcceptFails, TypeOK, Types, svars, cvars, uvars, Conn
  <2>2. TypeOK' BY <1>0, <1>5, <2>1 DEF AcceptFails, TypeOK
  <2>3. Current' BY <1>5 DEF AcceptFails, Current, InServe, Open, cvars
  <2>4. ClosedForCause' BY <1>5 DEF AcceptFails, ClosedForCause
  <2> QED BY <2>2, <2>3, <2>4
<1>6. CASE Close
  <2>0. conn \in Conn BY <1>6 DEF Close, Current, InServe
  <2>1. Types' BY <1>6, <2>0 DEF Close, ClosesClient, TypeOK, Types, svars, uvars, Conn
  <2>2. TypeOK' BY <1>0, <1>6, <2>1 DEF Close, TypeOK
  <2>3. Current'
    BY <1>6, <2>0 DEF Close, ClosesClient, Current, InServe, Open, TypeOK, Types
  <2>4. ClosedForCause' BY <1>6 DEF Close, ClosedForCause
  <2> QED BY <2>2, <2>3, <2>4
<1>7. CASE ServeReturned
  <2>1. Types' BY <1>7 DEF ServeReturned, TypeOK, Types, svars, cvars, uvars, Conn
  <2>2. TypeOK' BY <1>0, <1>c, <1>7, <2>1 DEF ServeReturned, TypeOK
  <2>3. Current' BY <1>7 DEF ServeReturned, Current, InServe, Open, cvars
  <2>4. ClosedForCause' BY <1>7 DEF ServeReturned, ClosedForCause
  <2> QED BY <2>2, <2>3, <2>4
<1>8. CASE Wake
  <2>1. Types' BY <1>8 DEF Wake, TypeOK, Types, svars, cvars, uvars, Conn
  <2>2. TypeOK' BY <1>0, <1>8, <2>1 DEF Wake, TypeOK
  <2>3. Current' BY <1>8 DEF Wake, Current, InServe, Open, cvars
  <2>4. ClosedForCause' BY <1>8 DEF Wake, ClosedForCause
  <2> QED BY <2>2, <2>3, <2>4
<1> QED BY <1>1, <1>2, <1>3, <1>4, <1>5, <1>6, <1>7, <1>8 DEF Dial, Loop

LEMMA UserStep ==
    ASSUME IInv, NEW u \in Users, AcceptUser(u) \/ Forward(u) \/ PeerCloses(u)
    PROVE  IInv'
<1> USE LocalForwardAssumption DEF IInv
<1>t. Types BY DEF TypeOK
<1>c. Cardinality(Serving) \in Nat BY ServingFinite
<1>1. CASE AcceptUser(u)
  <2>0. conn \in Conn BY <1>1 DEF AcceptUser, Current, InServe
  <2>1. Types' BY <1>1, <1>t DEF AcceptUser, Types, svars, rvars, cvars, Conn
  <2>2. Cardinality(Serving') = Cardinality(Serving) + 1
    BY <1>1, <1>t, UserAdded DEF AcceptUser
  <2>3. TypeOK' BY <1>1, <1>c, <2>1, <2>2 DEF AcceptUser, ForwardAdds, TypeOK, rvars
  <2>4. Current' BY <1>1 DEF AcceptUser, Current, InServe, Open, rvars, cvars
  <2>5. ClosedForCause' BY <1>1 DEF AcceptUser, ClosedForCause, Dead, svars, rvars, cvars
  <2> QED BY <2>3, <2>4, <2>5
<1>2. ASSUME NEW from, NEW to \in {"copy", "closing", "gone"}, Handle(u, from, to)
      PROVE  Types'
                /\ Current' /\ ClosedForCause' /\ UNCHANGED run
                /\ at[u] = from /\ at' = [at EXCEPT ![u] = to]
  <2>1. at' \in [Users -> {"none", "dial", "copy", "closing", "gone"}]
    BY <1>2, <1>t DEF Handle, Types
  <2>2. Types' BY <1>2, <1>t, <2>1 DEF Handle, Types, svars, rvars, cvars, Conn
  <2>3. Current' BY <1>2 DEF Handle, Current, InServe, Open, rvars, cvars
  <2>4. ClosedForCause' BY <1>2 DEF Handle, ClosedForCause, Dead, svars, rvars, cvars
  <2> QED BY <1>2, <2>2, <2>3, <2>4 DEF Handle, rvars
<1>3. CASE TargetAnswers(u)
  <2>1. /\ Types' /\ Current' /\ ClosedForCause' /\ UNCHANGED run
        /\ at[u] = "dial" /\ at' = [at EXCEPT ![u] = "copy"]
    BY <1>2, <1>3 DEF TargetAnswers
  <2>2. Serving' = Serving BY <1>t, <2>1, UserMoves
  <2>3. TypeOK' BY <1>3, <2>1, <2>2 DEF TargetAnswers, TypeOK
  <2> QED BY <2>1, <2>3
<1>4. ASSUME NEW from \in {"dial", "copy"}, NEW to \in {"closing", "gone"},
             Handle(u, from, to), wg' = wg - 1
      PROVE  IInv'
  <2>1. /\ Types' /\ Current' /\ ClosedForCause' /\ UNCHANGED run
        /\ at[u] = from /\ at' = [at EXCEPT ![u] = to]
    BY <1>2, <1>4
  <2>2. Cardinality(Serving') = Cardinality(Serving) - 1 BY <1>t, <1>4, <2>1, UserEnds
  <2>3. TypeOK' BY <1>4, <1>c, <2>1, <2>2 DEF TypeOK
  <2> QED BY <2>1, <2>3
<1>5. CASE TargetFails(u) BY <1>4, <1>5 DEF TargetFails
<1>6. CASE LinkCuts(u) \/ PeerCloses(u)
  BY <1>4, <1>6 DEF LinkCuts, PeerCloses, EndCopy
<1>7. CASE LastCopyEnds(u)
  <2>1. /\ Types' /\ Current' /\ ClosedForCause' /\ UNCHANGED run
        /\ at[u] = "closing" /\ at' = [at EXCEPT ![u] = "gone"]
    BY <1>2, <1>7 DEF LastCopyEnds
  <2>2. Serving' = Serving BY <1>t, <2>1, UserMoves
  <2>3. TypeOK' BY <1>7, <2>1, <2>2 DEF LastCopyEnds, TypeOK
  <2> QED BY <2>1, <2>3
<1> QED BY <1>1, <1>3, <1>5, <1>6, <1>7 DEF Forward, Dialled

(* A helper closes the listener of its own connection, so serve() sees its  *)
(* listener closed only because of Stop or the end of its connection.       *)
LEMMA HelperStep ==
    ASSUME IInv, NEW k \in Conn, Helper(k)
    PROVE  IInv'
<1> USE LocalForwardAssumption DEF IInv
<1>t. Types BY DEF TypeOK
<1>0. /\ UNCHANGED <<svars, wg, rvars, link, uvars>>
      /\ \E h : helpers' = [helpers EXCEPT ![k] = @ \ {h}]
      /\ \/ listener' = listener
         \/ /\ stopped \/ Dead(k)
            /\ listener' = [listener EXCEPT ![k] = IF @ = "open" THEN "closed" ELSE @]
  BY DEF Helper, StopWatcher, SshWatcher, Monitor, HelperEnds, Shutdown, Shuts
<1>1. Serving' = Serving BY <1>0, SameUsers
<1>2. helpers' \in [Conn -> SUBSET {"stop", "ssh", "alive"}] BY <1>t, <1>0 DEF Types
<1>3. listener' \in [Conn -> {"none", "open", "closed"}] BY <1>t, <1>0 DEF Types
<1>4. Types' BY <1>t, <1>0, <1>2, <1>3 DEF Types, svars, rvars, uvars, Conn
<1>5. TypeOK' BY <1>0, <1>1, <1>4 DEF TypeOK, rvars
<1>6. Current' BY <1>t, <1>0 DEF Current, InServe, Open, Types, rvars
<1>7. ClosedForCause'
  <2>1. CASE listener' = listener
    BY <1>0, <2>1 DEF ClosedForCause, Dead, svars, rvars
  <2>2. CASE /\ stopped \/ Dead(k)
             /\ listener' = [listener EXCEPT ![k] = IF @ = "open" THEN "closed" ELSE @]
    <3>1. conn' = conn /\ run' = run /\ link' = link /\ stopped' = stopped
      BY <1>0 DEF svars, rvars
    <3>2. k # conn => listener'[conn] = listener[conn]
      BY <1>t, <2>2 DEF Types
    <3> QED BY <2>2, <3>1, <3>2 DEF ClosedForCause, Dead
  <2> QED BY <1>0, <2>1, <2>2
<1> QED BY <1>5, <1>6, <1>7

LEMMA NetworkStep ==
    ASSUME IInv, NEW k \in Conn, Fault(k) \/ GiveUp(k)
    PROVE  IInv'
<1> USE LocalForwardAssumption DEF IInv
<1>t. Types BY DEF TypeOK
<1>0. /\ UNCHANGED <<svars, wg, rvars, listener, helpers, uvars>>
      /\ link[k] \in {"up", "silent"}
      /\ \E to \in {"silent", "broken"} : link' = [link EXCEPT ![k] = to]
  BY DEF Fault, GiveUp, Link
<1>1. Serving' = Serving BY <1>0, SameUsers
<1>2. link' \in [Conn -> {"none", "up", "silent", "broken", "closed"}]
  BY <1>t, <1>0 DEF Types
<1>3. Types' BY <1>t, <1>0, <1>2 DEF Types, svars, rvars, uvars, Conn
<1>4. TypeOK' BY <1>0, <1>1, <1>3 DEF TypeOK, rvars
<1>5. Current' BY <1>t, <1>0 DEF Current, InServe, Open, Types, rvars
<1>6. \A j \in Conn : Dead(j) => Dead(j)' BY <1>t, <1>0 DEF Dead, Types
<1>7. run = "accept" => conn \in Conn BY DEF Current, InServe
<1>8. ClosedForCause' BY <1>0, <1>6, <1>7 DEF ClosedForCause, svars, rvars
<1> QED BY <1>4, <1>5, <1>8

LEMMA NextInv == IInv /\ [Next]_vars => IInv'
<1> SUFFICES ASSUME IInv, [Next]_vars PROVE IInv'
  OBVIOUS
<1>1. CASE UNCHANGED vars
  BY <1>1 DEF IInv, TypeOK, Types, Serving, Current, InServe, ClosedForCause, Dead, vars,
              svars, rvars, cvars, uvars
<1>2. CASE Next
  BY <1>2, StopStep, RunStep, UserStep, HelperStep, NetworkStep DEF Next
<1> QED BY <1>1, <1>2

THEOREM InvariantHolds == Spec => []IInv
BY InitInv, NextInv, PTL DEF Spec

(* The WaitGroup that Stop waits for counts run() and every user that is    *)
(* served, exactly.                                                         *)
THEOREM TypeCorrect == Spec => []TypeOK
<1>1. IInv => TypeOK BY DEF IInv
<1> QED BY <1>1, InvariantHolds, PTL

(* A helper left behind by an earlier connection closes nothing that is in  *)
(* use.                                                                     *)
THEOREM ListenerClosedForCause == Spec => []ClosedForCause
<1>1. IInv => ClosedForCause BY DEF IInv
<1> QED BY <1>1, InvariantHolds, PTL
-----------------------------------------------------------------------------
(* Refinement: each step is a step of Tunnel or leaves what it sees alone.  *)

Run == <<"run", 0>>

LEMMA HeldIs ==
    ASSUME IInv
    PROVE  Held = IF InServe THEN {conn} ELSE {}
BY DEF Held, IInv, Current, Open

LEMMA HeldWillBe ==
    ASSUME IInv'
    PROVE  Held' = IF InServe' THEN {conn'} ELSE {}
BY DEF Held, IInv, Current, Open

LEMMA RunIsActive ==
    ASSUME run # "done"
    PROVE  Run \in Active
BY DEF Active, Run

LEMMA SameActive ==
    ASSUME Serving' = Serving, (run' = "done") <=> (run = "done")
    PROVE  Active' = Active
BY DEF Active

LEMMA InitRefines == Init => Abstract!Init
<1> SUFFICES ASSUME Init PROVE Abstract!Init
  OBVIOUS
<1>1. Held = {} BY DEF Init, Held
<1>2. Serving = {} /\ run = "dial" BY DEF Init, Serving
<1>3. Active = {Run} BY <1>2 DEF Active, Run
<1> QED BY <1>1, <1>3 DEF Init, Abstract!Init, Run

LEMMA StopRefines ==
    ASSUME IInv, IInv', StopCall \/ StopReturn
    PROVE  Abstract!Next
<1>1. Serving' = Serving /\ run' = run
  BY SameUsers DEF StopCall, StopReturn, rvars, uvars
<1>2. Active' = Active BY <1>1, SameActive
<1>3. Held' = Held BY DEF StopCall, StopReturn, Held, rvars, cvars
<1>4. CASE StopCall
  BY <1>2, <1>3, <1>4 DEF StopCall, Abstract!Next, Abstract!StopCall
<1>5. CASE StopReturn
  <2>1. Cardinality(Serving) \in Nat BY ServingFinite
  <2>2. run = "done" /\ Cardinality(Serving) = 0
    BY <1>5, <2>1 DEF StopReturn, IInv, TypeOK
  <2>3. Serving = {} BY <2>2, ServingFinite, FS_EmptySet
  <2>4. Active = {} BY <2>2, <2>3 DEF Active
  <2>5. Held = {} BY <2>2, HeldIs DEF InServe
  <2> QED
    BY <1>2, <1>3, <1>5, <2>4, <2>5 DEF StopReturn, Abstract!Next, Abstract!StopReturn
<1> QED BY <1>4, <1>5

LEMMA RunRefines ==
    ASSUME IInv, IInv', Dial \/ Loop \/ AcceptFails
    PROVE  [Abstract!Next]_Abstract!vars
<1>0. Serving' = Serving /\ stop' = stop
  BY SameUsers DEF Dial, DialSucceeds, DialFails, Loop, Listen, ListenFails, Close,
                   ServeReturned, Wake, AcceptFails, svars, uvars
<1>h. Held = (IF InServe THEN {conn} ELSE {})
      /\ Held' = IF InServe' THEN {conn'} ELSE {}
  BY HeldIs, HeldWillBe
<1>1. CASE DialSucceeds
  <2>1. Active' = Active /\ Run \in Active
    BY <1>0, <1>1, SameActive, RunIsActive DEF DialSucceeds
  <2>2. Held = {} /\ Held' = {conn + 1} BY <1>1, <1>h DEF DialSucceeds, InServe
  <2>3. conn + 1 \in Conn
    BY <1>1, LocalForwardAssumption DEF DialSucceeds, IInv, TypeOK, Types, Conn
  <2> QED BY <1>0, <2>1, <2>2, <2>3 DEF Abstract!Next, Abstract!Connect, Run
<1>2. CASE DialFails \/ Listen \/ ListenFails \/ AcceptFails \/ Wake
  <2>1. Active' = Active
    BY <1>0, <1>2, SameActive DEF DialFails, Listen, ListenFails, AcceptFails, Wake
  <2>2. Held' = Held
    BY <1>2, <1>h DEF DialFails, Listen, ListenFails, AcceptFails, Wake, InServe
  <2> QED BY <1>0, <2>1, <2>2 DEF Abstract!vars
<1>3. CASE Close
  <2>1. Active' = Active BY <1>0, <1>3, SameActive DEF Close
  <2>2. Held # {} /\ Held' = {} BY <1>3, <1>h DEF Close, InServe
  <2> QED BY <1>0, <2>1, <2>2 DEF Abstract!Next, Abstract!Disconnect
<1>4. CASE ServeReturned
  <2>1. Held' = Held BY <1>4, <1>h DEF ServeReturned, InServe
  <2>2. CASE run' = "sleep"
    <3>1. Active' = Active BY <1>0, <1>4, <2>2, SameActive DEF ServeReturned
    <3> QED BY <1>0, <2>1, <3>1 DEF Abstract!vars
  <2>3. CASE run' = "done"
    <3>1. run # "done" BY <1>4 DEF ServeReturned
    <3>2. Active' = Active \ {Run} BY <1>0, <2>3, <3>1 DEF Active, Run
    <3>3. Run \in Active BY <3>1, RunIsActive
    <3> QED BY <1>0, <2>1, <3>2, <3>3 DEF Abstract!Next, Abstract!Finish
  <2> QED BY <1>4, <2>2, <2>3 DEF ServeReturned
<1> QED BY <1>1, <1>2, <1>3, <1>4 DEF Dial, Loop

LEMMA UserRefines ==
    ASSUME IInv, IInv', NEW u \in Users, AcceptUser(u) \/ Forward(u) \/ PeerCloses(u)
    PROVE  [Abstract!Next]_Abstract!vars
<1>t. Types BY DEF IInv, TypeOK
<1>0. stop' = stop /\ run' = run /\ Held' = Held
  BY DEF AcceptUser, Forward, Dialled, PeerCloses, TargetAnswers, TargetFails, LinkCuts,
         LastCopyEnds, EndCopy, Handle, svars, rvars, cvars, Held
<1>1. CASE AcceptUser(u)
  <2>1. Serving' = Serving \cup {u} BY <1>1, <1>t, UserAdded DEF AcceptUser
  <2>2. Active' = Active \cup {<<"user", u>>} BY <1>0, <2>1 DEF Active
  <2>3. Active # {} BY <1>1, RunIsActive DEF AcceptUser
  <2> QED BY <1>0, <2>2, <2>3 DEF Abstract!Next, Abstract!Spawn
<1>2. CASE TargetAnswers(u) \/ LastCopyEnds(u)
  <2>1. Serving' = Serving
    BY <1>2, <1>t, UserMoves DEF TargetAnswers, LastCopyEnds, Handle
  <2>2. Active' = Active BY <1>0, <2>1, SameActive
  <2> QED BY <1>0, <2>2 DEF Abstract!vars
<1>3. CASE TargetFails(u) \/ LinkCuts(u) \/ PeerCloses(u)
  <2>1. Serving' = Serving \ {u} /\ u \in Serving
    BY <1>3, <1>t, UserEnds DEF TargetFails, LinkCuts, PeerCloses, EndCopy, Handle
  <2>2. Active' = Active \ {<<"user", u>>} /\ <<"user", u>> \in Active
    BY <1>0, <2>1 DEF Active
  <2> QED BY <1>0, <2>2 DEF Abstract!Next, Abstract!Finish
<1> QED BY <1>1, <1>2, <1>3 DEF Forward, Dialled

LEMMA OtherRefines ==
    ASSUME IInv, IInv', NEW k \in Conn, Helper(k) \/ Fault(k) \/ GiveUp(k)
    PROVE  UNCHANGED Abstract!vars
<1>0. UNCHANGED <<svars, rvars, uvars>>
  BY DEF Helper, StopWatcher, SshWatcher, Monitor, HelperEnds, Fault, GiveUp, Link
<1>1. Serving' = Serving BY <1>0, SameUsers
<1>2. Active' = Active BY <1>0, <1>1, SameActive DEF rvars
<1>3. Held' = Held BY <1>0, HeldIs, HeldWillBe DEF InServe, rvars
<1> QED BY <1>0, <1>2, <1>3 DEF Abstract!vars, svars

LEMMA NextRefines == IInv /\ IInv' /\ [Next]_vars => [Abstract!Next]_Abstract!vars
<1> SUFFICES ASSUME IInv, IInv', [Next]_vars PROVE [Abstract!Next]_Abstract!vars
  OBVIOUS
<1>1. CASE UNCHANGED vars
  BY <1>1 DEF vars, svars, rvars, cvars, uvars, Held, Active, Serving, Abstract!vars
<1>2. CASE Next
  BY <1>2, StopRefines, RunRefines, UserRefines, OtherRefines DEF Next
<1> QED BY <1>1, <1>2

(* A local forward is a Tunnel: it gives back the connection and the port   *)
(* before it makes another, and nothing is left when Stop has returned.     *)
THEOREM LocalForwardIsATunnel == Spec => ImplementsTunnel
<1>1. Init => Abstract!Init BY InitRefines
<1>2. IInv /\ IInv' /\ [Next]_vars => [Abstract!Next]_Abstract!vars BY NextRefines
<1> QED BY <1>1, <1>2, InvariantHolds, PTL DEF Spec, ImplementsTunnel, Abstract!Spec
=============================================================================
