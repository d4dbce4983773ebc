------------------------ MODULE ReverseTunnelProofs -------------------------
(***************************************************************************)
(* Proofs about ReverseTunnel: the WaitGroup is exact, the report of a     *)
(* failed listener never blocks, and ReverseTunnel implements Tunnel, for  *)
(* any number of listeners, users and connections.                         *)
(***************************************************************************)
EXTENDS ReverseTunnel, FiniteSetTheorems, SequenceTheorems, TLAPS

(* A client that is not closed is that of the connection connect() is in.   *)
Open == {"up", "silent", "broken"}
InConnect == run \in {"open", "serve", "teardown"}

Current ==
    /\ \A k \in Conn : link[k] \in Open => k = conn /\ InConnect
    /\ InConnect => conn \in Conn /\ link[conn] \in Open

(* Nothing has happened yet on a connection that is still to be made; its   *)
(* acceptors start when the last listener is open.                          *)
Fresh ==
    /\ \A k \in Conn : k > conn => monitor[k] = "none" /\ fails[k] = 0
    /\ \A k \in Conn : k > conn \/ (k = conn /\ run = "open") =>
          \A f \in Fwd : accept[k][f] = "none"
    /\ run = "open" => opened < NumForwards

(* A user is in one queue at most, once, and not served yet.                *)
Queued ==
    \A k \in Conn : \A i \in DOMAIN acceptCh[k] :
        /\ remote[acceptCh[k][i]].at = "queued" /\ remote[acceptCh[k][i]].conn = k
        /\ \A j \in DOMAIN acceptCh[k] : acceptCh[k][i] = acceptCh[k][j] => i = j

(* An error in the queue is the last word of an acceptor.                   *)
Gone(k) == {f \in Fwd : accept[k][f] = "gone"}
Reports == \A k \in Conn : errCh[k] <= Cardinality(Gone(k))

Probes == \A k \in Conn : monitor[k] = "watch" => fails[k] < MaxFails

Rest == Current /\ Fresh /\ Queued /\ Reports /\ Probes
IInv == TypeOK /\ Rest

-----------------------------------------------------------------------------
(* The goroutines counted, after a step that starts, moves or ends one.     *)

LEMMA CountedFinite ==
    /\ IsFiniteSet(Acceptors) /\ Cardinality(Acceptors) \in Nat
    /\ IsFiniteSet(Forwards) /\ Cardinality(Forwards) \in Nat
    /\ IsFiniteSet(Fwd) /\ Cardinality(Fwd) = NumForwards
<1>1. IsFiniteSet(Conn) /\ IsFiniteSet(Fwd) /\ Cardinality(Fwd) = NumForwards
  BY ReverseTunnelAssumption, FS_Interval DEF Conn, Fwd
<1>2. IsFiniteSet(Conn \X Fwd) BY <1>1, FS_Product
<1>3. Acceptors \subseteq Conn \X Fwd /\ Forwards \subseteq Remotes
  BY DEF Acceptors, Forwards
<1> QED BY <1>1, <1>2, <1>3, FS_Subset, FS_CardinalityType, ReverseTunnelAssumption

LEMMA AcceptorMoves ==
    ASSUME Types, NEW k \in Conn, NEW f \in Fwd, NEW to \in {"accept", "push", "report"},
           accept[k][f] \in {"accept", "push", "report"},
           accept' = [accept EXCEPT ![k][f] = to]
    PROVE  Acceptors' = Acceptors
BY DEF Acceptors, Types

LEMMA AcceptorEnds ==
    ASSUME Types, NEW k \in Conn, NEW f \in Fwd,
           accept[k][f] \in {"accept", "push", "report"},
           accept' = [accept EXCEPT ![k][f] = "gone"]
    PROVE  /\ Acceptors' = Acceptors \ {<<k, f>>} /\ <<k, f>> \in Acceptors
           /\ Cardinality(Acceptors') = Cardinality(Acceptors) - 1
<1>1. Acceptors' = Acceptors \ {<<k, f>>} BY DEF Acceptors, Types
<1>2. <<k, f>> \in Acceptors BY DEF Acceptors
<1> QED BY <1>1, <1>2, CountedFinite, FS_RemoveElement

LEMMA AcceptorsStart ==
    ASSUME Types, NEW k \in Conn, \A f \in Fwd : accept[k][f] = "none",
           accept' = [accept EXCEPT ![k] = [f \in Fwd |-> "accept"]]
    PROVE  /\ Acceptors' = Acceptors \cup ({k} \X Fwd)
           /\ Cardinality(Acceptors') = Cardinality(Acceptors) + NumForwards
<1>1. Acceptors' = Acceptors \cup ({k} \X Fwd) BY DEF Acceptors, Types
<1>2. Acceptors \cap ({k} \X Fwd) = {} BY DEF Acceptors
<1>3. IsFiniteSet({k} \X Fwd) /\ Cardinality({k} \X Fwd) = 1 * NumForwards
  <2>1. IsFiniteSet({k}) /\ Cardinality({k}) = 1 BY FS_Singleton
  <2>2. IsFiniteSet(Fwd) /\ Cardinality(Fwd) = NumForwards BY CountedFinite
  <2>3. Cardinality({k} \X Fwd) = Cardinality({k}) * Cardinality(Fwd)
    BY <2>1, <2>2, FS_Product
  <2> QED BY <2>1, <2>2, <2>3, FS_Product
<1>4. Cardinality({k} \X Fwd) = NumForwards BY <1>3, ReverseTunnelAssumption
<1>5. Cardinality(Acceptors \cup ({k} \X Fwd))
         = Cardinality(Acceptors) + Cardinality({k} \X Fwd) - Cardinality({})
  BY <1>2, <1>3, CountedFinite, FS_Union
<1> QED BY <1>1, <1>4, <1>5, CountedFinite, FS_EmptySet, ReverseTunnelAssumption

LEMMA ForwardMoves ==
    ASSUME NEW r \in Remotes, \A q \in Remotes \ {r} : remote'[q] = remote[q],
           remote[r].at \in {"dialing", "copying"}
              <=> remote'[r].at \in {"dialing", "copying"}
    PROVE  Forwards' = Forwards
BY DEF Forwards

LEMMA ForwardStarts ==
    ASSUME NEW r \in Remotes, \A q \in Remotes \ {r} : remote'[q] = remote[q],
           remote[r].at \notin {"dialing", "copying"}, remote'[r].at \in {"dialing", "copying"}
    PROVE  /\ Forwards' = Forwards \cup {r}
           /\ Cardinality(Forwards') = Cardinality(Forwards) + 1
<1>1. Forwards' = Forwards \cup {r} /\ r \notin Forwards BY DEF Forwards
<1> QED BY <1>1, CountedFinite, FS_AddElement

LEMMA ForwardEnds ==
    ASSUME NEW r \in Remotes, \A q \in Remotes \ {r} : remote'[q] = remote[q],
           remote[r].at \in {"dialing", "copying"}, remote'[r].at \notin {"dialing", "copying"}
    PROVE  /\ Forwards' = Forwards \ {r} /\ r \in Forwards
           /\ Cardinality(Forwards') = Cardinality(Forwards) - 1
<1>1. Forwards' = Forwards \ {r} /\ r \in Forwards BY DEF Forwards
<1> QED BY <1>1, CountedFinite, FS_RemoveElement

(* Steps that leave acceptors and users alone.                              *)
LEMMA SameCounts ==
    ASSUME UNCHANGED <<accept, remote>>
    PROVE  Acceptors' = Acceptors /\ Forwards' = Forwards
BY DEF Acceptors, Forwards

(* The acceptors that have ended become one more when one ends.             *)
LEMMA GoneGrows ==
    ASSUME Types, NEW k \in Conn, NEW f \in Fwd,
           NEW to \in {"accept", "push", "report", "gone"},
           accept[k][f] \in {"accept", "push", "report"},
           accept' = [accept EXCEPT ![k][f] = to]
    PROVE  /\ \A j \in Conn : j # k => Gone(j)' = Gone(j)
           /\ to # "gone" => Gone(k)' = Gone(k)
           /\ to = "gone" => Cardinality(Gone(k)') = Cardinality(Gone(k)) + 1
<1>1. \A j \in Conn : j # k => Gone(j)' = Gone(j) BY DEF Gone, Types
<1>2. to # "gone" => Gone(k)' = Gone(k) BY DEF Gone, Types
<1>3. to = "gone" => Gone(k)' = Gone(k) \cup {f} BY DEF Gone, Types
<1>4. f \notin Gone(k) /\ Gone(k) \subseteq Fwd BY DEF Gone
<1>5. IsFiniteSet(Gone(k)) BY <1>4, CountedFinite, FS_Subset
<1> QED BY <1>1, <1>2, <1>3, <1>4, <1>5, FS_AddElement

LEMMA GoneCounts ==
    ASSUME NEW k \in Conn
    PROVE  Cardinality(Gone(k)) \in Nat
<1>1. IsFiniteSet(Gone(k)) BY CountedFinite, FS_Subset DEF Gone
<1> QED BY <1>1, FS_CardinalityType

(* A user that moves on.                                                    *)
Phases == {"none", "accepted", "queued", "dialing", "copying", "closed"}
User == [at : Phases, conn : 0..MaxConns, fwd : 0..NumForwards, copies : 0..2]

LEMMA UserMoves ==
    ASSUME Types, NEW r \in Remotes, NEW u \in User, remote' = [remote EXCEPT ![r] = u]
    PROVE  /\ remote' \in [Remotes -> User] /\ remote'[r] = u
           /\ \A q \in Remotes \ {r} : remote'[q] = remote[q]
<1>1. remote \in [Remotes -> User] BY DEF Types, User, Phases
<1> HIDE DEF User
<1> QED BY <1>1

LEMMA UserAt ==
    ASSUME Types, NEW r \in Remotes, NEW to \in Phases
    PROVE  /\ [remote[r] EXCEPT !.at = to] \in User
           /\ [remote[r] EXCEPT !.at = to].at = to
           /\ [remote[r] EXCEPT !.at = to].conn = remote[r].conn
<1>1. remote[r] \in User BY DEF Types, User, Phases
<1> QED BY <1>1 DEF User

-----------------------------------------------------------------------------
LEMMA InitInv == Init => IInv
<1> SUFFICES ASSUME Init PROVE IInv
  OBVIOUS
<1> USE ReverseTunnelAssumption
<1>1. Types
  <2>1. acceptCh \in [Conn -> Seq(Remotes)] /\ \A k \in Conn : Len(acceptCh[k]) = 0
    BY DEF Init
  <2>2. \A k \in Conn : Len(acceptCh[k]) <= AcceptCap BY <2>1
  <2>3. 0 \in 0..MaxConns /\ 0 \in 0..NumForwards /\ 0 \in 0..MaxFails OBVIOUS
  <2>4. errCh \in [Conn -> 0..NumForwards] /\ fails \in [Conn -> 0..MaxFails]
    BY <2>3 DEF Init
  <2>5. accept \in [Conn -> [Fwd -> {"none", "accept", "push", "report", "gone"}]]
    BY DEF Init
  <2>6. /\ link \in [Conn -> {"none", "up", "silent", "broken", "closed"}]
        /\ monitor \in [Conn -> {"none", "watch", "gone"}]
    BY DEF Init
  <2>7. remote \in [Remotes -> [at : {"none", "accepted", "queued", "dialing", "copying", "closed"},
                                conn : 0..MaxConns, fwd : 0..NumForwards, copies : 0..2]]
    BY DEF Init
  <2> QED BY <2>1, <2>2, <2>3, <2>4, <2>5, <2>6, <2>7 DEF Init, Types
<1>2. Acceptors = {} /\ Forwards = {} BY DEF Init, Acceptors, Forwards
<1>3. TypeOK BY <1>1, <1>2, FS_EmptySet DEF Init, TypeOK
<1>4. Current BY DEF Init, Current, InConnect, Open
<1>5. Fresh BY DEF Init, Fresh, Conn
<1>6. Queued BY DEF Init, Queued
<1>7. Reports
  <2>1. \A k \in Conn : Cardinality(Gone(k)) \in Nat BY GoneCounts
  <2> QED BY <2>1 DEF Init, Reports
<1>8. Probes BY DEF Init, Probes
<1> QED BY <1>3, <1>4, <1>5, <1>6, <1>7, <1>8 DEF IInv, Rest

-----------------------------------------------------------------------------
(* The parts of the invariant that a step leaves alone.                     *)

LEMMA SameQueued == ASSUME Queued, UNCHANGED <<acceptCh, remote>> PROVE Queued'
BY DEF Queued

LEMMA SameReports == ASSUME Reports, UNCHANGED <<errCh, accept>> PROVE Reports'
BY DEF Reports, Gone

LEMMA SameProbes == ASSUME Probes, UNCHANGED <<monitor, fails>> PROVE Probes'
BY DEF Probes

LEMMA SameCurrent == ASSUME Current, UNCHANGED <<link, conn, run>> PROVE Current'
BY DEF Current, InConnect

LEMMA SameFresh ==
    ASSUME Fresh, UNCHANGED <<accept, monitor, fails, conn, opened>>, run' = "open" => run = "open"
    PROVE  Fresh'
BY DEF Fresh

LEMMA StopStep ==
    ASSUME IInv, StopCall \/ StopReturn
    PROVE  IInv'
<1>1. TypeOK'
  <2>1. Types' BY DEF IInv, TypeOK, Types, StopCall, StopReturn
  <2>2. UNCHANGED <<accept, remote, wg, run>> BY DEF StopCall, StopReturn
  <2> QED BY <2>1, <2>2, SameCounts DEF IInv, TypeOK
<1>2. Rest'
  <2>1. UNCHANGED <<wg, run, failed, conn, opened, link, accept, acceptCh, errCh, monitor,
                    fails, remote>>
    BY DEF StopCall, StopReturn
  <2> QED BY <2>1, SameQueued, SameReports, SameProbes, SameCurrent, SameFresh DEF IInv, Rest
<1> QED BY <1>1, <1>2 DEF IInv

(* run() and connect().                                                     *)
LEMMA RunStep ==
    ASSUME IInv, DialSucceeds \/ DialFails \/ Loop
    PROVE  IInv'
<1> USE ReverseTunnelAssumption
<1>t. Types /\ TypeOK /\ Current /\ Fresh /\ Queued /\ Reports /\ Probes
  BY DEF IInv, TypeOK, Rest
<1>c. Cardinality(Acceptors) \in Nat /\ Cardinality(Forwards) \in Nat BY CountedFinite
<1>1. CASE DialSucceeds
  <2>0. conn + 1 \in Conn /\ conn \in Nat /\ run' = "open" /\ conn' = conn + 1
    BY <1>1, <1>t DEF DialSucceeds, Types, Conn
  <2>1. Types' BY <1>1, <1>t, <2>0 DEF DialSucceeds, MonitorStart, Types, Conn
  <2>2. Acceptors' = Acceptors /\ Forwards' = Forwards BY <1>1, SameCounts DEF DialSucceeds
  <2>3. TypeOK' BY <1>1, <1>t, <2>1, <2>2 DEF DialSucceeds, TypeOK
  <2>4. Current'
    <3>1. link' = [link EXCEPT ![conn + 1] = "up"] /\ run = "dial"
      BY <1>1 DEF DialSucceeds
    <3>2. \A k \in Conn : link[k] \notin Open BY <1>t, <3>1 DEF Current, InConnect
    <3>3. link'[conn + 1] = "up" /\ \A k \in Conn : k # conn + 1 => link'[k] = link[k]
      BY <1>t, <2>0, <3>1 DEF Types
    <3> QED BY <2>0, <3>2, <3>3 DEF Current, InConnect, Open
  <2>5. Fresh'
    <3>1. UNCHANGED <<accept, fails>> /\ opened' = 0 BY <1>1 DEF DialSucceeds
    <3>2. \A k \in Conn : k # conn + 1 => monitor'[k] = monitor[k]
      BY <1>1, <1>t DEF DialSucceeds, Types
    <3>3. \A k \in Conn : k > conn + 1 => k > conn /\ k # conn + 1 BY <2>0 DEF Conn
    <3>4. \A k \in Conn : k > conn + 1 \/ k = conn + 1 => k > conn BY <2>0 DEF Conn
    <3> QED BY <1>t, <2>0, <3>1, <3>2, <3>3, <3>4 DEF Fresh
  <2>6. Probes'
    <3>1. fails[conn + 1] = 0 BY <1>t, <2>0 DEF Fresh
    <3>2. \A k \in Conn : k # conn + 1 => monitor'[k] = monitor[k]
      BY <1>1, <1>t DEF DialSucceeds, Types
    <3>3. fails' = fails BY <1>1 DEF DialSucceeds
    <3> QED BY <1>t, <3>1, <3>2, <3>3 DEF Probes
  <2>7. Queued' /\ Reports' BY <1>1, <1>t, SameQueued, SameReports DEF DialSucceeds
  <2> QED BY <2>3, <2>4, <2>5, <2>6, <2>7 DEF IInv, Rest
<1>2. ASSUME UNCHANGED <<wg, conn, opened, link, accept, acceptCh, monitor, fails, remote>>,
             errCh' \in [Conn -> 0..NumForwards], Reports', stopped' = stopped, stop' = stop,
             failed' \in BOOLEAN, run # "done", run' # "done", run' # "open", run' \in {"dial", "open", "serve", "teardown", "returned", "sleep", "done"},
             InConnect' <=> InConnect
      PROVE  IInv'
  <2>1. Types' BY <1>2, <1>t DEF Types
  <2>2. Acceptors' = Acceptors /\ Forwards' = Forwards BY <1>2, SameCounts
  <2>3. TypeOK' BY <1>2, <1>t, <2>1, <2>2 DEF TypeOK
  <2>4. Current' BY <1>2, <1>t DEF Current
  <2>5. Fresh' /\ Probes' /\ Queued' BY <1>2, <1>t, SameFresh, SameProbes, SameQueued
  <2> QED BY <1>2, <2>3, <2>4, <2>5 DEF IInv, Rest
<1>3. CASE DialFails \/ OpenFails \/ SeeStop \/ Wake
  <2>1. Reports' /\ errCh' \in [Conn -> 0..NumForwards] /\ failed' \in BOOLEAN
    BY <1>3, <1>t, SameReports DEF DialFails, OpenFails, SeeStop, Wake, Types
  <2> QED BY <1>2, <1>3, <2>1 DEF DialFails, OpenFails, SeeStop, Wake, InConnect
<1>4. CASE SeeError
  <2>1. conn \in Conn BY <1>4, <1>t DEF SeeError, Current, InConnect
  <2>2. errCh' \in [Conn -> 0..NumForwards] BY <1>4, <1>t, <2>1 DEF SeeError, Types
  <2>3. \A k \in Conn : errCh'[k] <= errCh[k] /\ Gone(k)' = Gone(k)
    BY <1>4, <1>t, <2>1 DEF SeeError, Types, Gone
  <2>4. Reports'
    <3> SUFFICES ASSUME NEW k \in Conn PROVE errCh'[k] <= Cardinality(Gone(k)')
      BY DEF Reports
    <3>1. errCh[k] \in Nat /\ errCh'[k] \in Nat BY <1>t, <2>2 DEF Types
    <3> QED BY <1>t, <2>3, <3>1, GoneCounts DEF Reports
  <2> QED BY <1>2, <1>4, <2>2, <2>4 DEF SeeError, InConnect
<1>5. CASE OpenListener
  <2>0. conn \in Conn /\ run = "open" BY <1>5, <1>t DEF OpenListener, Current, InConnect
  <2>1. opened' \in 0..NumForwards /\ opened' = opened + 1
    BY <1>5, <1>t, <2>0 DEF OpenListener, Fresh, Types
  <2>2. CASE opened + 1 < NumForwards
    <3>1. UNCHANGED <<run, wg, accept, remote>> BY <1>5, <2>2 DEF OpenListener
    <3>2. Types' BY <1>5, <1>t, <2>1, <3>1 DEF OpenListener, Types
    <3>3. TypeOK' BY <1>t, <3>1, <3>2, SameCounts DEF TypeOK
    <3>4. Current' /\ Probes' /\ Queued' /\ Reports'
      BY <1>5, <1>t, <3>1, SameCurrent, SameProbes, SameQueued, SameReports DEF OpenListener
    <3>5. Fresh' BY <1>5, <1>t, <2>1, <2>2, <3>1 DEF OpenListener, Fresh
    <3> QED BY <3>3, <3>4, <3>5 DEF IInv, Rest
  <2>3. CASE ~(opened + 1 < NumForwards)
    <3>1. /\ run' = "serve" /\ wg' = wg + NumForwards
          /\ accept' = [accept EXCEPT ![conn] = [f \in Fwd |-> "accept"]]
      BY <1>5, <2>3 DEF OpenListener
    <3>2. Types' BY <1>5, <1>t, <2>1, <3>1 DEF OpenListener, Types
    <3>3. \A f \in Fwd : accept[conn][f] = "none" BY <1>t, <2>0 DEF Fresh
    <3>4. Cardinality(Acceptors') = Cardinality(Acceptors) + NumForwards
      BY <1>t, <2>0, <3>1, <3>3, AcceptorsStart
    <3>5. Forwards' = Forwards BY <1>5 DEF OpenListener, Forwards
    <3>6. TypeOK' BY <1>t, <1>c, <2>0, <3>1, <3>2, <3>4, <3>5 DEF TypeOK
    <3>7. Current' BY <1>5, <1>t, <2>0, <3>1 DEF OpenListener, Current, InConnect
    <3>8. Probes' /\ Queued' BY <1>5, <1>t, SameProbes, SameQueued DEF OpenListener
    <3>9. Fresh' BY <1>5, <1>t, <2>0, <3>1 DEF OpenListener, Fresh, Types, Conn
    <3>10. Reports'
      <4>1. \A k \in Conn : Gone(k)' = Gone(k)
        BY <1>t, <2>0, <3>1, <3>3 DEF Gone, Types
      <4> QED BY <1>5, <1>t, <4>1 DEF OpenListener, Reports
    <3> QED BY <3>6, <3>7, <3>8, <3>9, <3>10 DEF IInv, Rest
  <2> QED BY <2>2, <2>3
<1>6. CASE Teardown
  <2>0. conn \in Conn BY <1>6, <1>t DEF Teardown, Current, InConnect
  <2>1. Types' BY <1>6, <1>t, <2>0 DEF Teardown, ClosesClient, Types
  <2>2. Acceptors' = Acceptors /\ Forwards' = Forwards BY <1>6, SameCounts DEF Teardown
  <2>3. TypeOK' BY <1>6, <1>t, <2>1, <2>2 DEF Teardown, TypeOK
  <2>4. Current'
    BY <1>6, <1>t, <2>0 DEF Teardown, ClosesClient, Current, InConnect, Open, Types
  <2>5. Fresh' /\ Probes' /\ Queued' /\ Reports'
    BY <1>6, <1>t, SameFresh, SameProbes, SameQueued, SameReports DEF Teardown
  <2> QED BY <2>3, <2>4, <2>5 DEF IInv, Rest
<1>7. CASE ConnectReturned
  <2>1. Types' BY <1>7, <1>t DEF ConnectReturned, Types
  <2>2. Acceptors' = Acceptors /\ Forwards' = Forwards BY <1>7, SameCounts DEF ConnectReturned
  <2>3. TypeOK' BY <1>7, <1>t, <1>c, <2>1, <2>2 DEF ConnectReturned, TypeOK
  <2>4. Current' BY <1>7, <1>t DEF ConnectReturned, Current, InConnect, Open
  <2>5. Fresh' /\ Probes' /\ Queued' /\ Reports'
    BY <1>7, <1>t, SameFresh, SameProbes, SameQueued, SameReports DEF ConnectReturned
  <2> QED BY <2>3, <2>4, <2>5 DEF IInv, Rest
<1>8. CASE Dispatch
  <2> DEFINE r == Head(acceptCh[conn])
  <2>0. conn \in Conn /\ acceptCh[conn] \in Seq(Remotes) /\ acceptCh[conn] # <<>>
    BY <1>8, <1>t DEF Dispatch, Current, InConnect, Types
  <2>1. /\ r \in Remotes /\ r = acceptCh[conn][1] /\ 1 \in DOMAIN acceptCh[conn]
        /\ Tail(acceptCh[conn]) \in Seq(Remotes)
        /\ Len(Tail(acceptCh[conn])) = Len(acceptCh[conn]) - 1
        /\ \A i \in 1..Len(Tail(acceptCh[conn])) :
              Tail(acceptCh[conn])[i] = acceptCh[conn][i + 1]
    BY <2>0, HeadTailProperties, LenProperties
  <2>2. remote[r].at = "queued" /\ remote[r].conn = conn BY <1>t, <2>0, <2>1 DEF Queued
  <2>3. /\ \A q \in Remotes \ {r} : remote'[q] = remote[q]
        /\ remote'[r].at = "dialing" /\ remote' \in [Remotes -> User]
    <3>1. remote' = [remote EXCEPT ![r] = [remote[r] EXCEPT !.at = "dialing"]]
      BY <1>8 DEF Dispatch
    <3> HIDE DEF r
    <3>2. r \in Remotes BY <2>1
    <3>3. /\ [remote[r] EXCEPT !.at = "dialing"] \in User
          /\ [remote[r] EXCEPT !.at = "dialing"].at = "dialing"
      BY <1>t, <3>2, UserAt DEF Phases
    <3> QED BY <1>t, <3>1, <3>2, <3>3, UserMoves
  <2>4. Types'
    <3>1. acceptCh' \in [Conn -> Seq(Remotes)] BY <1>8, <1>t, <2>0, <2>1 DEF Dispatch, Types
    <3>2. \A k \in Conn : Len(acceptCh'[k]) <= AcceptCap
      BY <1>8, <1>t, <2>0, <2>1, LenProperties DEF Dispatch, Types
    <3> QED BY <1>8, <1>t, <2>3, <3>1, <3>2 DEF Dispatch, Types, User, Phases
  <2>5. Cardinality(Forwards') = Cardinality(Forwards) + 1
    BY <2>1, <2>2, <2>3, ForwardStarts
  <2>6. Acceptors' = Acceptors BY <1>8 DEF Dispatch, Acceptors
  <2>7. TypeOK' BY <1>8, <1>t, <1>c, <2>4, <2>5, <2>6 DEF Dispatch, ForwardAdds, TypeOK
  <2>8. Current' /\ Fresh' /\ Probes' /\ Reports'
    BY <1>8, <1>t, SameCurrent, SameFresh, SameProbes, SameReports DEF Dispatch
  <2>9. Queued'
    <3> SUFFICES ASSUME NEW k \in Conn, NEW i \in DOMAIN acceptCh'[k]
                 PROVE  /\ remote'[acceptCh'[k][i]].at = "queued"
                        /\ remote'[acceptCh'[k][i]].conn = k
                        /\ \A j \in DOMAIN acceptCh'[k] :
                              acceptCh'[k][i] = acceptCh'[k][j] => i = j
      BY DEF Queued
    <3>1. CASE k # conn
      <4>1. acceptCh'[k] = acceptCh[k] BY <1>8, <1>t, <3>1 DEF Dispatch, Types
      <4>2. acceptCh[k][i] \in Remotes /\ acceptCh[k][i] # r
        <5>1. i \in DOMAIN acceptCh[k] /\ acceptCh[k] \in Seq(Remotes)
          BY <1>t, <4>1 DEF Types
        <5>2. acceptCh[k][i] \in Remotes BY <5>1, LenProperties
        <5>3. remote[acceptCh[k][i]].conn = k BY <1>t, <5>1 DEF Queued
        <5> QED BY <2>2, <3>1, <5>2, <5>3
      <4> QED BY <1>t, <2>3, <4>1, <4>2 DEF Queued
    <3>2. CASE k = conn
      <4> DEFINE s == acceptCh[conn]
      <4>1. acceptCh'[k] = Tail(s) BY <1>8, <1>t, <2>0, <3>2 DEF Dispatch, Types
      <4>2. DOMAIN Tail(s) = 1..(Len(s) - 1) /\ DOMAIN s = 1..Len(s) /\ Len(s) \in Nat
        BY <2>0, <2>1, LenProperties
      <4>3. \A j \in DOMAIN Tail(s) : Tail(s)[j] = s[j + 1] /\ j + 1 \in DOMAIN s /\ j + 1 # 1
        BY <2>1, <4>2
      <4>4. s[i + 1] \in Remotes /\ s[i + 1] # r
        <5>1. i + 1 \in DOMAIN s /\ i + 1 # 1 BY <4>1, <4>3
        <5>2. s[i + 1] \in Remotes BY <2>0, <5>1, LenProperties
        <5>3. s[i + 1] # s[1] BY <1>t, <2>0, <2>1, <5>1 DEF Queued
        <5> QED BY <2>1, <5>2, <5>3
      <4>5. remote[s[i + 1]].at = "queued" /\ remote[s[i + 1]].conn = k
        BY <1>t, <2>0, <3>2, <4>1, <4>3 DEF Queued
      <4>6. \A j \in DOMAIN Tail(s) : s[i + 1] = s[j + 1] => i = j
        BY <1>t, <2>0, <4>1, <4>2, <4>3 DEF Queued
      <4> QED BY <2>3, <4>1, <4>3, <4>4, <4>5, <4>6
    <3> QED BY <3>1, <3>2
  <2> QED BY <2>7, <2>8, <2>9 DEF IInv, Rest
<1> QED BY <1>1, <1>3, <1>4, <1>5, <1>6, <1>7, <1>8 DEF Loop

(* What a goroutine of a connection does leaves run() where it is.          *)
LEMMA AcceptTyped ==
    ASSUME Types, NEW k \in Conn, NEW f \in Fwd,
           NEW to \in {"accept", "push", "report", "gone"},
           accept[k][f] \in {"accept", "push", "report"},
           accept' = [accept EXCEPT ![k][f] = to]
    PROVE  /\ accept' \in [Conn -> [Fwd -> {"none", "accept", "push", "report", "gone"}]]
           /\ \A j \in Conn : (\A g \in Fwd : accept[j][g] = "none") => accept'[j] = accept[j]
BY DEF Types

LEMMA FreshKept ==
    ASSUME Types, Fresh, NEW k \in Conn, NEW f \in Fwd,
           NEW to \in {"accept", "push", "report", "gone"},
           accept[k][f] \in {"accept", "push", "report"},
           accept' = [accept EXCEPT ![k][f] = to],
           UNCHANGED <<monitor, fails, conn, opened, run>>
    PROVE  Fresh'
BY AcceptTyped DEF Fresh

LEMMA ReportsKept ==
    ASSUME Types, Reports, NEW k \in Conn, NEW f \in Fwd,
           NEW to \in {"accept", "push", "report", "gone"},
           accept[k][f] \in {"accept", "push", "report"},
           accept' = [accept EXCEPT ![k][f] = to], errCh' = errCh
    PROVE  Reports'
<1> SUFFICES ASSUME NEW j \in Conn PROVE errCh[j] <= Cardinality(Gone(j)')
  BY DEF Reports
<1>1. errCh[j] \in Nat /\ errCh[j] <= Cardinality(Gone(j)) BY DEF Types, Reports
<1>2. Cardinality(Gone(j)) \in Nat BY GoneCounts
<1>3. \/ Gone(j)' = Gone(j)
      \/ Cardinality(Gone(j)') = Cardinality(Gone(j)) + 1
  BY GoneGrows
<1> QED BY <1>1, <1>2, <1>3

(* A user that is not in a queue changes none.                              *)
LEMMA QueuedKept ==
    ASSUME Types, Queued, NEW r \in Remotes, remote[r].at # "queued",
           \A q \in Remotes \ {r} : remote'[q] = remote[q], acceptCh' = acceptCh
    PROVE  Queued'
<1> SUFFICES ASSUME NEW k \in Conn, NEW i \in DOMAIN acceptCh[k]
             PROVE  /\ remote'[acceptCh[k][i]].at = "queued"
                    /\ remote'[acceptCh[k][i]].conn = k
                    /\ \A j \in DOMAIN acceptCh[k] :
                          acceptCh[k][i] = acceptCh[k][j] => i = j
  BY DEF Queued
<1>1. acceptCh[k][i] \in Remotes /\ acceptCh[k][i] # r
  <2>1. acceptCh[k] \in Seq(Remotes) BY DEF Types
  <2>2. acceptCh[k][i] \in Remotes BY <2>1, LenProperties
  <2>3. remote[acceptCh[k][i]].at = "queued" BY DEF Queued
  <2> QED BY <2>2, <2>3
<1> QED BY <1>1 DEF Queued

LEMMA AcceptorStep ==
    ASSUME IInv, NEW k \in Conn, NEW f \in Fwd,
           Acceptor(k, f) \/ \E r \in Remotes : AcceptRemote(k, f, r)
    PROVE  IInv'
<1> USE ReverseTunnelAssumption
<1>t. Types /\ TypeOK /\ Current /\ Fresh /\ Queued /\ Reports /\ Probes
  BY DEF IInv, TypeOK, Rest
<1>c. Cardinality(Acceptors) \in Nat /\ Cardinality(Forwards) \in Nat BY CountedFinite
<1>1. ASSUME NEW r \in Remotes, AcceptRemote(k, f, r)
      PROVE  IInv'
  <2>1. accept[k][f] = "accept" /\ accept' = [accept EXCEPT ![k][f] = "push"]
    BY <1>1 DEF AcceptRemote
  <2>2. /\ remote' \in [Remotes -> User] /\ remote'[r].at = "accepted"
        /\ \A q \in Remotes \ {r} : remote'[q] = remote[q]
    <3> DEFINE u == [at |-> "accepted", conn |-> k, fwd |-> f, copies |-> 0]
    <3>1. u \in User /\ u.at = "accepted" BY DEF User, Phases, Conn, Fwd
    <3>2. remote' = [remote EXCEPT ![r] = u] BY <1>1 DEF AcceptRemote
    <3> HIDE DEF u
    <3> QED BY <1>t, <3>1, <3>2, UserMoves
  <2>3. remote[r].at = "none" BY <1>1 DEF AcceptRemote
  <2>4. Types'
    <3>1. accept' \in [Conn -> [Fwd -> {"none", "accept", "push", "report", "gone"}]]
      BY <1>t, <2>1, AcceptTyped
    <3>2. UNCHANGED <<stopped, stop, wg, run, failed, conn, opened, link, acceptCh, errCh,
                      monitor, fails>>
      BY <1>1 DEF AcceptRemote
    <3> QED BY <1>t, <2>2, <3>1, <3>2 DEF Types, User, Phases
  <2>5. Acceptors' = Acceptors BY <1>t, <2>1, AcceptorMoves
  <2>6. Forwards' = Forwards BY <2>2, <2>3, ForwardMoves
  <2>7. TypeOK' BY <1>1, <1>t, <2>4, <2>5, <2>6 DEF AcceptRemote, TypeOK
  <2>8. Current' /\ Probes' BY <1>1, <1>t, SameCurrent, SameProbes DEF AcceptRemote
  <2>9. Fresh' BY <1>1, <1>t, <2>1, FreshKept DEF AcceptRemote
  <2>10. Reports' BY <1>1, <1>t, <2>1, ReportsKept DEF AcceptRemote
  <2>11. Queued' BY <1>1, <1>t, <2>2, <2>3, QueuedKept DEF AcceptRemote
  <2> QED BY <2>7, <2>8, <2>9, <2>10, <2>11 DEF IInv, Rest
<1>2. ASSUME NEW r \in Remotes, Push(k, f, r)
      PROVE  IInv'
  <2>0. /\ accept[k][f] = "push" /\ remote[r].at = "accepted" /\ remote[r].conn = k
        /\ UNCHANGED <<stopped, stop, run, failed, conn, opened, link, errCh, monitor, fails>>
    BY <1>2 DEF Push
  <2>1. Current' /\ Probes' BY <1>t, <2>0, SameCurrent, SameProbes
  <2>2. CASE /\ Len(acceptCh[k]) < AcceptCap
             /\ acceptCh' = [acceptCh EXCEPT ![k] = Append(@, r)]
             /\ remote' = [remote EXCEPT ![r].at = "queued", ![r].fwd = 0]
             /\ accept' = [accept EXCEPT ![k][f] = "accept"]
             /\ wg' = wg
    <3> DEFINE u == [remote[r] EXCEPT !.at = "queued", !.fwd = 0]
    <3>1. /\ remote' \in [Remotes -> User]
          /\ remote'[r].at = "queued" /\ remote'[r].conn = k
          /\ \A q \in Remotes \ {r} : remote'[q] = remote[q]
      <4>1. remote[r] \in User BY <1>t DEF Types, User, Phases
      <4>2. u \in User /\ u.at = "queued" /\ u.conn = k
        <5> DEFINE v == [remote[r] EXCEPT !.at = "queued"]
        <5>1. v \in User /\ v.at = "queued" /\ v.conn = k
          BY <1>t, <2>0, UserAt DEF Phases
        <5>2. u = [v EXCEPT !.fwd = 0] OBVIOUS
        <5> HIDE DEF u, v
        <5> QED BY <5>1, <5>2 DEF User, Phases
      <4>3. remote' = [remote EXCEPT ![r] = u] BY <2>2
      <4> HIDE DEF u
      <4> QED BY <1>t, <4>2, <4>3, UserMoves
    <3>2. acceptCh[k] \in Seq(Remotes) /\ Len(acceptCh[k]) \in Nat
      BY <1>t, LenProperties DEF Types
    <3>3. /\ Append(acceptCh[k], r) \in Seq(Remotes)
          /\ Len(Append(acceptCh[k], r)) = Len(acceptCh[k]) + 1
          /\ \A i \in 1..Len(acceptCh[k]) : Append(acceptCh[k], r)[i] = acceptCh[k][i]
          /\ Append(acceptCh[k], r)[Len(acceptCh[k]) + 1] = r
      BY <3>2, AppendProperties
    <3>4. /\ acceptCh' \in [Conn -> Seq(Remotes)]
          /\ \A j \in Conn : Len(acceptCh'[j]) <= AcceptCap
      BY <1>t, <2>2, <3>2, <3>3 DEF Types
    <3>5. Types' BY <1>t, <2>0, <2>2, <3>1, <3>4, AcceptTyped DEF Types, User, Phases
    <3>6. Acceptors' = Acceptors BY <1>t, <2>0, <2>2, AcceptorMoves
    <3>7. Forwards' = Forwards BY <2>0, <3>1, ForwardMoves
    <3>8. TypeOK' BY <1>t, <2>0, <2>2, <3>5, <3>6, <3>7 DEF TypeOK
    <3>9. Fresh' /\ Reports' BY <1>t, <2>0, <2>2, FreshKept, ReportsKept
    <3>10. Queued'
      <4> SUFFICES ASSUME NEW j \in Conn, NEW i \in DOMAIN acceptCh'[j]
                   PROVE  /\ remote'[acceptCh'[j][i]].at = "queued"
                          /\ remote'[acceptCh'[j][i]].conn = j
                          /\ \A h \in DOMAIN acceptCh'[j] :
                                acceptCh'[j][i] = acceptCh'[j][h] => i = h
        BY DEF Queued
      <4>1. \A m \in Conn : \A h \in DOMAIN acceptCh[m] :
               /\ acceptCh[m][h] \in Remotes /\ acceptCh[m][h] # r
               /\ remote'[acceptCh[m][h]] = remote[acceptCh[m][h]]
        <5> TAKE m \in Conn
        <5> TAKE h \in DOMAIN acceptCh[m]
        <5>1. acceptCh[m] \in Seq(Remotes) BY <1>t DEF Types
        <5>2. acceptCh[m][h] \in Remotes BY <5>1, LenProperties
        <5>3. remote[acceptCh[m][h]].at = "queued" BY <1>t DEF Queued
        <5> QED BY <2>0, <3>1, <5>2, <5>3
      <4>2. CASE j # k
        <5>1. acceptCh'[j] = acceptCh[j] BY <1>t, <2>2, <4>2 DEF Types
        <5> QED BY <1>t, <4>1, <5>1 DEF Queued
      <4>3. CASE j = k
        <5> DEFINE s == acceptCh[k]
                   t == Append(s, r)
        <5>1. acceptCh'[j] = t BY <1>t, <2>2, <4>3 DEF Types
        <5>2. DOMAIN s = 1..Len(s) /\ DOMAIN t = 1..(Len(s) + 1)
          BY <3>2, <3>3, LenProperties
        <5>3. \A h \in DOMAIN t : \/ h \in DOMAIN s /\ t[h] = s[h] /\ t[h] # r
                                  \/ h = Len(s) + 1 /\ t[h] = r
          BY <3>2, <3>3, <4>1, <5>2
        <5>4. \A h \in DOMAIN t : t[i] = t[h] => i = h
          BY <1>t, <5>1, <5>3 DEF Queued
        <5>5. CASE i \in DOMAIN s /\ t[i] = s[i]
          BY <1>t, <4>1, <4>3, <5>1, <5>4, <5>5 DEF Queued
        <5>6. CASE t[i] = r BY <3>1, <4>3, <5>1, <5>4, <5>6
        <5> QED BY <5>1, <5>3, <5>5, <5>6
      <4> QED BY <4>2, <4>3
    <3> QED BY <2>1, <3>8, <3>9, <3>10 DEF IInv, Rest
  <2>3. CASE /\ remote' = [remote EXCEPT ![r] = Closed]
             /\ accept' = [accept EXCEPT ![k][f] = "gone"]
             /\ wg' = wg - 1 /\ acceptCh' = acceptCh
    <3>1. Closed \in User /\ Closed.at = "closed" BY DEF Closed, User, Phases
    <3>2. /\ remote' \in [Remotes -> User] /\ remote'[r].at = "closed"
          /\ \A q \in Remotes \ {r} : remote'[q] = remote[q]
      BY <1>t, <2>3, <3>1, UserMoves
    <3>3. Types' BY <1>t, <2>0, <2>3, <3>2, AcceptTyped DEF Types, User, Phases
    <3>4. Cardinality(Acceptors') = Cardinality(Acceptors) - 1
      BY <1>t, <2>0, <2>3, AcceptorEnds
    <3>5. Forwards' = Forwards BY <2>0, <3>2, ForwardMoves
    <3>6. TypeOK' BY <1>t, <1>c, <2>0, <2>3, <3>3, <3>4, <3>5 DEF TypeOK
    <3>7. Fresh' /\ Reports' BY <1>t, <2>0, <2>3, FreshKept, ReportsKept
    <3>8. Queued' BY <1>t, <2>0, <2>3, <3>2, QueuedKept
    <3> QED BY <2>1, <3>6, <3>7, <3>8 DEF IInv, Rest
  <2> QED BY <1>2, <2>2, <2>3 DEF Push
<1>3. ASSUME NEW to \in {"report", "gone"}, accept[k][f] \in {"accept", "report"},
             accept' = [accept EXCEPT ![k][f] = to], wg' = (IF to = "gone" THEN wg - 1 ELSE wg),
             UNCHANGED <<stopped, stop, run, failed, conn, opened, link, acceptCh,
                         monitor, fails, remote>>,
             errCh' \in [Conn -> 0..NumForwards], Reports'
      PROVE  IInv'
  <2>1. Types' BY <1>3, <1>t, AcceptTyped DEF Types
  <2>2. Forwards' = Forwards BY <1>3 DEF Forwards
  <2>3. TypeOK'
    <3>1. CASE to = "gone"
      <4>1. Cardinality(Acceptors') = Cardinality(Acceptors) - 1
        BY <1>3, <1>t, <3>1, AcceptorEnds
      <4> QED BY <1>3, <1>t, <1>c, <2>1, <2>2, <3>1, <4>1 DEF TypeOK
    <3>2. CASE to = "report"
      <4>1. Acceptors' = Acceptors BY <1>3, <1>t, <3>2, AcceptorMoves
      <4> QED BY <1>3, <1>t, <2>1, <2>2, <3>2, <4>1 DEF TypeOK
    <3> QED BY <3>1, <3>2
  <2>4. Current' /\ Probes' /\ Queued' BY <1>3, <1>t, SameCurrent, SameProbes, SameQueued
  <2>5. Fresh' BY <1>3, <1>t, FreshKept
  <2> QED BY <1>3, <2>3, <2>4, <2>5 DEF IInv, Rest
<1>4. CASE AcceptFails(k, f)
  <2>1. PICK to \in {"report", "gone"} :
            /\ accept' = [accept EXCEPT ![k][f] = to]
            /\ wg' = (IF to = "gone" THEN wg - 1 ELSE wg)
    BY <1>4 DEF AcceptFails
  <2>2. accept[k][f] = "accept" /\ errCh' = errCh BY <1>4 DEF AcceptFails
  <2>3. Reports' BY <1>t, <2>1, <2>2, ReportsKept
  <2>4. errCh' \in [Conn -> 0..NumForwards] BY <1>t, <2>2 DEF Types
  <2> QED BY <1>3, <1>4, <2>1, <2>2, <2>3, <2>4 DEF AcceptFails
<1>5. CASE Report(k, f)
  <2>1. /\ accept[k][f] = "report" /\ accept' = [accept EXCEPT ![k][f] = "gone"]
        /\ errCh[k] < NumForwards /\ errCh' = [errCh EXCEPT ![k] = @ + 1]
    BY <1>5 DEF Report, ErrCap
  <2>2. errCh' \in [Conn -> 0..NumForwards] BY <1>t, <2>1 DEF Types
  <2>3. Reports'
    <3> SUFFICES ASSUME NEW j \in Conn PROVE errCh'[j] <= Cardinality(Gone(j)')
      BY DEF Reports
    <3>1. errCh[j] \in Nat /\ errCh[j] <= Cardinality(Gone(j)) BY <1>t DEF Types, Reports
    <3>2. Cardinality(Gone(j)) \in Nat BY GoneCounts
    <3>3. errCh'[j] = IF j = k THEN errCh[j] + 1 ELSE errCh[j] BY <1>t, <2>1 DEF Types
    <3>4. CASE j = k
      <4>1. Cardinality(Gone(k)') = Cardinality(Gone(k)) + 1 BY <1>t, <2>1, GoneGrows
      <4> QED BY <3>1, <3>2, <3>3, <3>4, <4>1
    <3>5. CASE j # k
      <4>1. Gone(j)' = Gone(j) BY <1>t, <2>1, <3>5, GoneGrows
      <4> QED BY <3>1, <3>3, <3>5, <4>1
    <3> QED BY <3>4, <3>5
  <2> QED BY <1>3, <1>5, <2>1, <2>2, <2>3 DEF Report
<1> QED BY <1>1, <1>2, <1>4, <1>5 DEF Acceptor

LEMMA ForwardStep ==
    ASSUME IInv, NEW r \in Remotes, Forward(r) \/ PeerCloses(r)
    PROVE  IInv'
<1> USE ReverseTunnelAssumption
<1>t. Types /\ TypeOK /\ Current /\ Fresh /\ Queued /\ Reports /\ Probes
  BY DEF IInv, TypeOK, Rest
<1>c. Cardinality(Acceptors) \in Nat /\ Cardinality(Forwards) \in Nat BY CountedFinite
<1>0. UNCHANGED <<stopped, stop, run, failed, conn, opened, link, accept, acceptCh, errCh,
                  monitor, fails>>
  BY DEF Forward, Dialled, TargetAnswers, TargetFails, LinkCuts, LastCopyEnds, PeerCloses, EndForward
<1>1. ASSUME NEW u \in User, remote' = [remote EXCEPT ![r] = u], remote[r].at # "queued",
             \/ wg' = wg /\ Forwards' = Forwards
             \/ wg' = wg - 1 /\ Cardinality(Forwards') = Cardinality(Forwards) - 1
      PROVE  IInv'
  <2>1. /\ remote' \in [Remotes -> User] /\ \A q \in Remotes \ {r} : remote'[q] = remote[q]
    BY <1>t, <1>1, UserMoves
  <2>2. Types' BY <1>t, <1>0, <2>1 DEF Types, User, Phases
  <2>3. Acceptors' = Acceptors BY <1>0 DEF Acceptors
  <2>4. TypeOK' BY <1>t, <1>c, <1>0, <1>1, <2>2, <2>3 DEF TypeOK
  <2>5. Current' /\ Fresh' /\ Probes' /\ Reports'
    BY <1>t, <1>0, SameCurrent, SameFresh, SameProbes, SameReports
  <2>6. Queued' BY <1>t, <1>0, <1>1, <2>1, QueuedKept
  <2> QED BY <2>4, <2>5, <2>6 DEF IInv, Rest
<1>3. Closed \in User /\ Closed.at = "closed" BY DEF Closed, User, Phases
<1>4. CASE TargetAnswers(r)
  <2> DEFINE u == [remote[r] EXCEPT !.at = "copying", !.copies = 2]
             v == [remote[r] EXCEPT !.at = "copying"]
  <2>1. v \in User /\ v.at = "copying" BY <1>t, UserAt DEF Phases
  <2>2. u = [v EXCEPT !.copies = 2] OBVIOUS
  <2>3. u \in User /\ u.at = "copying"
    <3> HIDE DEF u, v
    <3> QED BY <2>1, <2>2 DEF User
  <2>4. remote[r].at = "dialing" /\ wg' = wg /\ remote' = [remote EXCEPT ![r] = u]
    BY <1>4 DEF TargetAnswers
  <2> HIDE DEF u
  <2>5. remote'[r] = u /\ \A q \in Remotes \ {r} : remote'[q] = remote[q]
    BY <1>t, <2>3, <2>4, UserMoves
  <2>6. Forwards' = Forwards BY <2>3, <2>4, <2>5, ForwardMoves
  <2> QED BY <1>1, <2>3, <2>4, <2>6
<1>5. CASE TargetFails(r)
  <2>1. remote[r].at = "dialing" /\ wg' = wg - 1 /\ remote' = [remote EXCEPT ![r] = Closed]
    BY <1>5 DEF TargetFails
  <2>2. remote'[r] = Closed /\ \A q \in Remotes \ {r} : remote'[q] = remote[q]
    BY <1>t, <1>3, <2>1, UserMoves
  <2>3. Cardinality(Forwards') = Cardinality(Forwards) - 1
    BY <1>3, <2>1, <2>2, ForwardEnds
  <2> QED BY <1>1, <1>3, <2>1, <2>3
<1>6. CASE LinkCuts(r) \/ PeerCloses(r)
  <2> DEFINE u == [remote[r] EXCEPT !.at = "closed", !.copies = 1]
             v == [remote[r] EXCEPT !.at = "closed"]
  <2>1. v \in User /\ v.at = "closed" BY <1>t, UserAt DEF Phases
  <2>2. u = [v EXCEPT !.copies = 1] OBVIOUS
  <2>3. u \in User /\ u.at = "closed"
    <3> HIDE DEF u, v
    <3> QED BY <2>1, <2>2 DEF User
  <2>4. remote[r].at = "copying" /\ wg' = wg - 1 /\ remote' = [remote EXCEPT ![r] = u]
    BY <1>6 DEF LinkCuts, PeerCloses, EndForward
  <2> HIDE DEF u
  <2>5. remote'[r] = u /\ \A q \in Remotes \ {r} : remote'[q] = remote[q]
    BY <1>t, <2>3, <2>4, UserMoves
  <2>6. Cardinality(Forwards') = Cardinality(Forwards) - 1
    BY <2>3, <2>4, <2>5, ForwardEnds
  <2> QED BY <1>1, <2>3, <2>4, <2>6
<1>7. CASE LastCopyEnds(r)
  <2>1. remote[r].at = "closed" /\ wg' = wg /\ remote' = [remote EXCEPT ![r] = Closed]
    BY <1>7 DEF LastCopyEnds
  <2>2. remote'[r] = Closed /\ \A q \in Remotes \ {r} : remote'[q] = remote[q]
    BY <1>t, <1>3, <2>1, UserMoves
  <2>3. Forwards' = Forwards BY <1>3, <2>1, <2>2, ForwardMoves
  <2> QED BY <1>1, <1>3, <2>1, <2>3
<1> QED BY <1>4, <1>5, <1>6, <1>7 DEF Forward, Dialled

(* The monitor counts failures up to its limit; the network changes links.  *)
LEMMA ConnStep ==
    ASSUME IInv, NEW k \in Conn, Monitor(k) \/ Fault(k) \/ GiveUp(k)
    PROVE  IInv'
<1> USE ReverseTunnelAssumption
<1>t. Types /\ TypeOK /\ Current /\ Fresh /\ Queued /\ Reports /\ Probes
  BY DEF IInv, TypeOK, Rest
<1>0. UNCHANGED <<stopped, stop, wg, run, failed, conn, opened, accept, acceptCh, errCh, remote>>
  BY DEF Monitor, MonitorStops, Probe, Fault, GiveUp
<1>1. TypeOK' \/ ~Types' BY <1>t, <1>0, SameCounts DEF TypeOK
<1>2. Queued' /\ Reports' BY <1>t, <1>0, SameQueued, SameReports
<1>3. CASE Monitor(k)
  <2>1. link' = link /\ monitor[k] = "watch" BY <1>3 DEF Monitor, MonitorStops, Probe
  <2>2. /\ monitor' \in [Conn -> {"none", "watch", "gone"}]
        /\ fails' \in [Conn -> 0..MaxFails]
        /\ \A j \in Conn \ {k} : monitor'[j] = monitor[j] /\ fails'[j] = fails[j]
        /\ monitor'[k] = "watch" => fails'[k] < MaxFails
    <3>0. fails[k] \in Nat /\ fails[k] < MaxFails BY <1>t, <2>1 DEF Types, Probes
    <3>1. CASE MonitorStops(k) BY <1>t, <3>1 DEF MonitorStops, Types
    <3>2. CASE Probe(k)
      <4>1. FailsAfter(k) \in 0..MaxFails BY <3>0 DEF FailsAfter
      <4> QED BY <1>t, <3>2, <4>1 DEF Probe, Types
    <3> QED BY <1>3, <3>1, <3>2 DEF Monitor
  <2>3. Types' BY <1>t, <1>0, <2>1, <2>2 DEF Types
  <2>4. Probes' BY <1>t, <2>2 DEF Probes
  <2>5. ~(k > conn) BY <1>t, <2>1 DEF Fresh
  <2>6. Fresh' BY <1>t, <1>0, <2>2, <2>5 DEF Fresh
  <2>7. Current' BY <1>t, <1>0, <2>1, SameCurrent
  <2> QED BY <1>1, <1>2, <2>3, <2>4, <2>6, <2>7 DEF IInv, Rest
<1>4. CASE Fault(k) \/ GiveUp(k)
  <2>1. UNCHANGED <<monitor, fails>> BY <1>4 DEF Fault, GiveUp
  <2>2. link[k] \in {"up", "silent"} /\ \E to \in {"silent", "broken"} : link' = [link EXCEPT ![k] = to]
    BY <1>4 DEF Fault, GiveUp
  <2>3. Types' BY <1>t, <1>0, <2>1, <2>2 DEF Types
  <2>4. Current' BY <1>t, <1>0, <2>2 DEF Current, InConnect, Open, Types
  <2>5. Fresh' /\ Probes' BY <1>t, <1>0, <2>1, SameFresh, SameProbes
  <2> QED BY <1>1, <1>2, <2>3, <2>4, <2>5 DEF IInv, Rest
<1> QED BY <1>3, <1>4

LEMMA NextInv == IInv /\ [Next]_vars => IInv'
<1> SUFFICES ASSUME IInv, [Next]_vars PROVE IInv'
  OBVIOUS
<1>1. CASE UNCHANGED vars
  <2>1. Types' BY <1>1 DEF vars, IInv, TypeOK, Types
  <2>2. Acceptors' = Acceptors /\ Forwards' = Forwards BY <1>1, SameCounts DEF vars
  <2>3. TypeOK' BY <1>1, <2>1, <2>2 DEF vars, IInv, TypeOK
  <2> QED
    BY <1>1, <2>3, SameQueued, SameReports, SameProbes, SameCurrent, SameFresh
    DEF vars, IInv, Rest
<1>2. CASE Next
  BY <1>2, StopStep, RunStep, AcceptorStep, ForwardStep, ConnStep DEF Next, Environment
<1> QED BY <1>1, <1>2

THEOREM InvariantHolds == Spec => []IInv
BY InitInv, NextInv, PTL DEF Spec

(* The WaitGroup that Stop waits for counts run(), the acceptors and the    *)
(* forwards, exactly (reverse.go:68, 201-203, 234-236).                     *)
THEOREM TypeCorrect == Spec => []TypeOK
<1>1. IInv => TypeOK BY DEF IInv
<1> QED BY <1>1, InvariantHolds, PTL

(* An acceptor that reports its listener's failure finds room in errCh,     *)
(* though nobody may read it any more (reverse.go:197, 211).                *)
THEOREM ReportsFindRoom == Spec => []ReportNeverBlocks
<1>1. IInv => ReportNeverBlocks
  <2> SUFFICES ASSUME IInv, NEW k \in Conn, NEW f \in Fwd, accept[k][f] = "report"
               PROVE  errCh[k] < ErrCap
    BY DEF ReportNeverBlocks
  <2>1. errCh[k] \in Nat /\ errCh[k] <= Cardinality(Gone(k))
    BY DEF IInv, TypeOK, Types, Rest, Reports
  <2>2. Gone(k) \subseteq Fwd /\ Gone(k) # Fwd BY DEF Gone
  <2>3. Cardinality(Gone(k)) <= NumForwards /\ Cardinality(Gone(k)) # NumForwards
    BY <2>2, CountedFinite, FS_Subset
  <2>4. Cardinality(Gone(k)) \in Nat /\ NumForwards \in Nat
    BY GoneCounts, ReverseTunnelAssumption
  <2> QED BY <2>1, <2>3, <2>4 DEF ErrCap
<1> QED BY <1>1, InvariantHolds, PTL

-----------------------------------------------------------------------------
(* Refinement: each step is a step of Tunnel or leaves what it sees alone.  *)

Run == <<"run", 0>>

LEMMA HeldIs ==
    ASSUME IInv
    PROVE  Held = IF InConnect THEN {conn} ELSE {}
BY DEF Held, IInv, Rest, Current, Open

LEMMA HeldWillBe ==
    ASSUME IInv'
    PROVE  Held' = IF InConnect' THEN {conn'} ELSE {}
BY DEF Held, IInv, Rest, Current, Open

LEMMA RunIsActive ==
    ASSUME run # "done"
    PROVE  Run \in Active
BY DEF Active, Run

LEMMA SameActive ==
    ASSUME Acceptors' = Acceptors, Forwards' = Forwards, (run' = "done") <=> (run = "done")
    PROVE  Active' = Active
BY DEF Active

LEMMA InitRefines == Init => Abstract!Init
<1> SUFFICES ASSUME Init PROVE Abstract!Init
  OBVIOUS
<1>1. Held = {} BY DEF Init, Held
<1>2. Acceptors = {} /\ Forwards = {} /\ run = "dial"
  BY DEF Init, Acceptors, Forwards
<1>3. Active = {Run} BY <1>2 DEF Active, Run
<1> QED BY <1>1, <1>3 DEF Init, Abstract!Init, Run

LEMMA StopRefines ==
    ASSUME IInv, StopCall \/ StopReturn
    PROVE  Abstract!Next
<1>1. UNCHANGED <<run, link, accept, remote>> BY DEF StopCall, StopReturn
<1>2. Active' = Active BY <1>1, SameCounts, SameActive
<1>3. Held' = Held BY <1>1 DEF Held
<1>4. CASE StopCall
  BY <1>2, <1>3, <1>4 DEF StopCall, Abstract!Next, Abstract!StopCall
<1>5. CASE StopReturn
  <2>1. Cardinality(Acceptors) \in Nat /\ Cardinality(Forwards) \in Nat BY CountedFinite
  <2>2. run = "done" /\ Cardinality(Acceptors) = 0 /\ Cardinality(Forwards) = 0
    BY <1>5, <2>1 DEF StopReturn, Waited, IInv, TypeOK
  <2>3. Acceptors = {} /\ Forwards = {} BY <2>2, CountedFinite, FS_EmptySet
  <2>4. Active = {} BY <2>2, <2>3 DEF Active
  <2>5. Held = {} BY <2>2, HeldIs DEF InConnect
  <2> QED
    BY <1>2, <1>3, <1>5, <2>4, <2>5 DEF StopReturn, Abstract!Next, Abstract!StopReturn
<1> QED BY <1>4, <1>5

(* run() starts the acceptors and forwards, and is counted itself.          *)
LEMMA RunRefines ==
    ASSUME IInv, IInv', DialSucceeds \/ DialFails \/ Loop
    PROVE  [Abstract!Next]_Abstract!vars
<1>t. Types BY DEF IInv, TypeOK
<1>0. stop' = stop
  BY DEF DialSucceeds, DialFails, Loop, OpenListener, OpenFails, SeeStop, SeeError, Dispatch,
         Teardown, ConnectReturned, Wake
<1>h. Held = (IF InConnect THEN {conn} ELSE {})
      /\ Held' = IF InConnect' THEN {conn'} ELSE {}
  BY HeldIs, HeldWillBe
<1>1. CASE DialSucceeds
  <2>1. Active' = Active /\ Run \in Active
    BY <1>1, SameCounts, SameActive, RunIsActive DEF DialSucceeds
  <2>2. Held = {} /\ Held' = {conn + 1} BY <1>1, <1>h DEF DialSucceeds, InConnect
  <2>3. conn + 1 \in Conn BY <1>1, <1>t, ReverseTunnelAssumption DEF DialSucceeds, Types, Conn
  <2> QED BY <1>0, <2>1, <2>2, <2>3 DEF Abstract!Next, Abstract!Connect, Run
<1>2. CASE DialFails \/ OpenFails \/ SeeStop \/ SeeError \/ Wake
  <2>1. Active' = Active
    BY <1>2, SameCounts, SameActive DEF DialFails, OpenFails, SeeStop, SeeError, Wake
  <2>2. Held' = Held
    BY <1>2, <1>h DEF DialFails, OpenFails, SeeStop, SeeError, Wake, InConnect
  <2> QED BY <1>0, <2>1, <2>2 DEF Abstract!vars
<1>3. CASE OpenListener
  <2>1. Held' = Held /\ run = "open" /\ run' # "done" /\ conn \in Conn
    BY <1>3, <1>h DEF OpenListener, InConnect, IInv, Rest, Current
  <2>2. Forwards' = Forwards BY <1>3 DEF OpenListener, Forwards
  <2>3. CASE accept' = accept
    <3>1. Active' = Active BY <2>1, <2>2, <2>3, SameActive DEF Acceptors
    <3> QED BY <1>0, <2>1, <3>1 DEF Abstract!vars
  <2>4. CASE accept' = [accept EXCEPT ![conn] = [f \in Fwd |-> "accept"]]
    <3>1. Acceptors' = Acceptors \cup ({conn} \X Fwd)
      BY <1>t, <2>1, <2>4, AcceptorsStart DEF IInv, Rest, Fresh
    <3>2. Active' = Active \cup {"accept"} \X ({conn} \X Fwd)
      BY <2>1, <2>2, <3>1 DEF Active
    <3>3. Active # {} BY <2>1, RunIsActive
    <3> QED BY <1>0, <2>1, <3>2, <3>3 DEF Abstract!Next, Abstract!Spawn
  <2> QED BY <1>3, <2>3, <2>4 DEF OpenListener
<1>4. CASE Dispatch
  <2> DEFINE r == Head(acceptCh[conn])
  <2>1. Held' = Held /\ run = "serve" /\ run' = run /\ conn \in Conn
    BY <1>4, <1>h DEF Dispatch, InConnect, IInv, Rest, Current
  <2>2. Acceptors' = Acceptors BY <1>4 DEF Dispatch, Acceptors
  <2>3. r \in Remotes
    BY <1>4, <1>t, <2>1, HeadTailProperties DEF Dispatch, Types
  <2>4. Forwards' = Forwards \/ Forwards' = Forwards \cup {r}
    <3>1. remote' = [remote EXCEPT ![r].at = "dialing"] BY <1>4 DEF Dispatch
    <3> HIDE DEF r
    <3>2. \A q \in Remotes \ {r} : remote'[q] = remote[q] BY <1>t, <3>1 DEF Types
    <3>3. remote'[r].at = "dialing"
      <4>1. remote' = [remote EXCEPT ![r] = [remote[r] EXCEPT !.at = "dialing"]] BY <3>1
      <4>2. [remote[r] EXCEPT !.at = "dialing"] \in User
            /\ [remote[r] EXCEPT !.at = "dialing"].at = "dialing"
        BY <1>t, <2>3, UserAt DEF Phases
      <4> QED BY <1>t, <2>3, <4>1, <4>2, UserMoves
    <3> QED BY <2>3, <3>2, <3>3 DEF Forwards
  <2>5. Active' = Active \/ Active' = Active \cup {<<"forward", r>>}
    BY <2>1, <2>2, <2>4 DEF Active
  <2>6. Active # {} BY <2>1, RunIsActive
  <2> HIDE DEF r
  <2> QED BY <1>0, <2>1, <2>3, <2>5, <2>6 DEF Abstract!Next, Abstract!Spawn
<1>5. CASE Teardown
  <2>1. Active' = Active BY <1>5, SameCounts, SameActive DEF Teardown
  <2>2. Held # {} /\ Held' = {} BY <1>5, <1>h DEF Teardown, InConnect
  <2> QED BY <1>0, <2>1, <2>2 DEF Abstract!Next, Abstract!Disconnect
<1>6. CASE ConnectReturned
  <2>1. Held' = Held BY <1>6, <1>h DEF ConnectReturned, InConnect
  <2>2. Acceptors' = Acceptors /\ Forwards' = Forwards
    BY <1>6, SameCounts DEF ConnectReturned
  <2>3. CASE run' = "sleep"
    <3>1. Active' = Active BY <1>6, <2>2, <2>3, SameActive DEF ConnectReturned
    <3> QED BY <1>0, <2>1, <3>1 DEF Abstract!vars
  <2>4. CASE run' = "done"
    <3>1. run # "done" BY <1>6 DEF ConnectReturned
    <3>2. Active' = Active \ {Run} BY <2>2, <2>4, <3>1 DEF Active, Run
    <3>3. Run \in Active BY <3>1, RunIsActive
    <3> QED BY <1>0, <2>1, <3>2, <3>3 DEF Abstract!Next, Abstract!Finish
  <2> QED BY <1>6, <2>3, <2>4 DEF ConnectReturned
<1> QED BY <1>1, <1>2, <1>3, <1>4, <1>5, <1>6 DEF Loop

LEMMA AcceptorRefines ==
    ASSUME IInv, NEW k \in Conn, NEW f \in Fwd,
           Acceptor(k, f) \/ \E r \in Remotes : AcceptRemote(k, f, r)
    PROVE  [Abstract!Next]_Abstract!vars
<1>t. Types BY DEF IInv, TypeOK
<1>0. stop' = stop /\ run' = run /\ link' = link
  BY DEF Acceptor, AcceptFails, Report, Push, AcceptRemote
<1>1. Held' = Held BY <1>0 DEF Held
<1>2. Forwards' = Forwards
  <2>1. CASE AcceptFails(k, f) \/ Report(k, f)
    BY <2>1 DEF AcceptFails, Report, Forwards
  <2>2. ASSUME NEW r \in Remotes, remote[r].at \in {"none", "accepted"}, NEW u \in User,
               u.at \in {"accepted", "queued", "closed"}, remote' = [remote EXCEPT ![r] = u]
        PROVE  Forwards' = Forwards
    <3>1. remote'[r] = u /\ \A q \in Remotes \ {r} : remote'[q] = remote[q]
      BY <1>t, <2>2, UserMoves
    <3> QED BY <2>2, <3>1, ForwardMoves
  <2>3. ASSUME NEW r \in Remotes, AcceptRemote(k, f, r) PROVE Forwards' = Forwards
    <3> DEFINE u == [at |-> "accepted", conn |-> k, fwd |-> f, copies |-> 0]
    <3>1. u \in User /\ u.at = "accepted"
      BY ReverseTunnelAssumption DEF User, Phases, Conn, Fwd
    <3>2. remote' = [remote EXCEPT ![r] = u] /\ remote[r].at = "none"
      BY <2>3 DEF AcceptRemote
    <3> HIDE DEF u
    <3> QED BY <2>2, <3>1, <3>2
  <2>4. ASSUME NEW r \in Remotes, Push(k, f, r) PROVE Forwards' = Forwards
    <3> DEFINE v == [remote[r] EXCEPT !.at = "queued"]
               u == [remote[r] EXCEPT !.at = "queued", !.fwd = 0]
    <3>1. v \in User /\ v.at = "queued" BY <1>t, UserAt DEF Phases
    <3>2. u = [v EXCEPT !.fwd = 0] OBVIOUS
    <3>3. u \in User /\ u.at = "queued"
      <4> HIDE DEF u, v
      <4> QED BY <3>1, <3>2, ReverseTunnelAssumption DEF User
    <3>4. Closed \in User /\ Closed.at = "closed"
      BY ReverseTunnelAssumption DEF Closed, User, Phases
    <3>5. remote[r].at = "accepted"
          /\ (remote' = [remote EXCEPT ![r] = u] \/ remote' = [remote EXCEPT ![r] = Closed])
      BY <2>4 DEF Push
    <3> HIDE DEF u
    <3> QED BY <2>2, <3>3, <3>4, <3>5
  <2> QED BY <2>1, <2>3, <2>4 DEF Acceptor
<1>3. PICK to \in {"accept", "push", "report", "gone"} :
          /\ accept' = [accept EXCEPT ![k][f] = to]
          /\ accept[k][f] \in {"accept", "push", "report"}
  BY DEF Acceptor, AcceptFails, Report, Push, AcceptRemote
<1>4. CASE to = "gone"
  <2>1. Acceptors' = Acceptors \ {<<k, f>>} /\ <<k, f>> \in Acceptors
    BY <1>t, <1>3, <1>4, AcceptorEnds
  <2>2. /\ Active' = Active \ {<<"accept", <<k, f>>>>}
        /\ <<"accept", <<k, f>>>> \in Active
    BY <1>0, <1>2, <2>1 DEF Active
  <2> QED BY <1>0, <1>1, <2>2 DEF Abstract!Next, Abstract!Finish
<1>5. CASE to # "gone"
  <2>1. Acceptors' = Acceptors BY <1>t, <1>3, <1>5, AcceptorMoves
  <2>2. Active' = Active BY <1>0, <1>2, <2>1, SameActive
  <2> QED BY <1>0, <1>1, <2>2 DEF Abstract!vars
<1> QED BY <1>4, <1>5

LEMMA ForwardRefines ==
    ASSUME IInv, NEW r \in Remotes, Forward(r) \/ PeerCloses(r)
    PROVE  [Abstract!Next]_Abstract!vars
<1>t. Types BY DEF IInv, TypeOK
<1>0. UNCHANGED <<stop, run, link, accept>>
  BY DEF Forward, Dialled, TargetAnswers, TargetFails, LinkCuts, LastCopyEnds, PeerCloses, EndForward
<1>1. Held' = Held /\ Acceptors' = Acceptors BY <1>0 DEF Held, Acceptors
<1>2. \A q \in Remotes \ {r} : remote'[q] = remote[q]
  BY <1>t DEF Types, Forward, Dialled, TargetAnswers, TargetFails, LinkCuts, LastCopyEnds, PeerCloses,
              EndForward
<1>3. \/ Forwards' = Forwards
      \/ r \in Forwards /\ Forwards' = Forwards \ {r}
  <2>1. CASE r \in Forwards BY <1>2, <2>1 DEF Forwards
  <2>2. CASE r \notin Forwards
    <3>1. LastCopyEnds(r)
      BY <2>2 DEF Forwards, Forward, Dialled, TargetAnswers, TargetFails, LinkCuts, PeerCloses,
                  EndForward
    <3>2. Closed \in User /\ Closed.at = "closed"
      BY ReverseTunnelAssumption DEF Closed, User, Phases
    <3>3. remote' = [remote EXCEPT ![r] = Closed] BY <3>1 DEF LastCopyEnds
    <3>4. remote'[r] = Closed BY <1>t, <3>2, <3>3, UserMoves
    <3>5. remote[r].at \notin {"dialing", "copying"} BY <2>2 DEF Forwards
    <3> QED BY <1>2, <3>2, <3>4, <3>5, ForwardMoves
  <2> QED BY <2>1, <2>2
<1>4. CASE Forwards' = Forwards
  <2>1. Active' = Active BY <1>0, <1>1, <1>4, SameActive
  <2> QED BY <1>0, <1>1, <2>1 DEF Abstract!vars
<1>5. CASE r \in Forwards /\ Forwards' = Forwards \ {r}
  <2>1. Active' = Active \ {<<"forward", r>>} /\ <<"forward", r>> \in Active
    BY <1>0, <1>1, <1>5 DEF Active
  <2> QED BY <1>0, <1>1, <2>1 DEF Abstract!Next, Abstract!Finish
<1> QED BY <1>3, <1>4, <1>5

LEMMA ConnRefines ==
    ASSUME IInv, IInv', NEW k \in Conn, Monitor(k) \/ Fault(k) \/ GiveUp(k)
    PROVE  UNCHANGED Abstract!vars
<1>0. UNCHANGED <<stop, run, conn, accept, remote>>
  BY DEF Monitor, MonitorStops, Probe, Fault, GiveUp
<1>1. Active' = Active BY <1>0, SameCounts, SameActive
<1>2. Held' = Held BY <1>0, HeldIs, HeldWillBe DEF InConnect
<1> QED BY <1>0, <1>1, <1>2 DEF Abstract!vars

LEMMA NextRefines == IInv /\ IInv' /\ [Next]_vars => [Abstract!Next]_Abstract!vars
<1> SUFFICES ASSUME IInv, IInv', [Next]_vars PROVE [Abstract!Next]_Abstract!vars
  OBVIOUS
<1>1. CASE UNCHANGED vars
  <2>1. Active' = Active BY <1>1, SameCounts, SameActive DEF vars
  <2>2. Held' = Held /\ stop' = stop BY <1>1 DEF vars, Held
  <2> QED BY <2>1, <2>2 DEF Abstract!vars
<1>2. CASE Next
  BY <1>2, StopRefines, RunRefines, AcceptorRefines, ForwardRefines, ConnRefines
  DEF Next, Environment
<1> QED BY <1>1, <1>2

(* A reverse tunnel is a Tunnel: it has given back a connection before it   *)
(* makes another, its goroutines are started by goroutines that Stop waits  *)
(* for, and nothing is left when Stop has returned (reverse.go:72-77, 134,  *)
(* 201, 225-243).                                                           *)
THEOREM ReverseTunnelIsATunnel == Spec => ImplementsTunnel
<1>1. Init => Abstract!Init BY InitRefines
<1>2. IInv /\ IInv' /\ [Next]_vars => [Abstract!Next]_Abstract!vars BY NextRefines
<1> QED BY <1>1, <1>2, InvariantHolds, PTL DEF Spec, ImplementsTunnel, Abstract!Spec
=============================================================================
