------------------------ MODULE SerialSessionProofs -------------------------
(* Proofs of the safety properties of SerialSession, for every value of its  *)
(* constants.                                                              *)
EXTENDS SerialSession, SequenceTheorems, TLAPS

-----------------------------------------------------------------------------
(* Type correctness needs what a few program counters say about the data   *)
(* they use.                                                               *)

PcData ==
    /\ \A g \in Gens : rpc[g] = "append" => rseq[g] >= 1
    /\ \A g \in Gens : wpc[g] \in {"lock", "write"} => wreq[g] \in Requests
    /\ \A c \in Clients : cpc[c] \in {"check", "open"} /\ c \in HttpClients => sent[c] < MaxReqs
    /\ \A c \in Clients : cpc[c] \in {"send", "wait"} => sent[c] >= 1

TypeInv == TypeOK /\ PcData

-----------------------------------------------------------------------------
(* Open and the clients' open check occur in several actions.              *)

\* Open keeps the types whether it finds the port open, opens it or fails.
LEMMA OpenTypes ==
  ASSUME TypeOK, OpenAlready \/ OpenSucceeds \/ OpenFails
  PROVE  /\ handles' \subseteq Gens /\ live' \subseteq handles'
         /\ port' \in StopChs /\ opens' \in StopChs /\ mu' = mu
         /\ connected' \in BOOLEAN
         /\ rpc' \in [Gens -> ReaderPcs] /\ wpc' \in [Gens -> WriterPcs]
         /\ \A g \in Gens : rpc'[g] = "append" => rpc[g] = "append"
         /\ \A g \in Gens : wpc'[g] \in {"lock", "write"} => wpc'[g] = wpc[g]
<1> USE SessionAssumption DEF TypeOK, TypeSession, TypeFlags, TypeReader, TypeWriter, Gens, StopChs,
        ReaderPcs, WriterPcs
<1>1. CASE OpenAlready \/ OpenFails
  BY <1>1 DEF OpenAlready, OpenFails, session
<1>2. CASE OpenSucceeds
  <2>1. opens + 1 \in Gens
    BY <1>2 DEF OpenSucceeds
  <2>2. handles' \subseteq Gens /\ live' \subseteq handles'
    BY <1>2, <2>1 DEF OpenSucceeds
  <2>3. port' \in StopChs /\ opens' \in StopChs /\ mu' = mu
    BY <1>2, <2>1 DEF OpenSucceeds
  <2>4. connected' \in BOOLEAN
    BY <1>2 DEF OpenSucceeds
  <2>5. /\ rpc' \in [Gens -> ReaderPcs]
        /\ \A g \in Gens : rpc'[g] = "append" => rpc[g] = "append"
    BY <1>2, <2>1 DEF OpenSucceeds
  <2>6. /\ wpc' \in [Gens -> WriterPcs]
        /\ \A g \in Gens : wpc'[g] \in {"lock", "write"} => wpc'[g] = wpc[g]
    BY <1>2, <2>1 DEF OpenSucceeds
  <2> QED
    BY <2>2, <2>3, <2>4, <2>5, <2>6
<1> QED
  BY <1>1, <1>2

\* After the open check a client has a request number in range.
LEMMA ReadyTypes ==
  ASSUME TypeInv, NEW c \in Clients, NEW from \in {"check", "open"}, ClientReady(c, from)
  PROVE  /\ cpc' \in [Clients -> ClientPcs] /\ sent' \in [Clients -> 0..MaxReqs]
         /\ \A d \in Clients :
               cpc'[d] \in {"check", "open"} /\ d \in HttpClients => sent'[d] < MaxReqs
         /\ \A d \in Clients : cpc'[d] \in {"send", "wait"} => sent'[d] >= 1
<1> USE SessionAssumption DEF TypeInv, TypeOK, TypeClient, PcData, ClientPcs, NextReq
<1>1. CASE c \in HttpClients
  <2>1. cpc[c] = from /\ cpc' = [cpc EXCEPT ![c] = "send"] /\ sent' = [sent EXCEPT ![c] = sent[c] + 1]
    BY <1>1 DEF ClientReady, Client
  <2>2. sent[c] \in 0..MaxReqs /\ sent[c] < MaxReqs
    BY <1>1, <2>1
  <2> QED
    BY <2>1, <2>2
<1>2. CASE c \notin HttpClients
  <2>1. cpc[c] = from /\ cpc' = [cpc EXCEPT ![c] = "input"] /\ sent' = sent
    BY <1>2 DEF ClientReady, Client
  <2> QED
    BY <2>1
<1> QED
  BY <1>1, <1>2

\* The initial state has the declared types (NewSerialSession).
LEMMA TypeInit == Init => TypeInv
<1> SUFFICES ASSUME Init PROVE TypeInv
  OBVIOUS
<1>1. TypeSession /\ TypeReader
  BY SessionAssumption DEF Init, TypeSession, TypeReader, Gens, StopChs, ReaderPcs, CloserPcs
<1>2. TypeWriter /\ TypeClient
  BY SessionAssumption DEF Init, TypeWriter, TypeClient, Gens, StopChs, WriterPcs, ReconPcs, ClientPcs
<1>4. TypeFlags
  BY DEF Init, TypeFlags
<1>3. PcData
  BY DEF Init, PcData
<1> QED
  BY <1>1, <1>2, <1>3, <1>4 DEF TypeInv, TypeOK

\* Every step of every goroutine and of the device keeps the types.
LEMMA TypeNext == TypeInv /\ [Next]_vars => TypeInv'
<1> SUFFICES ASSUME TypeInv, [Next]_vars PROVE TypeInv'
  OBVIOUS
<1> USE SessionAssumption DEF TypeInv, TypeOK, device, session, stops, reader, writer, recon, client
<1>1. CASE Unplug
  <2>1. TypeSession'
    BY <1>1 DEF Unplug,
          TypeSession, Gens, StopChs, CloserPcs
  <2>2. TypeReader'
    BY <1>1 DEF Unplug,
          TypeReader, PcData, Gens, StopChs, ReaderPcs
  <2>3. TypeWriter'
    BY <1>1 DEF Unplug,
          TypeWriter, TypeClient, Gens, StopChs, WriterPcs, ReconPcs
  <2>4. TypeClient'
    BY <1>1 DEF Unplug,
          TypeClient, TypeWriter, PcData, Clients, Requests, ClientPcs
  <2>5. PcData'
    BY <1>1 DEF Unplug,
          PcData, TypeReader, TypeWriter, TypeClient
  <2>6. TypeFlags'
    BY <1>1 DEF Unplug, TypeFlags
  <2> QED
    BY <2>1, <2>2, <2>3, <2>4, <2>5, <2>6
<1>2. CASE Plug
  BY <1>2 DEF Plug,
        TypeFlags, TypeSession, TypeReader, TypeWriter, TypeClient, PcData, ReaderPcs, WriterPcs, ReconPcs, CloserPcs, ClientPcs, Gens, StopChs, NoReq
<1>3. CASE ClosePort
  BY <1>3 DEF ClosePort, Closer, CloseHandle,
        TypeFlags, TypeSession, TypeReader, TypeWriter, TypeClient, PcData, ReaderPcs, WriterPcs, ReconPcs, CloserPcs, ClientPcs, Gens, StopChs, NoReq
<1>4. CASE CloseSelect
  BY <1>4 DEF CloseSelect, Closer, SelectStopCh,
        TypeFlags, TypeSession, TypeReader, TypeWriter, TypeClient, PcData, ReaderPcs, WriterPcs, ReconPcs, CloserPcs, ClientPcs, Gens, StopChs, NoReq
<1>5. CASE CloseStopCh
  BY <1>5 DEF CloseStopCh, Closer, CloseChannel,
        TypeFlags, TypeSession, TypeReader, TypeWriter, TypeClient, PcData, ReaderPcs, WriterPcs, ReconPcs, CloserPcs, ClientPcs, Gens, StopChs, NoReq
<1>6. ASSUME NEW g \in Gens, ReaderStart(g) \/ ReaderCheckStop(g) \/ ReaderGetPort(g) \/ ReaderSeq(g) \/ ReaderAppend(g) \/ ReaderError(g) \/ DisconnectNil(g) \/ DisconnectLock(g) \/ DisconnectSelect(g) \/ DisconnectClose(g) \/ DisconnectSwap(g) \/ ReaderData(g) PROVE TypeInv'
  <2>1. CASE ReaderStart(g)
    BY <2>1 DEF ReaderStart, Reader,
          TypeFlags, TypeSession, TypeReader, TypeWriter, TypeClient, PcData, ReaderPcs, WriterPcs, ReconPcs, CloserPcs, ClientPcs, Gens, StopChs, NoReq
  <2>2. CASE ReaderCheckStop(g)
    BY <2>2 DEF ReaderCheckStop, Reader,
          TypeFlags, TypeSession, TypeReader, TypeWriter, TypeClient, PcData, ReaderPcs, WriterPcs, ReconPcs, CloserPcs, ClientPcs, Gens, StopChs, NoReq
  <2>3. CASE ReaderGetPort(g)
    BY <2>3 DEF ReaderGetPort, Reader,
          TypeFlags, TypeSession, TypeReader, TypeWriter, TypeClient, PcData, ReaderPcs, WriterPcs, ReconPcs, CloserPcs, ClientPcs, Gens, StopChs, NoReq
  <2>4. CASE ReaderSeq(g)
    <3>1. TypeSession'
      BY <2>4 DEF ReaderSeq, Reader,
            TypeSession, Gens, StopChs, CloserPcs
    <3>2. TypeReader'
      BY <2>4 DEF ReaderSeq, Reader,
            TypeReader, PcData, Gens, StopChs, ReaderPcs
    <3>3. TypeWriter'
      BY <2>4 DEF ReaderSeq, Reader,
            TypeWriter, TypeClient, Gens, StopChs, WriterPcs, ReconPcs
    <3>4. TypeClient'
      BY <2>4 DEF ReaderSeq, Reader,
            TypeClient, TypeWriter, PcData, Clients, Requests, ClientPcs
    <3>5. PcData'
      BY <2>4 DEF ReaderSeq, Reader,
            PcData, TypeReader, TypeWriter, TypeClient
    <3>6. TypeFlags'
      BY <2>4 DEF ReaderSeq, Reader, TypeFlags
    <3> QED
      BY <3>1, <3>2, <3>3, <3>4, <3>5, <3>6
  <2>5. CASE ReaderAppend(g)
    <3>1. TypeSession'
      BY <2>5 DEF ReaderAppend, Reader,
            TypeSession, Gens, StopChs, CloserPcs
    <3>2. TypeReader'
      <4>1. rpc[g] = "append" /\ rseq[g] \in 1..MaxLines
        BY <2>5 DEF ReaderAppend, Reader, TypeReader, PcData
      <4>2. lineLog' \in Seq(1..MaxLines)
        BY <2>5, <4>1, AppendProperties DEF ReaderAppend, TypeReader
      <4>3. rpc' \in [Gens -> ReaderPcs]
        BY <2>5 DEF ReaderAppend, Reader, TypeReader, ReaderPcs
      <4> QED
        BY <2>5, <4>2, <4>3 DEF ReaderAppend, TypeReader
    <3>3. TypeWriter'
      BY <2>5 DEF ReaderAppend, Reader,
            TypeWriter, TypeClient, Gens, StopChs, WriterPcs, ReconPcs
    <3>4. TypeClient'
      BY <2>5 DEF ReaderAppend, Reader,
            TypeClient, TypeWriter, PcData, Clients, Requests, ClientPcs
    <3>5. PcData'
      BY <2>5 DEF ReaderAppend, Reader,
            PcData, TypeReader, TypeWriter, TypeClient
    <3>6. TypeFlags'
      BY <2>5 DEF ReaderAppend, Reader, TypeFlags
    <3> QED
      BY <3>1, <3>2, <3>3, <3>4, <3>5, <3>6
  <2>6. CASE ReaderError(g)
    BY <2>6 DEF ReaderError, Reader,
          TypeFlags, TypeSession, TypeReader, TypeWriter, TypeClient, PcData, ReaderPcs, WriterPcs, ReconPcs, CloserPcs, ClientPcs, Gens, StopChs, NoReq
  <2>7. CASE DisconnectNil(g)
    BY <2>7 DEF DisconnectNil, Reader,
          TypeFlags, TypeSession, TypeReader, TypeWriter, TypeClient, PcData, ReaderPcs, WriterPcs, ReconPcs, CloserPcs, ClientPcs, Gens, StopChs, NoReq
  <2>8. CASE DisconnectLock(g)
    <3>1. TypeSession'
      BY <2>8 DEF DisconnectLock, CloseHandle, Reader,
            TypeSession, Gens, StopChs, CloserPcs
    <3>2. TypeReader'
      BY <2>8 DEF DisconnectLock, CloseHandle, Reader,
            TypeReader, PcData, Gens, StopChs, ReaderPcs
    <3>3. TypeWriter'
      BY <2>8 DEF DisconnectLock, CloseHandle, Reader,
            TypeWriter, TypeClient, Gens, StopChs, WriterPcs, ReconPcs
    <3>4. TypeClient'
      BY <2>8 DEF DisconnectLock, CloseHandle, Reader,
            TypeClient, TypeWriter, PcData, Clients, Requests, ClientPcs
    <3>5. PcData'
      BY <2>8 DEF DisconnectLock, CloseHandle, Reader,
            PcData, TypeReader, TypeWriter, TypeClient
    <3>6. TypeFlags'
      BY <2>8 DEF DisconnectLock, CloseHandle, Reader, TypeFlags
    <3> QED
      BY <3>1, <3>2, <3>3, <3>4, <3>5, <3>6
  <2>9. CASE DisconnectSelect(g)
    BY <2>9 DEF DisconnectSelect, SelectStopCh, Reader,
          TypeFlags, TypeSession, TypeReader, TypeWriter, TypeClient, PcData, ReaderPcs, WriterPcs, ReconPcs, CloserPcs, ClientPcs, Gens, StopChs, NoReq
  <2>10. CASE DisconnectClose(g)
    BY <2>10 DEF DisconnectClose, CloseChannel, Reader,
          TypeFlags, TypeSession, TypeReader, TypeWriter, TypeClient, PcData, ReaderPcs, WriterPcs, ReconPcs, CloserPcs, ClientPcs, Gens, StopChs, NoReq
  <2>11. CASE DisconnectSwap(g)
    <3>1. TypeSession'
      BY <2>11 DEF DisconnectSwap, NewStopCh, Reader,
            TypeSession, Gens, StopChs, CloserPcs
    <3>2. TypeReader'
      BY <2>11 DEF DisconnectSwap, NewStopCh, Reader,
            TypeReader, PcData, Gens, StopChs, ReaderPcs
    <3>3. TypeWriter'
      BY <2>11 DEF DisconnectSwap, NewStopCh, Reader,
            TypeWriter, TypeClient, Gens, StopChs, WriterPcs, ReconPcs
    <3>4. TypeClient'
      BY <2>11 DEF DisconnectSwap, NewStopCh, Reader,
            TypeClient, TypeWriter, PcData, Clients, Requests, ClientPcs
    <3>5. PcData'
      BY <2>11 DEF DisconnectSwap, NewStopCh, Reader,
            PcData, TypeReader, TypeWriter, TypeClient
    <3>6. TypeFlags'
      BY <2>11 DEF DisconnectSwap, NewStopCh, Reader, TypeFlags
    <3> QED
      BY <3>1, <3>2, <3>3, <3>4, <3>5, <3>6
  <2>12. CASE ReaderData(g)
    BY <2>12 DEF ReaderData, Reader,
          TypeFlags, TypeSession, TypeReader, TypeWriter, TypeClient, PcData, ReaderPcs, WriterPcs, ReconPcs, CloserPcs, ClientPcs, Gens, StopChs, NoReq
  <2> QED
    BY <1>6, <2>1, <2>2, <2>3, <2>4, <2>5, <2>6, <2>7, <2>8, <2>9, <2>10, <2>11, <2>12
<1>7. ASSUME NEW g \in Gens, WriterStart(g) \/ WriterStop(g) \/ WriterTake(g) \/ WriterDiscard(g) \/ WriterGetPort(g) \/ WriterWrite(g) PROVE TypeInv'
  <2>1. CASE WriterStart(g)
    BY <2>1 DEF WriterStart, Writer,
          TypeFlags, TypeSession, TypeReader, TypeWriter, TypeClient, PcData, ReaderPcs, WriterPcs, ReconPcs, CloserPcs, ClientPcs, Gens, StopChs, NoReq
  <2>2. CASE WriterStop(g)
    BY <2>2 DEF WriterStop, Writer,
          TypeFlags, TypeSession, TypeReader, TypeWriter, TypeClient, PcData, ReaderPcs, WriterPcs, ReconPcs, CloserPcs, ClientPcs, Gens, StopChs, NoReq
  <2>3. CASE WriterTake(g)
    <3>1. TypeSession'
      BY <2>3 DEF WriterTake, Writer,
            TypeSession, Gens, StopChs, CloserPcs
    <3>2. TypeReader'
      BY <2>3 DEF WriterTake, Writer,
            TypeReader, PcData, Gens, StopChs, ReaderPcs
    <3>3. TypeWriter'
      <4>1. Head(queue) \in Requests
        BY <2>3, HeadTailProperties DEF WriterTake, TypeClient
      <4> QED
        BY <2>3, <4>1 DEF WriterTake, Writer, TypeWriter, WriterPcs
    <3>4. TypeClient'
      BY <2>3 DEF WriterTake, Writer,
            TypeClient, TypeWriter, PcData, Clients, Requests, ClientPcs
    <3>5. PcData'
      BY <2>3 DEF WriterTake, Writer,
            PcData, TypeReader, TypeWriter, TypeClient
    <3>6. TypeFlags'
      BY <2>3 DEF WriterTake, Writer, TypeFlags
    <3> QED
      BY <3>1, <3>2, <3>3, <3>4, <3>5, <3>6
  <2>4. CASE WriterDiscard(g)
    BY <2>4 DEF WriterDiscard, DiscardReply, Writer,
          TypeFlags, TypeSession, TypeReader, TypeWriter, TypeClient, PcData, ReaderPcs, WriterPcs, ReconPcs, CloserPcs, ClientPcs, Gens, StopChs, NoReq
  <2>5. CASE WriterGetPort(g)
    BY <2>5 DEF WriterGetPort, Writer,
          TypeFlags, TypeSession, TypeReader, TypeWriter, TypeClient, PcData, ReaderPcs, WriterPcs, ReconPcs, CloserPcs, ClientPcs, Gens, StopChs, NoReq
  <2>6. CASE WriterWrite(g)
    <3>0. PICK res \in BOOLEAN \X {"ok", "err"} :
             Delivered(g, res[1]) /\ reply' = [reply EXCEPT ![wreq[g]] = res[2]]
      BY <2>6 DEF WriterWrite, WriteResults
    <3>1. TypeSession'
      BY <2>6 DEF WriterWrite, Writer, TypeSession, Gens, StopChs, CloserPcs
    <3>2. TypeReader'
      BY <2>6 DEF WriterWrite, Writer, TypeReader, PcData, Gens, StopChs, ReaderPcs
    <3>3. TypeWriter'
      BY <2>6 DEF WriterWrite, Writer,
            TypeWriter, TypeClient, Gens, StopChs, WriterPcs, ReconPcs
    <3>4. TypeClient'
      <4>1. wreq[g] \in Requests /\ Bytes(wreq[g]) \in 0..MaxReqs
        BY <2>6, SessionAssumption DEF WriterWrite, Writer, PcData, Bytes, Requests, TypeClient
      <4>2. wire' \in Seq(Requests \X (0..MaxReqs))
        BY <3>0, <4>1 DEF Delivered, TypeClient
      <4>3. reply' \in [Requests -> {"none", "ok", "err"}]
        BY <3>0, <4>1 DEF TypeClient
      <4> QED
        BY <2>6, <4>2, <4>3 DEF WriterWrite, Writer, client, TypeClient
    <3>5. PcData'
      BY <2>6 DEF WriterWrite, Writer, PcData, TypeReader, TypeWriter, TypeClient
    <3>6. TypeFlags'
      BY <2>6 DEF WriterWrite, Writer, TypeFlags
    <3> QED
      BY <3>1, <3>2, <3>3, <3>4, <3>5, <3>6
  <2> QED
    BY <1>7, <2>1, <2>2, <2>3, <2>4, <2>5, <2>6
<1>8. ASSUME NEW g \in Gens, ReconStart(g) \/ ReconCheckStop(g) \/ ReconOpen(g) \/ ReconAnnounce(g) PROVE TypeInv'
  <2>1. CASE ReconStart(g)
    BY <2>1 DEF ReconStart, Recon,
          TypeFlags, TypeSession, TypeReader, TypeWriter, TypeClient, PcData, ReaderPcs, WriterPcs, ReconPcs, CloserPcs, ClientPcs, Gens, StopChs, NoReq
  <2>2. CASE ReconCheckStop(g)
    BY <2>2 DEF ReconCheckStop, Recon,
          TypeFlags, TypeSession, TypeReader, TypeWriter, TypeClient, PcData, ReaderPcs, WriterPcs, ReconPcs, CloserPcs, ClientPcs, Gens, StopChs, NoReq
  <2>3. CASE ReconOpen(g)
    <3>1. /\ OpenAlready \/ OpenSucceeds \/ OpenFails
          /\ UNCHANGED <<device, stops, reader, writer, closer, client, queue, notice, xstop>>
          /\ \E to \in {"announce", "check"} : xpc' = [xpc EXCEPT ![g] = to]
      BY <2>3 DEF ReconOpen, Recon, AfterFailedAttempt
    <3>2. TypeSession' /\ TypeReader'
      BY <3>1, OpenTypes DEF TypeSession, TypeReader
    <3>3. TypeWriter' /\ TypeClient'
      BY <3>1, OpenTypes DEF TypeWriter, TypeClient, ReconPcs
    <3>4. PcData'
      BY <3>1, OpenTypes DEF PcData
    <3>5. TypeFlags'
      BY <3>1, OpenTypes DEF TypeFlags
    <3> QED
      BY <3>2, <3>3, <3>4, <3>5
  <2>4. CASE ReconAnnounce(g)
    BY <2>4 DEF ReconAnnounce, Recon,
          TypeFlags, TypeSession, TypeReader, TypeWriter, TypeClient, PcData, ReaderPcs, WriterPcs, ReconPcs, CloserPcs, ClientPcs, Gens, StopChs, NoReq
  <2> QED
    BY <1>8, <2>1, <2>2, <2>3, <2>4
<1>9. ASSUME NEW c \in Clients, ClientBegin(c) \/ ClientCheck(c) \/ ClientOpen(c) \/ SshRead(c) \/ ClientSend(c) \/ ClientAnswered(c) \/ ClientTimeout(c) PROVE TypeInv'
  <2>1. CASE ClientBegin(c)
    BY <2>1 DEF ClientBegin, Client,
          TypeFlags, TypeSession, TypeReader, TypeWriter, TypeClient, PcData, ReaderPcs, WriterPcs, ReconPcs, CloserPcs, ClientPcs, Gens, StopChs, NoReq
  <2>2. CASE ClientCheck(c)
    <3>1. /\ UNCHANGED <<session, rpc, wpc, verdict, typedDown, queue>>
          /\ UNCHANGED <<device, stops, notice, reader, writer, recon, closer>>
      BY <2>2 DEF ClientCheck, ClientReady, Client
    <3>2. ClientReady(c, "check") \/ (Client(c, "check", "open") /\ UNCHANGED sent)
      BY <2>2 DEF ClientCheck
    <3>3. /\ cpc' \in [Clients -> ClientPcs] /\ sent' \in [Clients -> 0..MaxReqs]
          /\ \A d \in Clients :
                cpc'[d] \in {"check", "open"} /\ d \in HttpClients => sent'[d] < MaxReqs
          /\ \A d \in Clients : cpc'[d] \in {"send", "wait"} => sent'[d] >= 1
      BY <3>2, ReadyTypes DEF Client, TypeClient, PcData, ClientPcs
    <3>4. TypeFlags' /\ TypeSession' /\ TypeReader' /\ TypeWriter'
      BY <3>1 DEF TypeFlags, TypeSession, TypeReader, TypeWriter
    <3>5. TypeClient' /\ PcData'
      BY <3>1, <3>3 DEF TypeClient, PcData
    <3> QED
      BY <3>4, <3>5
  <2>3. CASE ClientOpen(c)
    <3>1. /\ UNCHANGED <<device, stops, notice, reader, writer, recon, closer>>
          /\ UNCHANGED <<verdict, typedDown, queue>>
      BY <2>3 DEF ClientOpen, ClientReady, Client
    <3>2. ClientReady(c, "open") \/ (Client(c, "open", "idle") /\ UNCHANGED sent)
      BY <2>3 DEF ClientOpen
    <3>3. /\ cpc' \in [Clients -> ClientPcs] /\ sent' \in [Clients -> 0..MaxReqs]
          /\ \A d \in Clients :
                cpc'[d] \in {"check", "open"} /\ d \in HttpClients => sent'[d] < MaxReqs
          /\ \A d \in Clients : cpc'[d] \in {"send", "wait"} => sent'[d] >= 1
      BY <3>2, ReadyTypes DEF Client, TypeClient, PcData, ClientPcs
    <3>4. OpenAlready \/ OpenSucceeds \/ OpenFails
      BY <2>3 DEF ClientOpen
    <3>5. TypeFlags'
      BY <3>1, <3>4, OpenTypes DEF TypeFlags
    <3>6. TypeSession' /\ TypeReader' /\ TypeWriter'
      BY <3>1, <3>4, OpenTypes DEF TypeSession, TypeReader, TypeWriter
    <3>7. TypeClient' /\ PcData'
      BY <3>1, <3>3, <3>4, OpenTypes DEF TypeClient, PcData
    <3> QED
      BY <3>5, <3>6, <3>7
  <2>4. CASE SshRead(c)
    <3>1. TypeSession'
      BY <2>4 DEF SshRead, NextReq, Client,
            TypeSession, Gens, StopChs, CloserPcs
    <3>2. TypeReader'
      BY <2>4 DEF SshRead, NextReq, Client,
            TypeReader, PcData, Gens, StopChs, ReaderPcs
    <3>3. TypeWriter'
      BY <2>4 DEF SshRead, NextReq, Client,
            TypeWriter, TypeClient, Gens, StopChs, WriterPcs, ReconPcs
    <3>4. TypeClient'
      BY <2>4 DEF SshRead, NextReq, Client,
            TypeClient, TypeWriter, PcData, Clients, Requests, ClientPcs
    <3>5. PcData'
      BY <2>4 DEF SshRead, NextReq, Client,
            PcData, TypeReader, TypeWriter, TypeClient
    <3>6. TypeFlags'
      BY <2>4 DEF SshRead, NextReq, Client, TypeFlags
    <3> QED
      BY <3>1, <3>2, <3>3, <3>4, <3>5, <3>6
  <2>5. CASE ClientSend(c)
    <3>1. TypeSession'
      BY <2>5 DEF ClientSend, Client,
            TypeSession, Gens, StopChs, CloserPcs
    <3>2. TypeReader'
      BY <2>5 DEF ClientSend, Client,
            TypeReader, PcData, Gens, StopChs, ReaderPcs
    <3>3. TypeWriter'
      BY <2>5 DEF ClientSend, Client,
            TypeWriter, TypeClient, Gens, StopChs, WriterPcs, ReconPcs
    <3>4. TypeClient'
      BY <2>5 DEF ClientSend, Client,
            TypeClient, TypeWriter, PcData, Clients, Requests, ClientPcs
    <3>5. PcData'
      BY <2>5 DEF ClientSend, Client,
            PcData, TypeReader, TypeWriter, TypeClient
    <3>6. TypeFlags'
      BY <2>5 DEF ClientSend, Client, TypeFlags
    <3> QED
      BY <3>1, <3>2, <3>3, <3>4, <3>5, <3>6
  <2>6. CASE ClientAnswered(c)
    BY <2>6 DEF ClientAnswered, ClientReturn, Client,
          TypeFlags, TypeSession, TypeReader, TypeWriter, TypeClient, PcData, ReaderPcs, WriterPcs, ReconPcs, CloserPcs, ClientPcs, Gens, StopChs, NoReq
  <2>7. CASE ClientTimeout(c)
    BY <2>7 DEF ClientTimeout, ClientReturn, Client,
          TypeFlags, TypeSession, TypeReader, TypeWriter, TypeClient, PcData, ReaderPcs, WriterPcs, ReconPcs, CloserPcs, ClientPcs, Gens, StopChs, NoReq
  <2> QED
    BY <1>9, <2>1, <2>2, <2>3, <2>4, <2>5, <2>6, <2>7
<1>10. CASE UNCHANGED vars
  BY <1>10 DEF vars, TypeFlags, TypeSession, TypeReader, TypeWriter, TypeClient, PcData
<1> QED
  BY <1>1, <1>2, <1>3, <1>4, <1>5, <1>6, <1>7, <1>8, <1>9, <1>10 DEF Next, ReaderStep, WriterStep, ReconStep, ClientStep

\* Type correctness of the session (TypeOK) for every number of clients,
\* generations and requests.
THEOREM TypeCorrect == Spec => []TypeOK
<1>1. TypeInv => TypeOK
  BY DEF TypeInv
<1> QED
  BY TypeInit, TypeNext, <1>1, PTL DEF Spec

-----------------------------------------------------------------------------
(* Handles, lock and stop channels.  The two safety invariants become       *)
(* inductive with who holds s.mu during handleDisconnect, and with the fact  *)
(* that the channel about to be replaced is closed.                         *)

Locking ==
    /\ mu \in StopChs
    /\ \A g \in Gens : rpc[g] \in {"select", "close", "swap"} <=> mu = g
    /\ mu # 0 => port = 0

SwapClosed == \A g \in Gens : rpc[g] = "swap" => stopCh \in closedStops

SafetyInv == Locking /\ SwapClosed /\ HandleAccounting /\ OldStopsClosed

\* A new session holds nothing and its only stop channel is the current one.
LEMMA SafetyInit == Init => SafetyInv
  BY SessionAssumption DEF Init, SafetyInv, Locking, SwapClosed, HandleAccounting, OldStopsClosed, Gens, StopChs

\* A successful or refused Open keeps the accounting: it runs with s.mu free.
LEMMA OpenSafety ==
  ASSUME TypeOK, SafetyInv, OpenAlready \/ OpenSucceeds \/ OpenFails, UNCHANGED stops,
         \A g \in Gens : xpc[g] = "none" <=> xpc'[g] = "none"
  PROVE  SafetyInv'
<1> USE SessionAssumption DEF TypeOK, SafetyInv, stops
<1>1. CASE OpenAlready \/ OpenFails
  <2>1. UNCHANGED <<session, stops, rpc>>
    BY <1>1 DEF OpenAlready, OpenFails
  <2> QED
    BY <2>1 DEF session, Locking, SwapClosed, HandleAccounting, OldStopsClosed, StopChs, Gens
<1>2. CASE OpenSucceeds
  <2>1. /\ mu = 0 /\ ~connected /\ opens + 1 \in Gens /\ port' = opens + 1 /\ connected'
        /\ handles' = handles \cup {opens + 1} /\ rpc' = [rpc EXCEPT ![opens + 1] = "start"]
        /\ mu' = 0
    BY <1>2 DEF OpenSucceeds, CanOpen, TypeSession, Gens, StopChs
  <2>2. Locking'
    BY <2>1 DEF Locking, Gens, StopChs, TypeReader
  <2>3. SwapClosed'
    BY <2>1 DEF SwapClosed, TypeReader
  <2>4. HandleAccounting'
    <3>1. port = 0 /\ handles = {} /\ opens + 1 # 0
      BY <2>1 DEF HandleAccounting, Gens
    <3> QED
      BY <2>1, <3>1 DEF HandleAccounting
  <2>5. OldStopsClosed'
    BY DEF OldStopsClosed, StopChs, Gens
  <2> QED
    BY <2>2, <2>3, <2>4, <2>5
<1> QED
  BY <1>1, <1>2

\* No step leaks or doubles a handle, or leaves a replaced channel open.
LEMMA SafetyNext == TypeOK /\ SafetyInv /\ [Next]_vars => SafetyInv'
<1> SUFFICES ASSUME TypeOK, SafetyInv, [Next]_vars PROVE SafetyInv'
  OBVIOUS
<1> USE SessionAssumption DEF TypeOK, SafetyInv
<1>1. ASSUME UNCHANGED <<session, stops, rpc>>, \A g \in Gens : xpc[g] = "none" <=> xpc'[g] = "none"
      PROVE  SafetyInv'
  BY <1>1 DEF session, stops, Locking, SwapClosed, HandleAccounting, OldStopsClosed, StopChs, Gens
<1>2. CASE Unplug \/ Plug
  <2>1. CASE Unplug
    BY <2>1 DEF Unplug, stops, recon, Locking, SwapClosed, HandleAccounting, OldStopsClosed
  <2>2. CASE Plug
    BY <1>1, <2>2 DEF Plug, recon
  <2> QED
    BY <1>2, <2>1, <2>2
<1>3. CASE ClosePort \/ CloseSelect \/ CloseStopCh
  <2>1. CASE ClosePort
    BY <2>1 DEF ClosePort, Closer, CloseHandle, stops, recon, TypeSession, StopChs, Gens,
                Locking, SwapClosed, HandleAccounting, OldStopsClosed
  <2>2. CASE CloseSelect
    BY <1>1, <2>2 DEF CloseSelect, Closer, session, recon
  <2>3. CASE CloseStopCh
    BY <2>3 DEF CloseStopCh, Closer, CloseChannel, recon,
                Locking, SwapClosed, HandleAccounting, OldStopsClosed
  <2> QED
    BY <1>3, <2>1, <2>2, <2>3
<1>4. ASSUME NEW g \in Gens, ReaderStep(g) \/ ReaderData(g) PROVE SafetyInv'
  <2>1. ASSUME NEW to \in ReaderPcs \ {"select", "close", "swap"}, UNCHANGED <<session, stops, xpc>>,
               rpc[g] \notin {"select", "close", "swap"}, rpc' = [rpc EXCEPT ![g] = to]
        PROVE  SafetyInv'
    BY <2>1 DEF session, stops, TypeReader, Locking, SwapClosed, HandleAccounting, OldStopsClosed
  <2>2. CASE ReaderStart(g)
    BY <2>1, <2>2 DEF ReaderStart, Reader, ReaderPcs, recon
  <2>3. CASE ReaderCheckStop(g)
    BY <2>1, <2>3 DEF ReaderCheckStop, Reader, ReaderPcs, recon
  <2>4. CASE ReaderGetPort(g)
    BY <2>1, <2>4 DEF ReaderGetPort, Reader, ReaderPcs, recon
  <2>5. CASE ReaderSeq(g)
    BY <2>1, <2>5 DEF ReaderSeq, Reader, ReaderPcs, recon
  <2>6. CASE ReaderAppend(g)
    BY <2>1, <2>6 DEF ReaderAppend, Reader, ReaderPcs, recon
  <2>7. CASE ReaderError(g)
    BY <2>1, <2>7 DEF ReaderError, Reader, ReaderPcs, recon
  <2>8. CASE DisconnectNil(g)
    BY <2>1, <2>8 DEF DisconnectNil, Reader, ReaderPcs, recon
  <2>9. CASE ReaderData(g)
    BY <2>1, <2>9 DEF ReaderData, Reader, ReaderPcs, recon
  <2>10. CASE DisconnectLock(g)
    <3>1. Locking'
      <4>1. mu = 0 /\ mu' = g /\ port' = 0 /\ rpc' = [rpc EXCEPT ![g] = "select"]
        BY <2>10 DEF DisconnectLock, Reader
      <4> QED
        BY <4>1 DEF Locking, TypeReader, TypeSession, Gens, StopChs
    <3>2. SwapClosed'
      BY <2>10 DEF DisconnectLock, CloseHandle, Reader,
             session, stops, recon, TypeSession, TypeReader, TypeWriter, StopChs, Gens, Locking, SwapClosed, HandleAccounting, OldStopsClosed
    <3>3. HandleAccounting'
      BY <2>10 DEF DisconnectLock, CloseHandle, Reader,
             session, stops, recon, TypeSession, TypeReader, TypeWriter, StopChs, Gens, Locking, SwapClosed, HandleAccounting, OldStopsClosed
    <3>4. OldStopsClosed'
      BY <2>10 DEF DisconnectLock, CloseHandle, Reader,
             session, stops, recon, TypeSession, TypeReader, TypeWriter, StopChs, Gens, Locking, SwapClosed, HandleAccounting, OldStopsClosed
    <3> QED
      BY <3>1, <3>2, <3>3, <3>4 DEF SafetyInv
  <2>11. CASE DisconnectSelect(g)
    <3>1. Locking'
      BY <2>11 DEF DisconnectSelect, SelectStopCh, Reader,
             session, stops, recon, TypeSession, TypeReader, TypeWriter, StopChs, Gens, Locking, SwapClosed, HandleAccounting, OldStopsClosed
    <3>2. SwapClosed'
      BY <2>11 DEF DisconnectSelect, SelectStopCh, Reader,
             session, stops, recon, TypeSession, TypeReader, TypeWriter, StopChs, Gens, Locking, SwapClosed, HandleAccounting, OldStopsClosed
    <3>3. HandleAccounting'
      BY <2>11 DEF DisconnectSelect, SelectStopCh, Reader,
             session, stops, recon, TypeSession, TypeReader, TypeWriter, StopChs, Gens, Locking, SwapClosed, HandleAccounting, OldStopsClosed
    <3>4. OldStopsClosed'
      BY <2>11 DEF DisconnectSelect, SelectStopCh, Reader,
             session, stops, recon, TypeSession, TypeReader, TypeWriter, StopChs, Gens, Locking, SwapClosed, HandleAccounting, OldStopsClosed
    <3> QED
      BY <3>1, <3>2, <3>3, <3>4 DEF SafetyInv
  <2>12. CASE DisconnectClose(g)
    <3>1. Locking'
      BY <2>12 DEF DisconnectClose, CloseChannel, Reader,
             session, stops, recon, TypeSession, TypeReader, TypeWriter, StopChs, Gens, Locking, SwapClosed, HandleAccounting, OldStopsClosed
    <3>2. SwapClosed'
      BY <2>12 DEF DisconnectClose, CloseChannel, Reader,
             session, stops, recon, TypeSession, TypeReader, TypeWriter, StopChs, Gens, Locking, SwapClosed, HandleAccounting, OldStopsClosed
    <3>3. HandleAccounting'
      BY <2>12 DEF DisconnectClose, CloseChannel, Reader,
             session, stops, recon, TypeSession, TypeReader, TypeWriter, StopChs, Gens, Locking, SwapClosed, HandleAccounting, OldStopsClosed
    <3>4. OldStopsClosed'
      BY <2>12 DEF DisconnectClose, CloseChannel, Reader,
             session, stops, recon, TypeSession, TypeReader, TypeWriter, StopChs, Gens, Locking, SwapClosed, HandleAccounting, OldStopsClosed
    <3> QED
      BY <3>1, <3>2, <3>3, <3>4 DEF SafetyInv
  <2>13. CASE DisconnectSwap(g)
    <3>1. Locking'
      <4>1. rpc[g] = "swap" /\ mu' = 0 /\ rpc' = [rpc EXCEPT ![g] = "done"]
        BY <2>13 DEF DisconnectSwap, Reader
      <4>2. mu = g
        BY <4>1 DEF Locking
      <4> QED
        BY <4>1, <4>2 DEF Locking, TypeReader, TypeSession, Gens, StopChs
    <3>2. SwapClosed'
      BY <2>13 DEF DisconnectSwap, NewStopCh, Reader,
             session, stops, recon, TypeSession, TypeReader, TypeWriter, StopChs, Gens, Locking, SwapClosed, HandleAccounting, OldStopsClosed
    <3>3. HandleAccounting'
      BY <2>13 DEF DisconnectSwap, NewStopCh, Reader,
             session, stops, recon, TypeSession, TypeReader, TypeWriter, StopChs, Gens, Locking, SwapClosed, HandleAccounting, OldStopsClosed
    <3>4. OldStopsClosed'
      <4>1. /\ rpc[g] = "swap" /\ stopCh' = g /\ closedStops' = closedStops
            /\ xpc' = [xpc EXCEPT ![g] = "start"]
        BY <2>13 DEF DisconnectSwap, Reader, NewStopCh
      <4>2. stopCh \in closedStops
        BY <4>1 DEF SwapClosed
      <4>3. ASSUME NEW s \in StopChs, s = 0 \/ xpc'[s] # "none", s # g PROVE s \in closedStops
        BY <4>1, <4>2, <4>3 DEF OldStopsClosed, TypeWriter, Gens, StopChs
      <4> QED
        BY <4>1, <4>3 DEF OldStopsClosed
    <3> QED
      BY <3>1, <3>2, <3>3, <3>4 DEF SafetyInv
  <2> QED
    BY <1>4, <2>2, <2>3, <2>4, <2>5, <2>6, <2>7, <2>8, <2>9, <2>10, <2>11, <2>12, <2>13 DEF ReaderStep
<1>5. ASSUME NEW g \in Gens, WriterStep(g) PROVE SafetyInv'
  BY <1>1, <1>5 DEF WriterStep, WriterStart, WriterStop, WriterTake, WriterDiscard, WriterGetPort, WriterWrite, Writer, recon
<1>6. ASSUME NEW g \in Gens, ReconStep(g) PROVE SafetyInv'
  <2>1. UNCHANGED stops /\ \A h \in Gens : xpc[h] = "none" <=> xpc'[h] = "none"
    BY <1>6 DEF ReconStep, ReconStart, ReconCheckStop, ReconOpen, ReconAnnounce, Recon,
                AfterFailedAttempt, TypeWriter
  <2>2. \/ UNCHANGED <<session, rpc>>
        \/ OpenAlready \/ OpenSucceeds \/ OpenFails
    BY <1>6 DEF ReconStep, ReconStart, ReconCheckStop, ReconOpen, ReconAnnounce
  <2> QED
    BY <1>1, <2>1, <2>2, OpenSafety
<1>7. ASSUME NEW c \in Clients, ClientBegin(c) \/ SshRead(c) \/ ClientStep(c) PROVE SafetyInv'
  <2>1. UNCHANGED <<stops, xpc>>
    BY <1>7 DEF ClientStep, ClientBegin, ClientCheck, ClientOpen, SshRead, ClientSend, ClientAnswered, ClientTimeout, ClientReady, ClientReturn, Client, recon
  <2>2. \/ UNCHANGED <<session, rpc>>
        \/ OpenAlready \/ OpenSucceeds \/ OpenFails
    BY <1>7 DEF ClientStep, ClientBegin, ClientCheck, ClientOpen, SshRead, ClientSend, ClientAnswered, ClientTimeout, ClientReturn
  <2> QED
    BY <1>1, <2>1, <2>2, OpenSafety
<1>8. CASE UNCHANGED vars
  BY <1>1, <1>8 DEF vars, recon
<1> QED
  BY <1>2, <1>3, <1>4, <1>5, <1>6, <1>7, <1>8 DEF Next

\* s.connected, s.port and the open OS handles always agree, for every number
\* of clients and generations, with or without Close.
THEOREM HandlesAccounted == Spec => []HandleAccounting
<1>1. SafetyInv => HandleAccounting
  BY DEF SafetyInv
<1> QED
  BY TypeCorrect, SafetyInit, SafetyNext, <1>1, PTL DEF Spec

\* Every stop channel that handleDisconnect replaced is closed.
THEOREM OldStopChannelsClosed == Spec => []OldStopsClosed
<1>1. SafetyInv => OldStopsClosed
  BY DEF SafetyInv
<1> QED
  BY TypeCorrect, SafetyInit, SafetyNext, <1>1, PTL DEF Spec

-----------------------------------------------------------------------------
(* A mapping that is never removed goes through Up, GoingDown and Down in    *)
(* turn; the stop channel of generation g is number g - 1, and the one that  *)
(* handleDisconnect makes for its reconnectLoop is number g.                *)

UpPcs == {"start", "check", "lock", "read", "seq", "append", "failed"}

Unopened == opens = 0 /\ port = 0 /\ mu = 0 /\ stopCh = 0 /\ closedStops = {}

Up ==
    /\ rpc[opens] \in UpPcs /\ port = opens /\ mu = 0 /\ stopCh = opens - 1
    /\ \A s \in closedStops : s < opens - 1
    /\ rpc[opens] # "start" => rstop[opens] = opens - 1
    /\ wpc[opens] \notin {"none", "done"}
    /\ wpc[opens] # "start" => wstop[opens] = opens - 1

GoingDown ==
    /\ rpc[opens] \in {"select", "close", "swap"} /\ port = 0 /\ mu = opens
    /\ stopCh = opens - 1 /\ \A s \in closedStops : s < opens

Down ==
    /\ rpc[opens] = "done" /\ port = 0 /\ mu = 0 /\ stopCh = opens
    /\ \A s \in closedStops : s < opens
    /\ xpc[opens] \in {"start", "check", "sleep"}
    /\ xpc[opens] # "start" => xstop[opens] = opens

OneReader == \A g \in Gens : g # opens => rpc[g] \in {"none", "done"}

Life == OneReader /\ (Unopened \/ (opens \in Gens /\ (Up \/ GoingDown \/ Down)))

\* The one line whose number is drawn but not yet appended is the last.
Lines ==
    /\ \A i \in 1..Len(lineLog) : lineLog[i] = i
    /\ \A g \in Gens : rpc[g] = "append" => rseq[g] = seqCounter /\ Len(lineLog) + 1 = seqCounter
    /\ (\A g \in Gens : rpc[g] # "append") => Len(lineLog) = seqCounter

KeptInv == closer = "idle" /\ Life /\ Lines

\* A new session is unopened and has read no line.
LEMMA KeptInit == Init => KeptInv
  BY SessionAssumption DEF Init, KeptInv, Life, Lines, OneReader, Unopened, Gens

\* Open leads from Unopened or Down to Up, and changes nothing otherwise.
LEMMA OpenLife ==
  ASSUME TypeOK, HandleAccounting, Life, OpenSucceeds, UNCHANGED stops
  PROVE  Life' /\ \A g \in Gens : rpc'[g] = "append" <=> rpc[g] = "append"
<1> USE SessionAssumption DEF TypeOK, stops
<1>1. /\ mu' = 0 /\ port = 0 /\ opens + 1 \in Gens /\ opens \in StopChs
      /\ port' = opens + 1 /\ opens' = opens + 1
      /\ rpc' = [rpc EXCEPT ![opens + 1] = "start"] /\ wpc' = [wpc EXCEPT ![opens + 1] = "start"]
  BY DEF OpenSucceeds, CanOpen, HandleAccounting, TypeSession, Gens, StopChs
<1>2. Unopened \/ (opens \in Gens /\ Down)
  BY <1>1 DEF Life, Up, GoingDown, OpenSucceeds, Gens
<1>3. rpc[opens + 1] \in {"none", "done"} /\ (opens \in Gens => rpc[opens] = "done")
  BY <1>1, <1>2 DEF Life, OneReader, Unopened, Down, StopChs, Gens
<1>4. OneReader'
  BY <1>1, <1>3 DEF Life, OneReader, TypeReader, Gens
<1>5. Up'
  <2>1. stopCh' = opens' - 1 /\ \A s \in closedStops' : s < opens' - 1
    BY <1>1, <1>2 DEF Unopened, Down, StopChs
  <2> QED
    BY <1>1, <2>1 DEF Up, UpPcs, TypeReader, TypeWriter
<1> QED
  BY <1>1, <1>3, <1>4, <1>5 DEF Life, TypeReader

\* Every step of a mapping that is kept stays within the three phases and
\* keeps the lines in order.
LEMMA KeptNext ==
  ASSUME ~MayClose, TypeOK, HandleAccounting, KeptInv, [Next]_vars
  PROVE  KeptInv'
<1> USE SessionAssumption DEF TypeOK, KeptInv
<1> DEFINE life == <<mu, port, opens, stopCh, closedStops, rstop>>
<1>1. ASSUME UNCHANGED <<life, lineLog, seqCounter, rseq, rpc, wpc, wstop, xpc, xstop, closer>>
      PROVE  KeptInv'
  BY <1>1 DEF Life, OneReader, Unopened, Up, GoingDown, Down, Lines
<1>2. CASE Unplug \/ Plug
  BY <1>1, <1>2 DEF Unplug, Plug, session, stops, reader, writer, recon
<1>3. CASE ClosePort \/ CloseSelect \/ CloseStopCh
  BY <1>3 DEF ClosePort, CloseSelect, CloseStopCh, Closer
<1>4. ASSUME NEW g \in Gens, ReaderStep(g) \/ ReaderData(g) PROVE KeptInv'
  <2>1. g = opens /\ opens \in Gens /\ closer' = "idle"
    BY <1>4 DEF ReaderStep, ReaderData, ReaderStart, ReaderCheckStop, ReaderGetPort, ReaderSeq,
       ReaderAppend, ReaderError, DisconnectNil, DisconnectLock, DisconnectSelect, DisconnectClose,
       DisconnectSwap, Reader, Life, OneReader
  <2>2. ASSUME NEW to, rpc' = [rpc EXCEPT ![g] = to] PROVE OneReader' \/ opens' # opens
    BY <2>1, <2>2 DEF Life, OneReader, TypeReader
  <2>3. Up \/ GoingDown \/ Down
    BY <2>1 DEF Life, Unopened, Gens
  <2>4. ASSUME NEW to \in UpPcs, rpc[g] \in UpPcs, rpc[g] # "start", rpc' = [rpc EXCEPT ![g] = to],
               to # "start", UNCHANGED <<life, wpc, wstop>>
        PROVE  Life'
    BY <2>1, <2>2, <2>3, <2>4 DEF Life, Up, GoingDown, Down, UpPcs, TypeReader
  <2>5. ASSUME rpc[g] # "append", rpc'[g] # "append", UNCHANGED <<lineLog, seqCounter, rseq>>,
               \A h \in Gens : h # g => rpc'[h] = rpc[h]
        PROVE  Lines'
    BY <2>5 DEF Lines
  <2>6. CASE ReaderStart(g)
    <3>1. rpc[g] = "start" /\ rpc' = [rpc EXCEPT ![g] = "check"]
          /\ rstop' = [rstop EXCEPT ![g] = stopCh]
          /\ UNCHANGED <<mu, port, opens, stopCh, closedStops, wpc, wstop, lineLog, seqCounter, rseq>>
      BY <2>6 DEF ReaderStart, Reader, session, stops, writer
    <3>2. Life'
      BY <2>1, <2>2, <2>3, <3>1 DEF Life, Up, GoingDown, Down, UpPcs, TypeReader, TypeSession
    <3> QED
      BY <2>1, <2>5, <3>1, <3>2 DEF TypeReader
  <2>7. CASE ReaderCheckStop(g)
    <3>1. rpc[g] = "check" /\ UNCHANGED <<life, wpc, wstop, lineLog, seqCounter, rseq>>
          /\ rpc' = [rpc EXCEPT ![g] = IF rstop[g] \in closedStops THEN "done" ELSE "lock"]
      BY <2>7 DEF ReaderCheckStop, Reader, session, stops, writer, reader
    <3>2. rstop[g] \notin closedStops
      BY <2>1, <2>3, <3>1 DEF Up, GoingDown, Down, StopChs, TypeSession, Gens
    <3>3. Life'
      BY <2>4, <3>1, <3>2 DEF UpPcs
    <3> QED
      BY <2>1, <2>5, <3>1, <3>2, <3>3 DEF TypeReader
  <2>8. CASE ReaderGetPort(g)
    <3>1. rpc[g] = "lock" /\ UNCHANGED <<life, wpc, wstop, lineLog, seqCounter, rseq>>
          /\ \E to \in {"check", "read"} : rpc' = [rpc EXCEPT ![g] = to]
      BY <2>8 DEF ReaderGetPort, Reader, session, stops, writer, reader
    <3>2. Life'
      BY <2>4, <3>1 DEF UpPcs
    <3> QED
      BY <2>1, <2>5, <3>1, <3>2 DEF TypeReader
  <2>9. CASE ReaderData(g) \/ ReaderError(g)
    <3>1. rpc[g] = "read" /\ UNCHANGED <<life, wpc, wstop, lineLog, seqCounter, rseq>>
          /\ \E to \in {"seq", "failed"} : rpc' = [rpc EXCEPT ![g] = to]
      BY <2>9 DEF ReaderData, ReaderError, Reader, session, stops, writer, reader
    <3>2. Life'
      BY <2>4, <3>1 DEF UpPcs
    <3> QED
      BY <2>1, <2>5, <3>1, <3>2 DEF TypeReader
  <2>10. CASE ReaderSeq(g)
    <3>1. rpc[g] = "seq" /\ rpc' = [rpc EXCEPT ![g] = "append"]
          /\ UNCHANGED <<life, wpc, wstop, lineLog>>
          /\ seqCounter' = seqCounter + 1 /\ rseq' = [rseq EXCEPT ![g] = seqCounter + 1]
      BY <2>10 DEF ReaderSeq, Reader, session, stops, writer
    <3>2. Life'
      BY <2>4, <3>1 DEF UpPcs
    <3>3. \A h \in Gens : rpc[h] # "append"
      BY <2>1, <3>1 DEF Life, OneReader
    <3>4. Lines'
      BY <3>1, <3>3 DEF Lines, TypeReader
    <3> QED
      BY <2>1, <3>2, <3>4
  <2>11. CASE ReaderAppend(g)
    <3>1. rpc[g] = "append" /\ UNCHANGED <<life, wpc, wstop, seqCounter, rseq>>
          /\ lineLog' = Append(lineLog, rseq[g])
          /\ \E to \in {"check", "seq"} : rpc' = [rpc EXCEPT ![g] = to]
      BY <2>11 DEF ReaderAppend, Reader, session, stops, writer
    <3>2. Life'
      BY <2>4, <3>1 DEF UpPcs
    <3>3. rseq[g] = seqCounter /\ Len(lineLog) + 1 = seqCounter /\ seqCounter \in 1..MaxLines
      BY <3>1 DEF Lines, TypeReader
    <3>4. \A h \in Gens : rpc'[h] # "append"
      BY <2>1, <3>1 DEF Life, OneReader, TypeReader
    <3>5. Len(lineLog') = seqCounter /\ \A i \in 1..Len(lineLog') : lineLog'[i] = i
      <4>1. lineLog \in Seq(1..MaxLines) /\ rseq[g] \in 1..MaxLines
        BY <3>3 DEF TypeReader
      <4> QED
        BY <3>1, <3>3, <4>1, AppendProperties DEF Lines
    <3> QED
      BY <2>1, <3>1, <3>2, <3>4, <3>5 DEF Lines
  <2>12. CASE DisconnectNil(g)
    <3>1. rpc[g] = "failed" /\ port = 0
      BY <2>12 DEF DisconnectNil, Reader
    <3> QED
      BY <2>1, <2>3, <3>1 DEF Up, GoingDown, Down, Gens
  <2>13. CASE DisconnectLock(g)
    <3>1. /\ rpc[g] = "failed" /\ rpc' = [rpc EXCEPT ![g] = "select"] /\ port' = 0 /\ mu' = g
          /\ UNCHANGED <<opens, stopCh, closedStops, lineLog, seqCounter, rseq>>
      BY <2>13 DEF DisconnectLock, Reader, stops, reader
    <3>2. Life'
      <4>1. Up
        BY <2>1, <2>3, <3>1 DEF GoingDown, Down
      <4>2. GoingDown'
        BY <2>1, <3>1, <4>1 DEF Up, GoingDown, TypeReader, TypeSession, StopChs, Gens
      <4>3. OneReader'
        BY <2>2, <3>1
      <4> QED
        BY <2>1, <3>1, <4>2, <4>3 DEF Life
    <3> QED
      BY <2>1, <2>5, <3>1, <3>2 DEF TypeReader
  <2>14. CASE DisconnectSelect(g) \/ DisconnectClose(g)
    <3>1. /\ rpc[g] \in {"select", "close"} /\ \E to \in {"close", "swap"} : rpc' = [rpc EXCEPT ![g] = to]
          /\ UNCHANGED <<opens, stopCh, port, mu, lineLog, seqCounter, rseq>>
          /\ closedStops' \subseteq closedStops \cup {stopCh}
      BY <2>14 DEF DisconnectSelect, DisconnectClose, SelectStopCh, CloseChannel, Reader, session, stops, reader
    <3>2. Life'
      <4>1. GoingDown
        BY <2>1, <2>3, <3>1 DEF Up, UpPcs, Down
      <4>2. GoingDown'
        <5>1. rpc'[opens'] \in {"select", "close", "swap"}
          BY <2>1, <3>1 DEF TypeReader
        <5>2. \A s \in closedStops' : s < opens
          BY <2>1, <3>1, <4>1 DEF GoingDown, TypeSession, StopChs, Gens
        <5> QED
          BY <3>1, <4>1, <5>1, <5>2 DEF GoingDown
      <4>3. OneReader'
        BY <2>2, <3>1
      <4> QED
        BY <2>1, <3>1, <4>2, <4>3 DEF Life
    <3> QED
      BY <2>1, <2>5, <3>1, <3>2 DEF TypeReader
  <2>15. CASE DisconnectSwap(g)
    <3>1. /\ rpc[g] = "swap" /\ rpc' = [rpc EXCEPT ![g] = "done"] /\ mu' = 0 /\ stopCh' = g
          /\ UNCHANGED <<opens, port, closedStops, lineLog, seqCounter, rseq>>
          /\ xpc' = [xpc EXCEPT ![g] = "start"]
      BY <2>15 DEF DisconnectSwap, NewStopCh, Reader, reader
    <3>2. Life'
      BY <2>1, <2>2, <2>3, <3>1 DEF Life, Up, UpPcs, GoingDown, Down, TypeReader, TypeWriter, TypeSession, StopChs, Gens
    <3> QED
      BY <2>1, <2>5, <3>1, <3>2 DEF TypeReader
  <2> QED
    BY <1>4, <2>6, <2>7, <2>8, <2>9, <2>10, <2>11, <2>12, <2>13, <2>14, <2>15 DEF ReaderStep
<1>5. ASSUME NEW g \in Gens, WriterStep(g) PROVE KeptInv'
  <2>1. UNCHANGED <<life, rpc, lineLog, seqCounter, rseq, xpc, xstop, closer>>
    BY <1>5 DEF WriterStep, WriterStart, WriterStop, WriterTake, WriterDiscard, WriterGetPort, WriterWrite,
       Writer, session, stops, reader, recon
  <2>2. /\ \E from \in {"start", "select", "lock", "write"}, to \in {"select", "lock", "write", "done"} :
             /\ wpc[g] = from /\ wpc' = [wpc EXCEPT ![g] = to]
             /\ to = "done" => wstop[g] \in closedStops /\ from = "select"
             /\ IF from = "start" THEN wstop' = [wstop EXCEPT ![g] = stopCh] ELSE wstop' = wstop
    BY <1>5 DEF WriterStep, WriterStart, WriterStop, WriterTake, WriterDiscard, WriterGetPort, WriterWrite,
       Writer, writer
  <2>3. ASSUME opens \in Gens, Up PROVE Up'
    <3>1. CASE g = opens
      <4>1. wstop[opens] \notin closedStops \/ wpc[opens] = "start"
        BY <2>3 DEF Up, TypeSession, StopChs, Gens
      <4>2. wpc'[opens] \notin {"none", "done"} /\ wpc'[opens] # "start"
        BY <2>2, <3>1, <4>1 DEF TypeWriter
      <4>3. wstop'[opens] = opens - 1
        BY <2>2, <2>3, <3>1 DEF Up, TypeWriter
      <4> QED
        BY <2>1, <2>3, <4>2, <4>3 DEF Up
    <3>2. CASE g # opens
      <4>1. wpc'[opens] = wpc[opens] /\ wstop'[opens] = wstop[opens]
        BY <2>2, <2>3, <3>2 DEF TypeWriter
      <4> QED
        BY <2>1, <2>3, <4>1 DEF Up
    <3> QED
      BY <3>1, <3>2
  <2> QED
    BY <2>1, <2>3 DEF Life, OneReader, Unopened, GoingDown, Down, Lines
<1>6. ASSUME NEW g \in Gens, ReconStep(g) PROVE KeptInv'
  <2>1. UNCHANGED <<stops, rstop, lineLog, seqCounter, rseq, wstop, closer>>
    BY <1>6 DEF ReconStep, ReconStart, ReconCheckStop, ReconOpen, ReconAnnounce, Recon, reader, writer
  <2>2. CASE OpenSucceeds
    BY <2>1, <2>2, OpenLife DEF Lines
  <2>3. CASE ~OpenSucceeds
    <3>1. UNCHANGED <<life, rpc, wpc>>
      BY <1>6, <2>1, <2>3 DEF ReconStep, ReconStart, ReconCheckStop, ReconOpen, ReconAnnounce,
         OpenAlready, OpenFails, session, stops
    <3>2. ASSUME opens \in Gens, Down, g = opens PROVE Down'
      <4>1. mu = 0 /\ ~connected /\ xpc[g] \in {"start", "check", "sleep"} /\ stopCh \notin closedStops
        BY <3>2 DEF Down, HandleAccounting, TypeSession, StopChs
      <4>2. \/ xpc[g] = "start" /\ xpc' = [xpc EXCEPT ![g] = "check"] /\ xstop' = [xstop EXCEPT ![g] = stopCh]
            \/ xpc[g] = "check" /\ xstop' = xstop
               /\ xpc' = [xpc EXCEPT ![g] = IF xstop[g] \in closedStops THEN "done" ELSE "sleep"]
            \/ xpc[g] = "sleep" /\ xpc' = [xpc EXCEPT ![g] = "check"] /\ xstop' = xstop
        BY <1>6, <2>3, <4>1 DEF ReconStep, ReconStart, ReconCheckStop, ReconOpen, ReconAnnounce, Recon,
           OpenAlready, AfterFailedAttempt
      <4> QED
        BY <3>1, <3>2, <4>1, <4>2 DEF Down, TypeWriter
    <3>3. ASSUME opens \in Gens, Down, g # opens PROVE Down'
      <4>1. xpc'[opens] = xpc[opens] /\ xstop'[opens] = xstop[opens]
        BY <1>6, <3>3 DEF ReconStep, ReconStart, ReconCheckStop, ReconOpen, ReconAnnounce, Recon, TypeWriter
      <4> QED
        BY <3>1, <3>3, <4>1 DEF Down
    <3> QED
      BY <2>1, <3>1, <3>2, <3>3 DEF Life, OneReader, Unopened, Up, GoingDown, Lines
  <2> QED
    BY <2>2, <2>3
<1>7. ASSUME NEW c \in Clients, ClientBegin(c) \/ SshRead(c) \/ ClientStep(c) PROVE KeptInv'
  <2>1. UNCHANGED <<stops, reader, wstop, xpc, xstop, closer>>
    BY <1>7 DEF ClientStep, ClientBegin, ClientCheck, ClientOpen, SshRead, ClientSend, ClientAnswered,
       ClientTimeout, ClientReady, ClientReturn, Client, writer, recon
  <2>2. UNCHANGED <<session, rpc, wpc>> \/ OpenSucceeds
    BY <1>7 DEF ClientStep, ClientBegin, ClientCheck, ClientOpen, SshRead, ClientSend, ClientAnswered,
       ClientTimeout, ClientReturn, OpenAlready, OpenFails
  <2> QED
    BY <1>1, <2>1, <2>2, OpenLife DEF session, stops, reader, Lines
<1>8. CASE UNCHANGED vars
  BY <1>1, <1>8 DEF vars, session, stops, reader, writer, recon
<1> QED
  BY <1>2, <1>3, <1>4, <1>5, <1>6, <1>7, <1>8 DEF Next

\* The three invariants of a kept mapping follow from its phases.
LEMMA KeptImplies == TypeOK /\ HandleAccounting /\ (~MayClose => KeptInv) => Served /\ Recovering /\ LinesInOrder
<1> SUFFICES ASSUME TypeOK, HandleAccounting, ~MayClose => KeptInv PROVE Served /\ Recovering /\ LinesInOrder
  OBVIOUS
<1> USE DEF KeptInv
<1>1. Served
  BY DEF Served, Life, Unopened, Up, UpPcs, GoingDown, Down, TypeOK, TypeSession, StopChs, Gens
<1>2. Recovering
  BY DEF Recovering, Life, Unopened, Up, GoingDown, Down, TypeOK, TypeSession, StopChs, Gens
<1>3. LinesInOrder
  BY DEF LinesInOrder, Lines
<1> QED
  BY <1>1, <1>2, <1>3

\* The three together hold in every reachable state.
LEMMA KeptSafe == Spec => [](Served /\ Recovering /\ LinesInOrder)
<1> DEFINE Kept == ~MayClose => KeptInv
<1>1. Init => Kept
  BY KeptInit
<1>2. TypeOK /\ HandleAccounting /\ Kept /\ [Next]_vars => Kept'
  BY KeptNext
<1>3. TypeOK /\ HandleAccounting /\ Kept => Served /\ Recovering /\ LinesInOrder
  BY KeptImplies
<1> QED
  BY <1>1, <1>2, <1>3, TypeCorrect, HandlesAccounted, PTL DEF Spec

\* Without Close, an open port always has its own readLoop and writeLoop, both
\* on the current stop channel: no connected session is deaf.
THEOREM KeptIsServed == Spec => []Served
  BY KeptSafe, PTL

\* Without Close, a lost port always has a reconnectLoop that will not give up.
THEOREM KeptIsRecovering == Spec => []Recovering
  BY KeptSafe, PTL

\* Without Close, lines reach the ring buffer in the order of their numbers,
\* without gaps, however often the device was lost and reopened.
THEOREM KeptLinesInOrder == Spec => []LinesInOrder
  BY KeptSafe, PTL

-----------------------------------------------------------------------------
(* Requests.  A verdict is about one request, so the invariant follows each *)
(* request from the client through the queue and a writeLoop to the wire.   *)

InQueue(r) == \E i \in 1..Len(queue) : queue[i] = r
Pending(r) == InQueue(r) \/ \E g \in Gens : Holds(g) /\ wreq[g] = r
OnWire(r) == \E i \in 1..Len(wire) : wire[i][1] = r

\* A request is in one place.
Once ==
    /\ \A i, j \in 1..Len(queue) : queue[i] = queue[j] => i = j
    /\ \A g \in Gens : Holds(g) => ~InQueue(wreq[g])
    /\ \A g, h \in Gens : Holds(g) /\ Holds(h) /\ wreq[g] = wreq[h] => g = h

\* Before it is sent nobody knows of it, and until it leaves its writeLoop it
\* has no answer.
Waiting ==
    /\ \A r \in Requests : Unsent(r) => reply[r] = "none" /\ verdict[r] = "none"
    /\ \A r \in Requests : Pending(r) => reply[r] = "none" /\ ~Unsent(r)

\* The device has it, or part of it, once at most, if the answer is "ok", and
\* only if there is an answer; its bytes are those of the moment, which the
\* client may have typed later.
Written ==
    /\ \A i, j \in 1..Len(wire) : wire[i][1] = wire[j][1] => i = j
    /\ \A r \in Requests : reply[r] = "ok" => OnWire(r)
    /\ \A r \in Requests : OnWire(r) => reply[r] # "none"
    /\ \A i \in 1..Len(wire) : wire[i][2] >= wire[i][1][2] /\ wire[i][2] <= sent[wire[i][1][1]]

\* A client that was answered was told the answer, before it typed again.
Told ==
    /\ \A r \in Requests : verdict[r] \in {"ok", "err"} => verdict[r] = reply[r]
    /\ \A i \in 1..Len(wire) :
          verdict[wire[i][1]] \in {"ok", "err"} => wire[i][2] = wire[i][1][2]

RequestInv == Once /\ Waiting /\ Written /\ Told

\* What p.Write reports: never success if nothing reached the device.
LEMMA ResultOfWrite ==
  ASSUME NEW h, NEW res \in WriteResults(h)
  PROVE  /\ res[1] \in BOOLEAN /\ res[2] \in {"ok", "err"}
         /\ res[2] = "ok" => res[1] = TRUE
<1>1. res \in BOOLEAN \X {"err"} \/ res = <<TRUE, "ok">>
  BY DEF WriteResults
<1>2. CASE res \in BOOLEAN \X {"err"}
  <2>1. res[1] \in BOOLEAN /\ res[2] = "err"
    BY <1>2
  <2> QED
    BY <2>1
<1>3. CASE res = <<TRUE, "ok">>
  <2>1. res[1] = TRUE /\ res[2] = "ok"
    BY <1>3
  <2> QED
    BY <2>1
<1> QED
  BY <1>1, <1>2, <1>3

\* The types the steps below rely on.
LEMMA RequestTypes ==
  ASSUME TypeInv
  PROVE  /\ \A r \in Requests : r[1] \in Clients /\ r[2] \in Nat
         /\ \A c \in Clients : sent[c] \in Nat
         /\ \A i \in 1..Len(queue) : queue[i] \in Requests
         /\ \A i \in 1..Len(wire) : wire[i][1] \in Requests /\ wire[i][2] \in Nat
         /\ Len(queue) \in Nat /\ Len(wire) \in Nat
         /\ \A g \in Gens : Holds(g) => wreq[g] \in Requests
<1> USE SessionAssumption DEF TypeInv, TypeOK, TypeClient, TypeWriter
<1>1. \A r \in Requests : r[1] \in Clients /\ r[2] \in Nat
  BY DEF Requests
<1>2. \A c \in Clients : sent[c] \in Nat
  OBVIOUS
<1>3. \A i \in 1..Len(queue) : queue[i] \in Requests
  BY ElementOfSeq
<1>4. \A i \in 1..Len(wire) : wire[i] \in Requests \X (0..MaxReqs)
  BY ElementOfSeq
<1>5. Len(queue) \in Nat /\ Len(wire) \in Nat
  BY LenProperties
<1>6. \A g \in Gens : Holds(g) => wreq[g] \in Requests
  BY DEF PcData, Holds
<1> QED
  BY <1>1, <1>2, <1>3, <1>4, <1>5, <1>6

\* A session starts without requests.
LEMMA RequestInit == Init => RequestInv
<1> SUFFICES ASSUME Init PROVE RequestInv
  OBVIOUS
<1>1. queue = <<>> /\ wire = <<>> /\ Len(queue) = 0 /\ Len(wire) = 0 /\ \A g \in Gens : ~Holds(g)
  BY DEF Init, Holds
<1>2. \A r \in Requests : reply[r] = "none" /\ verdict[r] = "none"
  BY DEF Init
<1> QED
  BY <1>1, <1>2 DEF RequestInv, Once, Waiting, Written, Told, Pending, InQueue, OnWire

\* Steps that move no request.  (Open makes a writeLoop that holds none; a
\* client that makes its next request ends the time of the last one.)
LEMMA RequestsStay ==
  ASSUME TypeInv, TypeInv', RequestInv, UNCHANGED <<queue, wire, reply, verdict>>,
         \A g \in Gens : Holds(g)' => Holds(g) /\ wreq'[g] = wreq[g],
         \A r \in Requests : Unsent(r)' => Unsent(r),
         \A c \in Clients : sent'[c] >= sent[c]
  PROVE  RequestInv'
<1> USE RequestTypes DEF RequestInv
<1>1. \A r \in Requests : InQueue(r)' = InQueue(r) /\ OnWire(r)' = OnWire(r) /\ (Pending(r)' => Pending(r))
  BY DEF InQueue, OnWire, Pending
<1>2. Once'
  <2>1. \A g \in Gens : Holds(g)' => ~InQueue(wreq[g])'
    BY DEF Once, InQueue
  <2> QED
    BY <2>1 DEF Once
<1>3. Waiting'
  BY <1>1 DEF Waiting
<1>4. Written'
  <2>1. \A i \in 1..Len(wire) : wire[i][2] <= sent'[wire[i][1][1]]
    <3>1. TAKE i \in 1..Len(wire)
    <3>2. wire[i][1][1] \in Clients /\ wire[i][2] \in Nat
      OBVIOUS
    <3>3. sent[wire[i][1][1]] \in Nat /\ sent'[wire[i][1][1]] \in Nat
      BY <3>2, SessionAssumption DEF TypeInv, TypeOK, TypeClient
    <3> QED
      BY <3>2, <3>3 DEF Written
  <2> QED
    BY <1>1, <2>1 DEF Written
<1>5. Told'
  BY DEF Told
<1> QED
  BY <1>2, <1>3, <1>4, <1>5

\* A writeLoop takes the request at the head of the queue.
LEMMA RequestTaken ==
  ASSUME TypeInv, RequestInv, NEW g \in Gens, WriterTake(g)
  PROVE  RequestInv'
<1> USE RequestTypes DEF RequestInv
<1>1. /\ queue # <<>> /\ ~Holds(g)
      /\ wpc' = [wpc EXCEPT ![g] = "lock"] /\ wreq' = [wreq EXCEPT ![g] = Head(queue)]
      /\ queue' = Tail(queue) /\ UNCHANGED <<sent, cpc, reply, verdict, wire>>
  BY DEF WriterTake, Writer, Holds, client
<1>2. /\ Len(queue) \in Nat \ {0} /\ Head(queue) = queue[1] /\ Len(queue') = Len(queue) - 1
      /\ \A i \in 1..Len(queue') : queue'[i] = queue[i + 1]
  BY <1>1, HeadTailProperties, EmptySeq DEF TypeInv, TypeOK, TypeClient
<1>3. /\ \A h \in Gens : Holds(h)' <=> Holds(h) \/ h = g
      /\ \A h \in Gens : wreq'[h] = IF h = g THEN queue[1] ELSE wreq[h]
  BY <1>1, <1>2 DEF Holds, TypeInv, TypeOK, TypeWriter
<1>4. \A r : InQueue(r)' <=> InQueue(r) /\ r # queue[1]
  <2>1. \A i, j \in 1..Len(queue) : queue[i] = queue[j] => i = j
    BY DEF Once
  <2>2. ASSUME NEW r, InQueue(r)' PROVE InQueue(r) /\ r # queue[1]
    <3>1. PICK i \in 1..Len(queue') : queue'[i] = r
      BY <2>2 DEF InQueue
    <3>2. i + 1 \in 1..Len(queue) /\ queue[i + 1] = r /\ i + 1 # 1 /\ 1 \in 1..Len(queue)
      BY <1>2, <3>1
    <3> QED
      BY <2>1, <3>2 DEF InQueue
  <2>3. ASSUME NEW r, InQueue(r), r # queue[1] PROVE InQueue(r)'
    <3>1. PICK i \in 1..Len(queue) : queue[i] = r
      BY <2>3 DEF InQueue
    <3>2. i - 1 \in 1..Len(queue') /\ queue'[i - 1] = queue[(i - 1) + 1] /\ (i - 1) + 1 = i
      BY <1>2, <2>3, <3>1
    <3> QED
      BY <3>1, <3>2 DEF InQueue
  <2> QED
    BY <2>2, <2>3
<1>5. InQueue(queue[1])
  BY <1>2 DEF InQueue
<1>6. Once'
  <2>1. \A i, j \in 1..Len(queue') : queue'[i] = queue'[j] => i = j
    <3>1. TAKE i, j \in 1..Len(queue')
    <3>2. i + 1 \in 1..Len(queue) /\ j + 1 \in 1..Len(queue)
      BY <1>2
    <3>3. queue'[i] = queue'[j] => i + 1 = j + 1
      BY <1>2, <3>2 DEF Once
    <3> QED
      BY <1>2, <3>3
  <2>2. \A h \in Gens : Holds(h)' => ~InQueue(wreq[h])'
    BY <1>3, <1>4 DEF Once
  <2>3. \A h, k \in Gens : Holds(h)' /\ Holds(k)' /\ wreq'[h] = wreq'[k] => h = k
    BY <1>3, <1>5 DEF Once
  <2> QED
    BY <2>1, <2>2, <2>3 DEF Once
<1>7. \A r \in Requests : Pending(r)' => Pending(r)
  BY <1>3, <1>4, <1>5 DEF Pending
<1>8. \A r : Unsent(r)' = Unsent(r) /\ OnWire(r)' = OnWire(r)
  BY <1>1 DEF Unsent, OnWire
<1> QED
  BY <1>1, <1>6, <1>7, <1>8 DEF Waiting, Written, Told

\* A writeLoop lets go of its request: discarded, or with the answer of Write,
\* which is never "ok" if nothing reached the device.
LEMMA RequestLeaves ==
  ASSUME TypeInv, RequestInv, NEW g \in Gens, Holds(g), NEW r \in Requests, r = wreq[g],
         wpc' = [wpc EXCEPT ![g] = "select"], UNCHANGED <<queue, sent, cpc, verdict>>,
         wreq' = [wreq EXCEPT ![g] = NoReq],
         NEW answer \in {"none", "ok", "err"}, reply' = [reply EXCEPT ![r] = answer],
         NEW reached \in BOOLEAN, answer = "ok" => reached, reached => answer # "none",
         wire' = IF reached THEN Append(wire, <<r, Bytes(r)>>) ELSE wire
  PROVE  RequestInv'
<1> USE RequestTypes DEF RequestInv
<1>1. /\ \A h \in Gens : Holds(h)' <=> Holds(h) /\ h # g
      /\ \A h \in Gens : Holds(h)' => wreq'[h] = wreq[h]
  BY DEF Holds, TypeInv, TypeOK, TypeWriter
<1>2. /\ \A q : InQueue(q)' = InQueue(q) /\ Unsent(q)' = Unsent(q)
      /\ \A q \in Requests : Pending(q)' => Pending(q) /\ q # r
  <2>1. \A q : InQueue(q)' = InQueue(q) /\ Unsent(q)' = Unsent(q)
    BY DEF InQueue, Unsent
  <2>2. ~InQueue(r) /\ \A h \in Gens : Holds(h) /\ h # g => wreq[h] # r
    BY DEF Once
  <2> QED
    BY <1>1, <2>1, <2>2 DEF Pending
<1>3. Once'
  <2>1. \A h \in Gens : Holds(h)' => ~InQueue(wreq[h])'
    BY <1>1, <1>2 DEF Once
  <2> QED
    BY <1>1, <2>1 DEF Once
<1>4. Pending(r) /\ reply[r] = "none" /\ ~Unsent(r) /\ ~OnWire(r)
  <2>1. Pending(r)
    BY DEF Pending
  <2> QED
    BY <2>1 DEF Waiting, Written
<1>5. \A q \in Requests : reply'[q] = IF q = r THEN answer ELSE reply[q]
  BY DEF TypeInv, TypeOK, TypeClient
<1>6. Waiting'
  BY <1>2, <1>4, <1>5 DEF Waiting
<1>7. CASE ~reached
  <2>1. wire' = wire /\ \A q : OnWire(q)' = OnWire(q)
    BY <1>7 DEF OnWire
  <2>2. Written'
    BY <1>4, <1>5, <1>7, <2>1 DEF Written
  <2>3. Told'
    <3>1. verdict[r] \notin {"ok", "err"}
      BY <1>4 DEF Told
    <3> QED
      BY <1>5, <2>1, <3>1 DEF Told
  <2> QED
    BY <1>3, <1>6, <2>2, <2>3
<1>8. CASE reached
  <2>1. /\ Len(wire') = Len(wire) + 1 /\ wire'[Len(wire) + 1] = <<r, Bytes(r)>>
        /\ \A i \in 1..Len(wire) : wire'[i] = wire[i]
    <3>1. Bytes(r) \in 0..MaxReqs
      BY SessionAssumption DEF Bytes, Requests, TypeInv, TypeOK, TypeClient
    <3>2. <<r, Bytes(r)>> \in Requests \X (0..MaxReqs) /\ wire \in Seq(Requests \X (0..MaxReqs))
      BY <3>1 DEF TypeInv, TypeOK, TypeClient
    <3> QED
      BY <1>8, <3>2, AppendProperties
  <2>2. Bytes(r) >= r[2] /\ Bytes(r) <= sent[r[1]]
    <3>1. r[1] \in Clients /\ r[2] \in Nat /\ sent[r[1]] \in Nat /\ r[2] <= sent[r[1]]
      BY <1>4 DEF Unsent
    <3> QED
      BY <3>1 DEF Bytes
  <2>3. \A q \in Requests : OnWire(q)' <=> OnWire(q) \/ q = r
    BY <2>1 DEF OnWire
  <2>4. \A i \in 1..Len(wire) : wire[i][1] # r
    BY <1>4 DEF OnWire
  <2>5. \A i \in 1..Len(wire') : i \in 1..Len(wire) \/ i = Len(wire) + 1
    BY <2>1
  <2>6. Written'
    <3>1. \A i, j \in 1..Len(wire') : wire'[i][1] = wire'[j][1] => i = j
      BY <2>1, <2>4, <2>5 DEF Written
    <3>2. \A q \in Requests : /\ reply'[q] = "ok" => OnWire(q)'
                              /\ OnWire(q)' => reply'[q] # "none"
      BY <1>5, <1>8, <2>3 DEF Written
    <3>3. \A i \in 1..Len(wire') : wire'[i][2] >= wire'[i][1][2] /\ wire'[i][2] <= sent[wire'[i][1][1]]
      BY <2>1, <2>2, <2>5 DEF Written
    <3> QED
      BY <3>1, <3>2, <3>3 DEF Written
  <2>7. verdict[r] \notin {"ok", "err"}
    BY <1>4 DEF Told
  <2>8. Told'
    <3>1. \A q \in Requests : verdict[q] \in {"ok", "err"} => verdict[q] = reply'[q]
      BY <1>5, <2>7 DEF Told
    <3>2. \A i \in 1..Len(wire') :
             verdict[wire'[i][1]] \in {"ok", "err"} => wire'[i][2] = wire'[i][1][2]
      BY <2>1, <2>5, <2>7 DEF Told
    <3> QED
      BY <3>1, <3>2 DEF Told
  <2> QED
    BY <1>3, <1>6, <2>6, <2>8
<1> QED
  BY <1>7, <1>8

\* A client puts its request into the queue.
LEMMA RequestSent ==
  ASSUME TypeInv, RequestInv, NEW c \in Clients, ClientSend(c)
  PROVE  RequestInv'
<1> USE RequestTypes DEF RequestInv
<1> DEFINE r == <<c, sent[c]>>
<1>1. /\ cpc[c] = "send" /\ cpc' = [cpc EXCEPT ![c] = "wait"] /\ queue' = Append(queue, r)
      /\ UNCHANGED <<wpc, wreq, sent, reply, verdict, wire>>
  BY DEF ClientSend, Client, writer
<1>2. r \in Requests /\ Unsent(r)
  BY <1>1, SessionAssumption DEF TypeInv, TypeOK, TypeClient, PcData, Requests, Unsent
<1>3. /\ Len(queue') = Len(queue) + 1 /\ queue'[Len(queue) + 1] = r
      /\ \A i \in 1..Len(queue) : queue'[i] = queue[i]
  <2>1. queue \in Seq(Requests)
    BY DEF TypeInv, TypeOK, TypeClient
  <2> HIDE DEF r
  <2> QED
    BY <1>1, <1>2, <2>1, AppendProperties
<1>4. \A q \in Requests : Unsent(q)' <=> Unsent(q) /\ q # r
  <2>1. TAKE q \in Requests
  <2>2. q = <<q[1], q[2]>> /\ q[1] \in Clients
    BY DEF Requests
  <2>3. CASE q[1] = c
    <3>1. cpc'[q[1]] = "wait" /\ q[2] \in Nat /\ sent[c] \in Nat
      BY <1>1, <2>3 DEF TypeInv, TypeOK, TypeClient
    <3> QED
      BY <1>1, <2>2, <2>3, <3>1 DEF Unsent
  <2>4. CASE q[1] # c
    BY <1>1, <2>2, <2>4 DEF Unsent, TypeInv, TypeOK, TypeClient
  <2> QED
    BY <2>3, <2>4
<1> HIDE DEF r
<1>5. ~Pending(r)
  BY <1>2 DEF Waiting
<1>6. \A q : InQueue(q)' <=> InQueue(q) \/ q = r
  <2>1. \A i \in 1..Len(queue') : i \in 1..Len(queue) \/ i = Len(queue) + 1
    BY <1>3
  <2> QED
    BY <1>3, <2>1 DEF InQueue
<1>7. \A g \in Gens : Holds(g)' = Holds(g)
  BY <1>1 DEF Holds
<1>8. Once'
  <2>1. \A i, j \in 1..Len(queue') : queue'[i] = queue'[j] => i = j
    <3>1. \A i \in 1..Len(queue') : i \in 1..Len(queue) \/ i = Len(queue) + 1
      BY <1>3
    <3>2. \A i \in 1..Len(queue) : queue[i] # r
      BY <1>5 DEF Pending, InQueue
    <3> QED
      BY <1>3, <3>1, <3>2 DEF Once
  <2>2. \A g \in Gens : Holds(g)' => ~InQueue(wreq[g])'
    BY <1>1, <1>5, <1>6, <1>7 DEF Once, Pending
  <2> QED
    BY <1>1, <1>7, <2>1, <2>2 DEF Once
<1>9. Waiting'
  <2>1. \A q \in Requests : Pending(q)' => Pending(q) \/ q = r
    BY <1>1, <1>6, <1>7 DEF Pending
  <2> QED
    BY <1>1, <1>2, <1>4, <2>1 DEF Waiting
<1>10. Written' /\ Told'
  BY <1>1 DEF Written, Told, OnWire
<1> QED
  BY <1>8, <1>9, <1>10

\* A client goes on, with the answer or without.
LEMMA RequestTold ==
  ASSUME TypeInv, RequestInv, NEW c \in Clients, ClientAnswered(c) \/ ClientTimeout(c)
  PROVE  RequestInv'
<1> USE RequestTypes DEF RequestInv
<1> DEFINE r == <<c, sent[c]>>
<1>1. PICK v \in {"ok", "err", "timeout"} :
         /\ v # "timeout" => v = reply[r]
         /\ verdict' = [verdict EXCEPT ![r] = v]
         /\ cpc[c] = "wait" /\ cpc' = [cpc EXCEPT ![c] = IF c \in HttpClients THEN "idle" ELSE "input"]
         /\ UNCHANGED <<wpc, wreq, sent, reply, queue, wire>>
  <2>1. r \in Requests
    BY SessionAssumption DEF ClientAnswered, ClientTimeout, TypeInv, TypeOK, TypeClient, PcData, Requests
  <2>2. reply[r] \in {"none", "ok", "err"}
    BY <2>1 DEF TypeInv, TypeOK, TypeClient
  <2> QED
    BY <2>2 DEF ClientAnswered, ClientTimeout, ClientReturn, Client, writer
<1>2. r \in Requests /\ r[1] = c /\ r[2] = sent[c]
  BY <1>1, SessionAssumption DEF TypeInv, TypeOK, TypeClient, PcData, Requests
<1>3. /\ \A q \in Requests : Unsent(q)' => Unsent(q)
      /\ \A q \in Requests : Unsent(q)' => q # r
  BY <1>1, <1>2 DEF Unsent, TypeInv, TypeOK, TypeClient
<1>4. \A q : InQueue(q)' = InQueue(q) /\ OnWire(q)' = OnWire(q) /\ Pending(q)' = Pending(q)
  BY <1>1 DEF InQueue, OnWire, Pending, Holds
<1> HIDE DEF r
<1>5. \A q \in Requests : verdict'[q] = IF q = r THEN v ELSE verdict[q]
  BY <1>1 DEF TypeInv, TypeOK, TypeClient
<1>6. Once' /\ Written'
  BY <1>1, <1>4 DEF Once, Written, Holds
<1>7. Waiting'
  BY <1>1, <1>3, <1>4, <1>5 DEF Waiting
<1>8. Told'
  <2>1. \A q \in Requests : verdict'[q] \in {"ok", "err"} => verdict'[q] = reply[q]
    BY <1>1, <1>5 DEF Told
  <2>2. \A i \in 1..Len(wire) : wire[i][1] = r => wire[i][2] = r[2]
    BY <1>2 DEF Written
  <2> QED
    BY <1>1, <1>5, <2>1, <2>2 DEF Told
<1> QED
  BY <1>6, <1>7, <1>8

\* Every step of every goroutine, of the device and of the clients.
LEMMA RequestNext == TypeInv /\ TypeInv' /\ RequestInv /\ [Next]_vars => RequestInv'
<1> SUFFICES ASSUME TypeInv, TypeInv', RequestInv, [Next]_vars PROVE RequestInv'
  OBVIOUS
<1> USE DEF TypeInv, TypeOK, TypeClient, TypeWriter
<1>1. ASSUME UNCHANGED <<queue, wire, reply, verdict, wreq, sent, cpc>>,
             wpc' = wpc \/ OpenAlready \/ OpenSucceeds \/ OpenFails
      PROVE  RequestInv'
  <2>1. \A g \in Gens : Holds(g)' => Holds(g) /\ wreq'[g] = wreq[g]
    BY <1>1, OpenTypes DEF Holds
  <2> QED
    BY <1>1, <2>1, RequestsStay DEF Unsent
<1>2. CASE Unplug \/ Plug \/ ClosePort \/ CloseSelect \/ CloseStopCh
  BY <1>1, <1>2 DEF Unplug, Plug, ClosePort, CloseSelect, CloseStopCh, Closer, writer, client
<1>3. ASSUME NEW g \in Gens, ReaderStep(g) \/ ReaderData(g) PROVE RequestInv'
  BY <1>1, <1>3 DEF ReaderStep, ReaderData, ReaderStart, ReaderCheckStop, ReaderGetPort, ReaderSeq,
     ReaderAppend, ReaderError, DisconnectNil, DisconnectLock, DisconnectSelect, DisconnectClose,
     DisconnectSwap, Reader, writer, client
<1>4. ASSUME NEW g \in Gens, WriterStep(g) PROVE RequestInv'
  <2>1. CASE WriterStart(g) \/ WriterStop(g) \/ WriterGetPort(g)
    <3>1. /\ UNCHANGED <<queue, wire, reply, verdict, wreq, sent, cpc>>
          /\ \/ wpc' = [wpc EXCEPT ![g] = "select"]
             \/ wpc' = [wpc EXCEPT ![g] = "done"]
             \/ wpc[g] = "lock" /\ wpc' = [wpc EXCEPT ![g] = "write"]
      BY <2>1 DEF WriterStart, WriterStop, WriterGetPort, Writer, writer, client
    <3>2. \A h \in Gens : Holds(h)' => Holds(h)
      BY <3>1 DEF Holds
    <3> QED
      BY <3>1, <3>2, RequestsStay DEF Unsent
  <2>2. CASE WriterTake(g)
    BY <2>2, RequestTaken
  <2>3. CASE WriterDiscard(g)
    <3>1. /\ Holds(g) /\ wpc' = [wpc EXCEPT ![g] = "select"] /\ wreq' = [wreq EXCEPT ![g] = NoReq]
          /\ reply' = [reply EXCEPT ![wreq[g]] = DiscardReply]
          /\ UNCHANGED <<queue, sent, cpc, verdict, wire>>
      BY <2>3 DEF WriterDiscard, Writer, Holds, client
    <3>2. wreq[g] \in Requests
      BY <3>1, RequestTypes
    <3>3. DiscardReply \in {"none", "err"}
      BY DEF DiscardReply
    <3>4. wire' = IF FALSE THEN Append(wire, <<wreq[g], Bytes(wreq[g])>>) ELSE wire
      BY <3>1
    <3> QED
      BY <3>1, <3>2, <3>3, <3>4, RequestLeaves
  <2>4. CASE WriterWrite(g)
    <3>1. /\ Holds(g) /\ wpc' = [wpc EXCEPT ![g] = "select"] /\ wreq' = [wreq EXCEPT ![g] = NoReq]
          /\ UNCHANGED <<queue, sent, cpc, verdict>>
      BY <2>4 DEF WriterWrite, Writer, Holds, client
    <3>2. wreq[g] \in Requests
      BY <3>1, RequestTypes
    <3>3. PICK res \in WriteResults(wport[g]) :
             Delivered(g, res[1]) /\ reply' = [reply EXCEPT ![wreq[g]] = res[2]]
      BY <2>4 DEF WriterWrite
    <3>4. /\ res[1] \in BOOLEAN /\ res[2] \in {"none", "ok", "err"}
          /\ res[2] = "ok" => res[1]
          /\ res[1] => res[2] # "none"
      <4>1. /\ res[1] \in BOOLEAN /\ res[2] \in {"ok", "err"}
            /\ res[2] = "ok" => res[1] = TRUE
        BY ResultOfWrite
      <4> QED
        BY <4>1
    <3>5. wire' = IF res[1] THEN Append(wire, <<wreq[g], Bytes(wreq[g])>>) ELSE wire
      BY <3>3 DEF Delivered
    <3> QED
      BY <3>1, <3>2, <3>3, <3>4, <3>5, RequestLeaves
  <2> QED
    BY <1>4, <2>1, <2>2, <2>3, <2>4 DEF WriterStep
<1>5. ASSUME NEW g \in Gens, ReconStep(g) PROVE RequestInv'
  <2>1. UNCHANGED <<queue, wire, reply, verdict, wreq, sent, cpc>>
    BY <1>5 DEF ReconStep, ReconStart, ReconCheckStop, ReconOpen, ReconAnnounce, Recon, writer, client
  <2>2. wpc' = wpc \/ OpenAlready \/ OpenSucceeds \/ OpenFails
    BY <1>5 DEF ReconStep, ReconStart, ReconCheckStop, ReconOpen, ReconAnnounce
  <2> QED
    BY <1>1, <2>1, <2>2
<1>6. ASSUME NEW c \in Clients, ClientBegin(c) \/ SshRead(c) \/ ClientCheck(c) \/ ClientOpen(c)
      PROVE  RequestInv'
  <2>1. UNCHANGED <<queue, wire, reply, verdict, wreq>>
    BY <1>6 DEF ClientBegin, SshRead, ClientCheck, ClientOpen, ClientReady, Client, writer
  <2>2. wpc' = wpc \/ OpenAlready \/ OpenSucceeds \/ OpenFails
    BY <1>6 DEF ClientBegin, SshRead, ClientCheck, ClientOpen
  <2>3. \A g \in Gens : Holds(g)' => Holds(g) /\ wreq'[g] = wreq[g]
    BY <2>1, <2>2, OpenTypes DEF Holds
  <2>4. \/ cpc' = [cpc EXCEPT ![c] = "send"] /\ sent' = [sent EXCEPT ![c] = sent[c] + 1]
        \/ \E to \in {"check", "open", "idle", "input"} : cpc' = [cpc EXCEPT ![c] = to] /\ sent' = sent
    BY <1>6 DEF ClientBegin, SshRead, ClientCheck, ClientOpen, ClientReady, Client, NextReq
  <2>5. /\ \A d \in Clients : sent'[d] >= sent[d]
        /\ \A r \in Requests : Unsent(r)' => Unsent(r)
    <3>1. \A r \in Requests : r[1] \in Clients /\ r[2] \in Nat
      BY RequestTypes
    <3>2. \A d \in Clients : sent[d] \in Nat
      BY RequestTypes
    <3>3. CASE cpc' = [cpc EXCEPT ![c] = "send"] /\ sent' = [sent EXCEPT ![c] = sent[c] + 1]
      <4>1. \A d \in Clients : sent'[d] = IF d = c THEN sent[d] + 1 ELSE sent[d]
        BY <3>3
      <4>2. \A d \in Clients \ {c} : cpc'[d] = cpc[d]
        BY <3>3
      <4> HIDE DEF TypeInv, TypeOK, TypeClient, TypeWriter
      <4>3. ASSUME NEW r \in Requests, Unsent(r)' PROVE Unsent(r)
        <5>1. CASE r[1] = c
          BY <3>1, <3>2, <4>1, <4>3, <5>1 DEF Unsent
        <5>2. CASE r[1] # c
          BY <3>1, <3>2, <4>1, <4>2, <4>3, <5>2 DEF Unsent
        <5> QED
          BY <5>1, <5>2
      <4>4. \A d \in Clients : sent'[d] >= sent[d]
        BY <3>2, <4>1
      <4> QED
        BY <4>3, <4>4
    <3>4. CASE \E to \in {"check", "open", "idle", "input"} : cpc' = [cpc EXCEPT ![c] = to] /\ sent' = sent
      BY <3>1, <3>2, <3>4 DEF Unsent
    <3> QED
      BY <2>4, <3>3, <3>4
  <2> QED
    BY <2>1, <2>3, <2>5, RequestsStay
<1>7. CASE UNCHANGED vars
  BY <1>1, <1>7 DEF vars, writer, client
<1> QED
  BY <1>2, <1>3, <1>4, <1>5, <1>6, <1>7, RequestSent, RequestTold DEF Next, ClientStep

\* What a client concludes of its request is true: the device got it once at
\* most, if the client was told "ok" it did get it, all or part of it, and what
\* it got of a request that was answered were that request's bytes, whatever
\* generations of writeLoops and reconnects came in between, for any clients
\* and any number of requests.
THEOREM VerdictsAreTrue == Spec => []VerdictIsTrue
<1>1. TypeInv /\ RequestInv => VerdictIsTrue
  <2> SUFFICES ASSUME TypeInv, RequestInv, NEW r \in Requests
               PROVE  LET hits == {i \in 1..Len(wire) : wire[i][1] = r} IN
                      /\ \A i, j \in hits : i = j
                      /\ verdict[r] = "ok" => hits # {}
                      /\ verdict[r] \in {"ok", "err"} => \A i \in hits : wire[i][2] = r[2]
    BY DEF VerdictIsTrue
  <2> DEFINE hits == {i \in 1..Len(wire) : wire[i][1] = r}
  <2> USE DEF RequestInv
  <2>1. \A i, j \in hits : i = j
    BY DEF Written
  <2>2. ASSUME verdict[r] = "ok" PROVE hits # {}
    <3>1. OnWire(r)
      BY <2>2 DEF Told, Written
    <3> QED
      BY <3>1 DEF OnWire
  <2>3. ASSUME verdict[r] \in {"ok", "err"}, NEW i \in hits PROVE wire[i][2] = r[2]
    BY <2>3 DEF Told
  <2> QED
    BY <2>1, <2>2, <2>3
<1> QED
  BY <1>1, TypeInit, TypeNext, RequestInit, RequestNext, PTL DEF Spec

-----------------------------------------------------------------------------
(* The session implements WriteService.  One more fact relates a client's    *)
(* place to its verdicts: it has one request at a time.                     *)

Asked ==
    \A r \in Requests :
        verdict[r] = "none" <=>
            r[2] > sent[r[1]] \/ (r[2] = sent[r[1]] /\ cpc[r[1]] \in {"send", "wait"})

\* At first nobody has a request or a verdict.
LEMMA AskedInit == Init => Asked
<1> SUFFICES ASSUME Init, NEW r \in Requests
             PROVE  verdict[r] = "none" /\ r[2] > sent[r[1]]
  BY DEF Asked
<1>1. r[1] \in Clients /\ r[2] \in 1..MaxReqs
  BY DEF Requests
<1> QED
  BY <1>1, SessionAssumption DEF Init

\* How one step of client c moves it.
LEMMA AskedStep ==
  ASSUME TypeInv, TypeInv', Asked, NEW c \in Clients,
         \A d \in Clients \ {c} : sent'[d] = sent[d] /\ cpc'[d] = cpc[d],
         \A r \in Requests : r[1] # c => verdict'[r] = verdict[r],
         \/ /\ cpc[c] \notin {"send", "wait"} /\ cpc'[c] = "send" /\ sent'[c] = sent[c] + 1
            /\ UNCHANGED verdict
         \/ /\ cpc[c] \notin {"send", "wait"} /\ cpc'[c] \notin {"send", "wait"}
            /\ sent'[c] = sent[c] /\ UNCHANGED verdict
         \/ cpc[c] = "send" /\ cpc'[c] = "wait" /\ sent'[c] = sent[c] /\ UNCHANGED verdict
         \/ /\ cpc[c] = "wait" /\ cpc'[c] \notin {"send", "wait"} /\ sent'[c] = sent[c]
            /\ \A r \in Requests : r[1] = c =>
                 IF r[2] = sent[c] THEN verdict'[r] # "none" ELSE verdict'[r] = verdict[r]
  PROVE  Asked'
<1> SUFFICES ASSUME NEW r \in Requests
             PROVE  verdict'[r] = "none" <=>
                       r[2] > sent'[r[1]] \/ (r[2] = sent'[r[1]] /\ cpc'[r[1]] \in {"send", "wait"})
  BY DEF Asked
<1>1. r[1] \in Clients /\ r[2] \in Nat /\ sent[r[1]] \in Nat
  BY RequestTypes
<1>2. verdict[r] = "none" <=> r[2] > sent[r[1]] \/ (r[2] = sent[r[1]] /\ cpc[r[1]] \in {"send", "wait"})
  BY DEF Asked
<1>3. CASE r[1] # c
  BY <1>1, <1>2, <1>3
<1>4. CASE r[1] = c
  BY <1>1, <1>2, <1>4
<1> QED
  BY <1>3, <1>4

\* What the clients' steps other than sending and returning do to the client:
\* it stays without a request, or makes the next one.
LEMMA ClientMoves ==
  ASSUME TypeInv, NEW c \in Clients, ClientBegin(c) \/ SshRead(c) \/ ClientCheck(c) \/ ClientOpen(c)
  PROVE  /\ UNCHANGED <<queue, wire, reply, verdict, wreq>>
         /\ wpc' = wpc \/ OpenAlready \/ OpenSucceeds \/ OpenFails
         /\ cpc[c] \notin {"send", "wait"}
         /\ \A d \in Clients \ {c} : sent'[d] = sent[d] /\ cpc'[d] = cpc[d]
         /\ \/ cpc'[c] = "send" /\ sent'[c] = sent[c] + 1
            \/ cpc'[c] \notin {"send", "wait"} /\ sent'[c] = sent[c]
<1>1. /\ UNCHANGED <<queue, wire, reply, verdict, wreq>> /\ cpc[c] \notin {"send", "wait"}
      /\ \/ cpc' = [cpc EXCEPT ![c] = "send"] /\ sent' = [sent EXCEPT ![c] = sent[c] + 1]
         \/ \E to \in {"check", "open", "idle", "input"} : cpc' = [cpc EXCEPT ![c] = to] /\ sent' = sent
  BY DEF ClientBegin, SshRead, ClientCheck, ClientOpen, ClientReady, Client, NextReq, writer
<1>2. wpc' = wpc \/ OpenAlready \/ OpenSucceeds \/ OpenFails
  BY DEF ClientBegin, SshRead, ClientCheck, ClientOpen
<1> QED
  BY <1>1, <1>2 DEF TypeInv, TypeOK, TypeClient

\* A client that returns has a verdict for the request it waited for.
LEMMA ClientTold ==
  ASSUME TypeInv, NEW c \in Clients, ClientAnswered(c) \/ ClientTimeout(c)
  PROVE  /\ <<c, sent[c]>> \in Requests /\ cpc[c] = "wait"
         /\ UNCHANGED <<queue, wire, reply, wreq, wpc, sent>>
         /\ \A d \in Clients : cpc'[d] = IF d # c THEN cpc[d]
                                         ELSE IF c \in HttpClients THEN "idle" ELSE "input"
         /\ \E v \in {"ok", "err", "timeout"} :
               /\ verdict' = [verdict EXCEPT ![<<c, sent[c]>>] = v]
               /\ v = "timeout" \/ (reply[<<c, sent[c]>>] # "none" /\ v = reply[<<c, sent[c]>>])
<1>1. <<c, sent[c]>> \in Requests
  BY SessionAssumption DEF ClientAnswered, ClientTimeout, TypeInv, TypeOK, TypeClient, PcData, Requests
<1>2. reply[<<c, sent[c]>>] \in {"none", "ok", "err"}
  BY <1>1 DEF TypeInv, TypeOK, TypeClient
<1>3. /\ cpc[c] = "wait" /\ UNCHANGED <<queue, wire, reply, wreq, wpc, sent>>
      /\ cpc' = [cpc EXCEPT ![c] = IF c \in HttpClients THEN "idle" ELSE "input"]
  BY DEF ClientAnswered, ClientTimeout, ClientReturn, Client, writer
<1>4. \E v \in {"ok", "err", "timeout"} :
         /\ verdict' = [verdict EXCEPT ![<<c, sent[c]>>] = v]
         /\ v = "timeout" \/ (reply[<<c, sent[c]>>] # "none" /\ v = reply[<<c, sent[c]>>])
  BY <1>2 DEF ClientAnswered, ClientTimeout, ClientReturn
<1> QED
  BY <1>1, <1>3, <1>4 DEF TypeInv, TypeOK, TypeClient

\* No step leaves a client with two requests.
LEMMA AskedNext == TypeInv /\ TypeInv' /\ Asked /\ [Next]_vars => Asked'
<1> SUFFICES ASSUME TypeInv, TypeInv', Asked, [Next]_vars PROVE Asked'
  OBVIOUS
<1>1. ASSUME UNCHANGED <<sent, cpc, verdict>> PROVE Asked'
  BY <1>1 DEF Asked
<1>2. CASE Unplug \/ Plug \/ ClosePort \/ CloseSelect \/ CloseStopCh
  BY <1>1, <1>2 DEF Unplug, Plug, ClosePort, CloseSelect, CloseStopCh, Closer, client
<1>3. ASSUME NEW g \in Gens, ReaderStep(g) \/ ReaderData(g) PROVE Asked'
  BY <1>1, <1>3 DEF ReaderStep, ReaderData, ReaderStart, ReaderCheckStop, ReaderGetPort, ReaderSeq,
     ReaderAppend, ReaderError, DisconnectNil, DisconnectLock, DisconnectSelect, DisconnectClose,
     DisconnectSwap, Reader, client
<1>4. ASSUME NEW g \in Gens, WriterStep(g) \/ ReconStep(g) PROVE Asked'
  BY <1>1, <1>4 DEF WriterStep, WriterStart, WriterStop, WriterTake, WriterDiscard, WriterGetPort,
     WriterWrite, Writer, ReconStep, ReconStart, ReconCheckStop, ReconOpen, ReconAnnounce, Recon, client
<1>5. ASSUME NEW c \in Clients, ClientBegin(c) \/ SshRead(c) \/ ClientCheck(c) \/ ClientOpen(c)
      PROVE  Asked'
  BY <1>5, ClientMoves, AskedStep
<1>6. ASSUME NEW c \in Clients, ClientSend(c) PROVE Asked'
  <2>1. /\ cpc[c] = "send" /\ cpc' = [cpc EXCEPT ![c] = "wait"] /\ sent' = sent /\ verdict' = verdict
    BY <1>6 DEF ClientSend, Client
  <2>2. cpc'[c] = "wait" /\ \A d \in Clients \ {c} : cpc'[d] = cpc[d]
    BY <2>1 DEF TypeInv, TypeOK, TypeClient
  <2> QED
    BY <2>1, <2>2, AskedStep
<1>7. ASSUME NEW c \in Clients, ClientAnswered(c) \/ ClientTimeout(c) PROVE Asked'
  <2> DEFINE r == <<c, sent[c]>>
  <2>1. /\ r \in Requests /\ cpc[c] = "wait" /\ sent' = sent
        /\ \A d \in Clients \ {c} : cpc'[d] = cpc[d]
        /\ cpc'[c] \notin {"send", "wait"}
    BY <1>7, ClientTold
  <2>2. PICK v \in {"ok", "err", "timeout"} : verdict' = [verdict EXCEPT ![r] = v]
    BY <1>7, ClientTold
  <2>3. \A q \in Requests : verdict'[q] = IF q = r THEN v ELSE verdict[q]
    BY <2>2 DEF TypeInv, TypeOK, TypeClient
  <2>4. \A q \in Requests : q = r <=> q[1] = c /\ q[2] = sent[c]
    BY DEF Requests
  <2>5. \A q \in Requests : q[1] = c =>
           IF q[2] = sent[c] THEN verdict'[q] # "none" ELSE verdict'[q] = verdict[q]
    BY <2>3, <2>4
  <2>6. \A q \in Requests : q[1] # c => verdict'[q] = verdict[q]
    BY <2>3, <2>4
  <2> QED
    BY <2>1, <2>5, <2>6, AskedStep
<1>8. CASE UNCHANGED vars
  BY <1>1, <1>8 DEF vars, client
<1> QED
  BY <1>2, <1>3, <1>4, <1>5, <1>6, <1>7, <1>8 DEF Next, ClientStep

\* A generation that was not opened has no writeLoop, so that a writeLoop which
\* Open spawns replaces none.
Fresh == \A g \in Gens : g > opens => wpc[g] = "none"

\* No loop runs before the first Open.
LEMMA FreshInit == Init => Fresh
  BY DEF Init, Fresh

\* A generation starts with Open.
LEMMA FreshNext == TypeInv /\ Fresh /\ [Next]_vars => Fresh'
<1> SUFFICES ASSUME TypeInv, Fresh, [Next]_vars PROVE Fresh'
  OBVIOUS
<1>1. ASSUME UNCHANGED <<opens, wpc>> PROVE Fresh'
  BY <1>1 DEF Fresh
<1>2. ASSUME OpenAlready \/ OpenSucceeds \/ OpenFails PROVE Fresh'
  <2>1. CASE OpenAlready \/ OpenFails
    BY <1>1, <2>1 DEF OpenAlready, OpenFails, session
  <2>2. CASE OpenSucceeds
    <3>1. opens \in Nat /\ opens' = opens + 1 /\ wpc' = [wpc EXCEPT ![opens + 1] = "start"]
      BY <2>2, SessionAssumption DEF OpenSucceeds, TypeInv, TypeOK, TypeSession, StopChs
    <3>2. \A g \in Gens : g # opens + 1 => wpc'[g] = wpc[g]
      BY <3>1 DEF TypeInv, TypeOK, TypeWriter
    <3> QED
      BY <3>1, <3>2 DEF Fresh, Gens
  <2> QED
    BY <1>2, <2>1, <2>2
<1>3. CASE Unplug \/ Plug \/ ClosePort \/ CloseSelect \/ CloseStopCh
  BY <1>1, <1>3 DEF Unplug, Plug, ClosePort, CloseSelect, CloseStopCh, Closer, session
<1>4. ASSUME NEW g \in Gens, ReaderStep(g) \/ ReaderData(g) PROVE Fresh'
  BY <1>1, <1>4 DEF ReaderStep, ReaderData, ReaderStart, ReaderCheckStop, ReaderGetPort, ReaderSeq,
     ReaderAppend, ReaderError, DisconnectNil, DisconnectLock, DisconnectSelect, DisconnectClose,
     DisconnectSwap, Reader, session
<1>5. ASSUME NEW g \in Gens, WriterStep(g) PROVE Fresh'
  <2>1. opens' = opens /\ wpc[g] # "none" /\ \E to \in WriterPcs : wpc' = [wpc EXCEPT ![g] = to]
    BY <1>5 DEF WriterStep, WriterStart, WriterStop, WriterTake, WriterDiscard, WriterGetPort,
       WriterWrite, Writer, session, WriterPcs
  <2>2. \A h \in Gens : h # g => wpc'[h] = wpc[h]
    BY <2>1 DEF TypeInv, TypeOK, TypeWriter
  <2> QED
    BY <2>1, <2>2 DEF Fresh
<1>6. ASSUME NEW g \in Gens, ReconStep(g) PROVE Fresh'
  BY <1>1, <1>2, <1>6 DEF ReconStep, ReconStart, ReconCheckStop, ReconOpen, ReconAnnounce, Recon, session
<1>7. ASSUME NEW c \in Clients, ClientBegin(c) \/ SshRead(c) \/ ClientStep(c) PROVE Fresh'
  BY <1>1, <1>2, <1>7 DEF ClientBegin, SshRead, ClientStep, ClientCheck, ClientOpen, ClientSend,
     ClientAnswered, ClientTimeout, ClientReturn, session
<1>8. CASE UNCHANGED vars
  BY <1>1, <1>8 DEF vars, session
<1> QED
  BY <1>3, <1>4, <1>5, <1>6, <1>7, <1>8 DEF Next

-----------------------------------------------------------------------------
(* Refinement: each step is a step of WriteService or leaves what it sees     *)
(* alone.                                                                  *)

\* Open leaves the requests in the hands they are in.
LEMMA OpenHolds ==
  ASSUME TypeInv, Fresh, wpc' = wpc \/ OpenAlready \/ OpenSucceeds \/ OpenFails
  PROVE  \A g \in Gens : Holds(g)' = Holds(g)
<1>1. CASE wpc' = wpc \/ OpenAlready \/ OpenFails
  BY <1>1 DEF OpenAlready, OpenFails, Holds
<1>2. CASE OpenSucceeds
  <2>1. opens \in Nat /\ opens + 1 \in Gens /\ wpc' = [wpc EXCEPT ![opens + 1] = "start"]
    BY <1>2, SessionAssumption DEF OpenSucceeds, TypeInv, TypeOK, TypeSession, StopChs, Gens
  <2>2. wpc[opens + 1] = "none"
    BY <2>1 DEF Fresh
  <2> QED
    BY <2>1, <2>2 DEF Holds, TypeInv, TypeOK, TypeWriter
<1> QED
  BY <1>1, <1>2

\* The same requests, for the same clients.
LEMMA ServiceRequests == Service!Requests = Requests /\ Service!Clients = Clients
  BY DEF Service!Requests, Service!Clients, Requests, Clients

\* A session starts as a service without requests.
LEMMA ServiceInit == Init => Service!Init
<1> SUFFICES ASSUME Init PROVE Service!Init
  OBVIOUS
<1>1. queue = <<>> /\ wire = <<>> /\ InHand = {}
  BY DEF Init, Holds, InHand
<1>2. Submitted = {}
  <2>1. ASSUME NEW r \in Requests PROVE Unsent(r)
    <3>1. r[1] \in Clients /\ r[2] \in 1..MaxReqs
      BY DEF Requests
    <3> QED
      BY <3>1, SessionAssumption DEF Init, Unsent
  <2> QED
    BY <2>1 DEF Submitted
<1>3. reply = [r \in Requests |-> "none"] /\ verdict = [r \in Requests |-> "none"]
  BY DEF Init
<1> QED
  BY <1>1, <1>2, <1>3, ServiceRequests DEF Service!Init

\* Steps that the callers do not see.
LEMMA ServiceStays ==
  ASSUME TypeInv, TypeInv', UNCHANGED <<queue, wire, reply, verdict>>,
         \A g \in Gens : Holds(g)' = Holds(g) /\ (Holds(g) => wreq'[g] = wreq[g]),
         \A r \in Requests : Unsent(r)' = Unsent(r)
  PROVE  UNCHANGED Service!vars
<1>1. InHand' = InHand
  BY DEF InHand
<1>2. Submitted' = Submitted
  BY DEF Submitted
<1> QED
  BY <1>1, <1>2 DEF Service!vars

\* The head of the queue goes into the hands of a writeLoop.
LEMMA ServiceTake ==
  ASSUME TypeInv, NEW g \in Gens, WriterTake(g)
  PROVE  Service!Take
<1>1. /\ queue # <<>> /\ wpc[g] = "select"
      /\ wpc' = [wpc EXCEPT ![g] = "lock"] /\ wreq' = [wreq EXCEPT ![g] = Head(queue)]
      /\ queue' = Tail(queue) /\ UNCHANGED <<sent, cpc, reply, verdict, wire>>
  BY DEF WriterTake, Writer, client
<1>2. /\ \A h \in Gens : Holds(h)' <=> Holds(h) \/ h = g
      /\ \A h \in Gens : wreq'[h] = IF h = g THEN Head(queue) ELSE wreq[h]
      /\ ~Holds(g)
  BY <1>1 DEF Holds, TypeInv, TypeOK, TypeWriter
<1>3. InHand' = InHand \cup {Head(queue)}
  BY <1>2 DEF InHand
<1>4. Submitted' = Submitted
  BY <1>1 DEF Submitted, Unsent
<1> QED
  BY <1>1, <1>3, <1>4 DEF Service!Take

\* A writeLoop lets go of its request, with an answer.
LEMMA ServiceDecides ==
  ASSUME TypeInv, RequestInv, NEW g \in Gens, Holds(g),
         wpc' = [wpc EXCEPT ![g] = "select"], wreq' = [wreq EXCEPT ![g] = NoReq],
         NEW answer, reply' = [reply EXCEPT ![wreq[g]] = answer],
         UNCHANGED <<queue, sent, cpc, verdict>>
  PROVE  Service!Decide(wreq[g], answer)
<1>1. /\ \A h \in Gens : Holds(h)' <=> Holds(h) /\ h # g
      /\ \A h \in Gens : Holds(h)' => wreq'[h] = wreq[h]
  BY DEF Holds, TypeInv, TypeOK, TypeWriter
<1>2. \A h \in Gens : Holds(h) /\ h # g => wreq[h] # wreq[g]
  BY DEF RequestInv, Once
<1>3. wreq[g] \in InHand /\ InHand' = InHand \ {wreq[g]}
  BY <1>1, <1>2 DEF InHand
<1>4. Submitted' = Submitted
  BY DEF Submitted, Unsent
<1> QED
  BY <1>3, <1>4 DEF Service!Decide

\* The port is nil: the request is refused, or dropped without an answer.
LEMMA ServiceDiscards ==
  ASSUME TypeInv, RequestInv, NEW g \in Gens, WriterDiscard(g)
  PROVE  Service!Next
<1>1. /\ Holds(g) /\ wpc' = [wpc EXCEPT ![g] = "select"] /\ wreq' = [wreq EXCEPT ![g] = NoReq]
      /\ reply' = [reply EXCEPT ![wreq[g]] = DiscardReply]
      /\ UNCHANGED <<queue, sent, cpc, verdict, wire>>
  BY DEF WriterDiscard, Writer, Holds, client
<1>2. wreq[g] \in Service!Requests
  BY <1>1, RequestTypes, ServiceRequests
<1>3. Service!Decide(wreq[g], DiscardReply)
  BY <1>1, ServiceDecides
<1>4. Service!Refuse(wreq[g]) \/ Service!Drop(wreq[g])
  BY <1>1, <1>3 DEF DiscardReply, Service!Refuse, Service!Drop
<1> QED
  BY <1>2, <1>4 DEF Service!Next

\* p.Write: the device gets the bytes that the request's buffer holds now,
\* which are its own as long as its client waits.
LEMMA ServiceWrites ==
  ASSUME TypeInv, RequestInv, Asked, NEW g \in Gens, WriterWrite(g)
  PROVE  Service!Next
<1> DEFINE r == wreq[g]
<1>1. /\ Holds(g) /\ wpc' = [wpc EXCEPT ![g] = "select"] /\ wreq' = [wreq EXCEPT ![g] = NoReq]
      /\ UNCHANGED <<queue, sent, cpc, verdict>>
  BY DEF WriterWrite, Writer, Holds, client
<1>2. r \in Requests /\ r \in Service!Requests
  BY <1>1, RequestTypes, ServiceRequests
<1>0. PICK res \in WriteResults(wport[g]) :
         /\ wire' = IF res[1] THEN Append(wire, <<r, Bytes(r)>>) ELSE wire
         /\ reply' = [reply EXCEPT ![r] = res[2]]
  BY DEF WriterWrite, Delivered
<1>3. Service!Decide(r, res[2])
  BY <1>0, <1>1, ServiceDecides
<1>r. /\ res[1] \in BOOLEAN /\ res[2] \in {"ok", "err"}
      /\ res[2] = "ok" => res[1] = TRUE
  BY ResultOfWrite
<1>4. CASE ~res[1]
  <2>1. res[2] = "err" /\ wire' = wire
    BY <1>0, <1>r, <1>4
  <2>2. Service!Refuse(r)
    BY <1>3, <2>1 DEF Service!Refuse
  <2> QED
    BY <1>2, <2>2 DEF Service!Next
<1>5. CASE res[1]
  <2>1. Pending(r)
    BY <1>1 DEF Pending
  <2>2. reply[r] = "none" /\ ~Unsent(r) /\ verdict[r] \notin {"ok", "err"}
    BY <1>2, <2>1 DEF RequestInv, Waiting, Told
  <2>3. r[1] \in Clients /\ r[2] \in Nat /\ sent[r[1]] \in r[2]..MaxReqs
    BY <1>2, <2>2, SessionAssumption DEF Unsent, Requests, TypeInv, TypeOK, TypeClient
  <2>4. Bytes(r) \in r[2]..MaxReqs
    BY <2>3, SessionAssumption DEF Bytes
  <2>5. Bytes(r) # r[2] => r[1] \in SshClients /\ verdict[r] = "timeout"
    <3>1. verdict[r] = "none" => sent[r[1]] = r[2]
      BY <1>2, <2>3 DEF Asked
    <3>2. verdict[r] \in {"none", "ok", "err", "timeout"}
      BY <1>2 DEF TypeInv, TypeOK, TypeClient
    <3> QED
      BY <2>2, <3>1, <3>2 DEF Bytes
  <2>6. Service!Deliver(r, Bytes(r))
    BY <1>0, <1>3, <1>r, <1>5, <2>5 DEF Service!Deliver
  <2> QED
    BY <1>2, <2>4, <2>6 DEF Service!Next
<1> QED
  BY <1>r, <1>4, <1>5

\* A client's next request enters the queue, after a verdict on all before it.
LEMMA ServiceSubmits ==
  ASSUME TypeInv, Asked, NEW c \in Clients, ClientSend(c)
  PROVE  Service!Next
<1> DEFINE r == <<c, sent[c]>>
<1>1. /\ cpc[c] = "send" /\ cpc' = [cpc EXCEPT ![c] = "wait"] /\ queue' = Append(queue, r)
      /\ Len(queue) < QueueCap /\ UNCHANGED <<wpc, wreq, sent, reply, verdict, wire>>
  BY DEF ClientSend, Client, writer
<1>2. r \in Requests /\ Unsent(r)
  BY <1>1, SessionAssumption DEF TypeInv, TypeOK, TypeClient, PcData, Requests, Unsent
<1>3. \A q \in Requests : q[1] \in Clients /\ q[2] \in Nat /\ sent[q[1]] \in Nat
  BY RequestTypes
<1>4. \A q \in Requests : Unsent(q)' <=> Unsent(q) /\ q # r
  <2>1. TAKE q \in Requests
  <2>2. q = <<q[1], q[2]>>
    BY DEF Requests
  <2>3. CASE q[1] = c
    <3>1. cpc'[q[1]] = "wait"
      BY <1>1, <2>3 DEF TypeInv, TypeOK, TypeClient
    <3> QED
      BY <1>1, <1>3, <2>2, <2>3, <3>1 DEF Unsent
  <2>4. CASE q[1] # c
    BY <1>1, <1>3, <2>2, <2>4 DEF Unsent, TypeInv, TypeOK, TypeClient
  <2> QED
    BY <2>3, <2>4
<1>5. r \notin Submitted /\ Submitted' = Submitted \cup {r}
  <2> HIDE DEF r
  <2> QED
    BY <1>2, <1>4 DEF Submitted
<1>6. InHand' = InHand
  BY <1>1 DEF InHand, Holds
<1>7. \A q \in Service!Requests : Service!Earlier(q, r) => verdict[q] # "none"
  BY <1>1, <1>3, ServiceRequests DEF Asked, Service!Earlier
<1>8. Service!Submit(r)
  BY <1>1, <1>5, <1>6, <1>7 DEF Service!Submit
<1> QED
  BY <1>2, <1>8, ServiceRequests DEF Service!Next

\* A client goes on, with the answer or without.
LEMMA ServiceConcludes ==
  ASSUME TypeInv, Asked, NEW c \in Clients, ClientAnswered(c) \/ ClientTimeout(c)
  PROVE  Service!Next
<1> DEFINE r == <<c, sent[c]>>
<1>1. /\ r \in Requests /\ cpc[c] = "wait" /\ UNCHANGED <<queue, wire, reply, wreq, wpc, sent>>
      /\ \A d \in Clients : cpc'[d] = IF d # c THEN cpc[d]
                                      ELSE IF c \in HttpClients THEN "idle" ELSE "input"
  BY ClientTold
<1>2. PICK v \in {"ok", "err", "timeout"} :
         /\ verdict' = [verdict EXCEPT ![r] = v]
         /\ v = "timeout" \/ (reply[r] # "none" /\ v = reply[r])
  BY ClientTold
<1>3. InHand' = InHand
  BY <1>1 DEF InHand, Holds
<1>4. Submitted' = Submitted
  <2>1. ASSUME NEW q \in Requests PROVE Unsent(q)' <=> Unsent(q)
    <3>1. q[1] \in Clients
      BY RequestTypes
    <3> QED
      BY <1>1, <3>1 DEF Unsent
  <2> QED
    BY <2>1 DEF Submitted
<1>5. verdict[r] = "none" /\ r \in Submitted
  <2>1. sent[c] \in Nat /\ r[1] = c /\ r[2] = sent[c]
    BY RequestTypes
  <2> QED
    BY <1>1, <2>1 DEF Asked, Submitted, Unsent
<1>6. Service!Conclude(r, v)
  BY <1>1, <1>2, <1>3, <1>4, <1>5 DEF Service!Conclude
<1>7. Service!Learn(r) \/ Service!GiveUp(r)
  BY <1>2, <1>6 DEF Service!Learn, Service!GiveUp
<1> QED
  BY <1>1, <1>7, ServiceRequests DEF Service!Next

\* Every step of every goroutine, of the device and of the clients.
LEMMA ServiceNext ==
  TypeInv /\ TypeInv' /\ RequestInv /\ Asked /\ Fresh /\ [Next]_vars => [Service!Next]_Service!vars
<1> SUFFICES ASSUME TypeInv, TypeInv', RequestInv, Asked, Fresh, [Next]_vars
             PROVE  [Service!Next]_Service!vars
  OBVIOUS
<1>1. ASSUME UNCHANGED <<queue, wire, reply, verdict, wreq, sent, cpc>>,
             wpc' = wpc \/ OpenAlready \/ OpenSucceeds \/ OpenFails
      PROVE  UNCHANGED Service!vars
  <2>1. \A g \in Gens : Holds(g)' = Holds(g)
    BY <1>1, OpenHolds
  <2> QED
    BY <1>1, <2>1, ServiceStays DEF Unsent
<1>2. CASE Unplug \/ Plug \/ ClosePort \/ CloseSelect \/ CloseStopCh
  BY <1>1, <1>2 DEF Unplug, Plug, ClosePort, CloseSelect, CloseStopCh, Closer, writer, client
<1>3. ASSUME NEW g \in Gens, ReaderStep(g) \/ ReaderData(g) PROVE UNCHANGED Service!vars
  BY <1>1, <1>3 DEF ReaderStep, ReaderData, ReaderStart, ReaderCheckStop, ReaderGetPort, ReaderSeq,
     ReaderAppend, ReaderError, DisconnectNil, DisconnectLock, DisconnectSelect, DisconnectClose,
     DisconnectSwap, Reader, writer, client
<1>4. ASSUME NEW g \in Gens, WriterStep(g) PROVE [Service!Next]_Service!vars
  <2>1. CASE WriterStart(g) \/ WriterStop(g) \/ WriterGetPort(g)
    <3>1. /\ UNCHANGED <<queue, wire, reply, verdict, wreq, sent, cpc>>
          /\ \/ wpc[g] \in {"start", "select"} /\ wpc' = [wpc EXCEPT ![g] = "select"]
             \/ wpc[g] = "select" /\ wpc' = [wpc EXCEPT ![g] = "done"]
             \/ wpc[g] = "lock" /\ wpc' = [wpc EXCEPT ![g] = "write"]
      BY <2>1 DEF WriterStart, WriterStop, WriterGetPort, Writer, writer, client
    <3>2. \A h \in Gens : Holds(h)' = Holds(h)
      BY <3>1 DEF Holds, TypeInv, TypeOK, TypeWriter
    <3> QED
      BY <3>1, <3>2, ServiceStays DEF Unsent
  <2>2. CASE WriterTake(g)
    BY <2>2, ServiceTake DEF Service!Next
  <2> QED
    BY <1>4, <2>1, <2>2, ServiceDiscards, ServiceWrites DEF WriterStep
<1>5. ASSUME NEW g \in Gens, ReconStep(g) PROVE UNCHANGED Service!vars
  <2>1. UNCHANGED <<queue, wire, reply, verdict, wreq, sent, cpc>>
    BY <1>5 DEF ReconStep, ReconStart, ReconCheckStop, ReconOpen, ReconAnnounce, Recon, writer, client
  <2>2. wpc' = wpc \/ OpenAlready \/ OpenSucceeds \/ OpenFails
    BY <1>5 DEF ReconStep, ReconStart, ReconCheckStop, ReconOpen, ReconAnnounce
  <2> QED
    BY <1>1, <2>1, <2>2
<1>6. ASSUME NEW c \in Clients, ClientBegin(c) \/ SshRead(c) \/ ClientCheck(c) \/ ClientOpen(c)
      PROVE  UNCHANGED Service!vars
  <2>1. \A g \in Gens : Holds(g)' = Holds(g) /\ wreq'[g] = wreq[g]
    BY <1>6, ClientMoves, OpenHolds
  <2>2. ASSUME NEW r \in Requests PROVE Unsent(r)' = Unsent(r)
    <3>1. r[1] \in Clients /\ r[2] \in Nat /\ sent[r[1]] \in Nat
      BY RequestTypes
    <3>2. CASE r[1] = c
      BY <1>6, <3>1, <3>2, ClientMoves DEF Unsent
    <3>3. CASE r[1] # c
      BY <1>6, <3>1, <3>3, ClientMoves DEF Unsent
    <3> QED
      BY <3>2, <3>3
  <2>3. UNCHANGED <<queue, wire, reply, verdict>>
    BY <1>6, ClientMoves
  <2> QED
    BY <2>1, <2>2, <2>3, ServiceStays
<1>7. CASE UNCHANGED vars
  BY <1>1, <1>7 DEF vars, writer, client
<1> QED
  BY <1>2, <1>3, <1>4, <1>5, <1>6, <1>7, ServiceSubmits, ServiceConcludes DEF Next, ClientStep

\* session.go:152-280: to those who write to it the session is the
\* WriteService, for any clients, queue, number of reconnects and of requests,
\* whether or not the mapping is removed meanwhile.
THEOREM SessionImplementsService == Spec => ImplementsWriteService
<1>1. Spec => [](TypeInv /\ RequestInv /\ Asked /\ Fresh)
  BY TypeInit, TypeNext, RequestInit, RequestNext, AskedInit, AskedNext, FreshInit, FreshNext, PTL DEF Spec
<1> QED
  BY <1>1, ServiceInit, ServiceNext, PTL DEF Spec, ImplementsWriteService, Service!Spec

\* A step of the service lets go of a request only with an answer.
LEMMA ServiceKeeps == TypeInv /\ NoRequestLost /\ [Service!Next]_Service!vars => NoRequestLost'
<1> SUFFICES ASSUME TypeInv, NoRequestLost, [Service!Next]_Service!vars, DiscardInput,
                    NEW r \in Submitted'
             PROVE  reply'[r] # "none" \/ r \in InHand' \/ InQueue(r)'
  BY DEF NoRequestLost, Service!NoneLost, InQueue
<1>1. r \in Submitted => reply[r] # "none" \/ r \in InHand \/ InQueue(r)
  BY DEF NoRequestLost, Service!NoneLost, InQueue
<1>2. queue \in Seq(Requests) /\ reply \in [Requests -> {"none", "ok", "err"}] /\ r \in Requests
  BY DEF TypeInv, TypeOK, TypeClient, Submitted
<1>3. ASSUME Submitted' = Submitted, reply' = reply, queue' = queue, InHand' = InHand
      PROVE  reply'[r] # "none" \/ r \in InHand' \/ InQueue(r)'
  BY <1>1, <1>3 DEF InQueue
<1>4. CASE UNCHANGED Service!vars
  BY <1>3, <1>4 DEF Service!vars
<1>5. CASE Service!Take
  <2>1. /\ Submitted' = Submitted /\ reply' = reply
        /\ queue # <<>> /\ queue' = Tail(queue) /\ InHand' = InHand \cup {Head(queue)}
    BY <1>5 DEF Service!Take
  <2>2. ASSUME NEW i \in 1..Len(queue), queue[i] = r PROVE r \in InHand' \/ InQueue(r)'
    <3>1. /\ Len(queue) \in Nat \ {0} /\ Head(queue) = queue[1] /\ Len(queue') = Len(queue) - 1
          /\ \A k \in 1..Len(queue') : queue'[k] = queue[k + 1]
      BY <1>2, <2>1, HeadTailProperties, EmptySeq
    <3>2. CASE i = 1
      BY <2>1, <2>2, <3>1, <3>2
    <3>3. CASE i # 1
      <4>1. i - 1 \in 1..Len(queue') /\ (i - 1) + 1 = i
        BY <3>1, <3>3
      <4>2. queue'[i - 1] = r
        BY <2>2, <3>1, <4>1
      <4> QED
        BY <4>1, <4>2 DEF InQueue
    <3> QED
      BY <3>2, <3>3
  <2> QED
    BY <1>1, <2>1, <2>2 DEF InQueue
<1>6. ASSUME NEW q \in Requests, Service!Submit(q)
      PROVE  reply'[r] # "none" \/ r \in InHand' \/ InQueue(r)'
  <2>1. /\ Submitted' = Submitted \cup {q} /\ reply' = reply /\ InHand' = InHand
        /\ queue' = Append(queue, q)
    BY <1>6 DEF Service!Submit
  <2>2. /\ Len(queue) \in Nat /\ Len(queue') = Len(queue) + 1 /\ queue'[Len(queue) + 1] = q
        /\ \A i \in 1..Len(queue) : queue'[i] = queue[i]
    BY <1>2, <2>1, AppendProperties, LenProperties
  <2>3. InQueue(r) \/ r = q => InQueue(r)'
    <3>1. Len(queue) + 1 \in 1..Len(queue') /\ \A i \in 1..Len(queue) : i \in 1..Len(queue')
      BY <2>2
    <3> QED
      BY <2>2, <3>1 DEF InQueue
  <2> QED
    BY <1>1, <2>1, <2>3
<1>7. ASSUME NEW q \in Requests, NEW a \in {"ok", "err"}, Service!Decide(q, a)
      PROVE  reply'[r] # "none" \/ r \in InHand' \/ InQueue(r)'
  <2>1. /\ Submitted' = Submitted /\ queue' = queue /\ InHand' = InHand \ {q}
        /\ reply' = [reply EXCEPT ![q] = a]
    BY <1>7 DEF Service!Decide
  <2>2. reply'[r] = IF r = q THEN a ELSE reply[r]
    BY <1>2, <2>1
  <2> QED
    BY <1>1, <2>1, <2>2 DEF InQueue
<1>8. ASSUME NEW q \in Requests, NEW v, Service!Conclude(q, v)
      PROVE  reply'[r] # "none" \/ r \in InHand' \/ InQueue(r)'
  BY <1>3, <1>8 DEF Service!Conclude
<1> QED
  BY <1>4, <1>5, <1>6, <1>7, <1>8, ServiceRequests
  DEF Service!Next, Service!Refuse, Service!Drop, Service!Deliver, Service!Learn, Service!GiveUp

\* With DiscardInputOnDisconnect no request disappears without an answer,
\* whatever writeLoops come and go and whether or not Close comes in between:
\* an invariant of the service, and so of the session that implements it.
THEOREM RequestsAreKept == Spec => []NoRequestLost
<1>1. Service!Init => NoRequestLost
  BY DEF Service!Init, NoRequestLost, Service!NoneLost
<1>2. Spec => Service!Spec
  BY SessionImplementsService DEF ImplementsWriteService
<1> QED
  BY <1>1, <1>2, TypeInit, TypeNext, ServiceKeeps, PTL DEF Spec, Service!Spec
=============================================================================
