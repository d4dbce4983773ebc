------------------------------- MODULE Logger -------------------------------
(***************************************************************************)
(* The handler of internal/log/log.go for the text format, which all       *)
(* components log through.  main() makes one; logger.With makes a copy of  *)
(* the handler it is called on (WithAttrs, WithGroup), for each server,    *)
(* session, recorder, tunnel and proxy, while other goroutines log.  The   *)
(* mutex is a field of the handler and is copied with it, in the state it  *)
(* is in.  The text of a record is left out.                               *)
(***************************************************************************)
EXTENDS Naturals

CONSTANTS Goroutines,
          MaxHandlers   \* bound: handlers made

VARIABLES made,         \* handlers 1..made exist
          locked,       \* mutex of a handler
          at, via       \* of a goroutine: where Handle is, and of which handler

vars == <<made, locked, at, via>>

Init ==
    /\ made = 1 /\ locked = [h \in 1..MaxHandlers |-> FALSE]
    /\ at = [g \in Goroutines |-> "idle"] /\ via = [g \in Goroutines |-> 1]

WithAttrs(g, h) ==
    /\ at[g] = "idle" /\ made < MaxHandlers /\ made' = made + 1
    /\ locked' = [locked EXCEPT ![made + 1] = locked[h]]
    /\ UNCHANGED <<at, via>>

Call(g, h) ==
    /\ at[g] = "idle" /\ at' = [at EXCEPT ![g] = "locking"]
    /\ via' = [via EXCEPT ![g] = h]
    /\ UNCHANGED <<made, locked>>

Lock(g) ==
    /\ at[g] = "locking" /\ ~locked[via[g]]
    /\ at' = [at EXCEPT ![g] = "writing"] /\ locked' = [locked EXCEPT ![via[g]] = TRUE]
    /\ UNCHANGED <<made, via>>

Write(g) ==                                     \* and the deferred Unlock
    /\ at[g] = "writing"
    /\ at' = [at EXCEPT ![g] = "idle"] /\ locked' = [locked EXCEPT ![via[g]] = FALSE]
    /\ UNCHANGED <<made, via>>

Next ==
    \E g \in Goroutines :
        \/ Lock(g) \/ Write(g)
        \/ \E h \in 1..made : WithAttrs(g, h) \/ Call(g, h)

(* A Write ends, and sync.Mutex lets nobody wait for ever.                  *)
Fairness == \A g \in Goroutines : SF_vars(Lock(g)) /\ WF_vars(Write(g))

FairSpec == Init /\ [][Next]_vars /\ Fairness

(* .zread/wiki/drafts/24-structured-logging-with-rotation-support.md:124:   *)
(* the mutex ensures that "concurrent log calls from multiple goroutines    *)
(* [...] produce cleanly interleaved output".  Of a handler that was copied *)
(* while another goroutine was in Handle the first call never returns and   *)
(* produces nothing: the copy of the mutex is locked and nobody will unlock *)
(* it (log.go:84-85, 136-140).                                              *)
CallsProduceOutput ==
    \A g \in Goroutines : at[g] = "locking" ~> at[g] = "writing"
=============================================================================
