------------------------------ MODULE HostKey -------------------------------
(***************************************************************************)
(* The file host_key and LoadOrGenerateHostKeyPEM (internal/ssh/           *)
(* server.go), called by main() in AutoStart, by AddMapping and by the     *)
(* tunnels in ssh_proxy mode, each in a goroutine of its own.  The file is *)
(* read, and if it does not exist generated and written in place: opened   *)
(* with O_TRUNC, then written.  A key is the number of its generation.     *)
(***************************************************************************)
EXTENDS Integers

CONSTANT Callers

VARIABLES keyFile,      \* Absent, Torn (empty or cut short), or a key
          generated,    \* number of the last key generated
          loading       \* where a call is, and the key it has generated

keyVars == <<keyFile, generated, loading>>

Torn == -1
Absent == 0
Idle == [at |-> "idle", key |-> Absent]

KeyInit ==
    /\ keyFile = Absent /\ generated = 0
    /\ loading = [a \in Callers |-> Idle]

Set(a, at, key) == loading' = [loading EXCEPT ![a] = [at |-> at, key |-> key]]

Exists == keyFile # Absent

(* os.ReadFile: whatever the file holds is returned.                        *)
ReadKey(a, data) ==
    /\ loading[a].at = "idle" /\ Exists /\ data = keyFile
    /\ UNCHANGED keyVars

Generate(a) ==
    /\ loading[a].at = "idle" /\ ~Exists
    /\ generated' = generated + 1 /\ Set(a, "generated", generated + 1)
    /\ UNCHANGED keyFile

Truncate(a) ==
    /\ loading[a].at = "generated" /\ Set(a, "truncated", loading[a].key)
    /\ keyFile' = Torn
    /\ UNCHANGED generated

(* The caller gets the key it has generated, not what the file holds now.   *)
WriteKey(a, data) ==
    /\ loading[a].at = "truncated" /\ data = loading[a].key
    /\ keyFile' = data /\ Set(a, "idle", Absent)
    /\ UNCHANGED generated

LoadContinues(a) == Generate(a) \/ Truncate(a)
LoadReturns(a, data) == ReadKey(a, data) \/ WriteKey(a, data)

(* A read, an open or a write fails; what was truncated stays so.           *)
LoadFails(a) ==
    /\ loading[a].at = "idle" => Exists
    /\ Set(a, "idle", Absent)
    /\ UNCHANGED <<keyFile, generated>>

(* The process ends.  Keys that have not reached the file are forgotten, so *)
(* that their numbers may be given again.                                   *)
LoadsEnd ==
    /\ loading' = [a \in Callers |-> Idle]
    /\ generated' = (IF keyFile \in {Absent, Torn} THEN 0 ELSE generated)
    /\ UNCHANGED keyFile
=============================================================================
