---------------------------- MODULE ProxyBridge -----------------------------
(***************************************************************************)
(* internal/tunnel/proxybridge.go: one connection of a user to a tunnel in *)
(* ssh_proxy mode.  Serve answers it as an SSH server; bridgeSession, one  *)
(* goroutine per session, opens a connection of its own to the target,     *)
(* runs there what the user asked for, and reports its exit status.        *)
(*                                                                         *)
(* External, as the code uses them: gliderlabs/ssh reports status 0 for a  *)
(* handler that returns without Exit, and the first Exit counts; Wait of   *)
(* golang.org/x/crypto/ssh returns the error of a copy when the status was *)
(* 0, such as that of input that comes when the target has closed.         *)
(***************************************************************************)
EXTENDS Integers

CONSTANTS Sessions,     \* sessions of the connection
          MaxStatus     \* bound: exit statuses of the target's commands

ASSUME ProxyAssumption == MaxStatus \in Nat \ {0}

VARIABLES usable,       \* the host key parses and the authentication is by password
          conn,         \* the user's connection: "accepted", "up", "gone"
          user,         \* of a session: "none", "here", "gone" (its input has ended)
          at,           \* where bridgeSession is
          pty,          \* the user has asked for a terminal
          exit,         \* status reported, None as yet
          target,       \* client: "none", "open", "closed"
          cmd, status,  \* command on the target, and what it ended with
          heeds,        \* it ends when its input ends
          helpers       \* goroutines for window changes and signals

connVars == <<usable, conn>>
targetVars == <<target, cmd, status, heeds>>
bridgeVars == <<connVars, user, at, pty, exit, targetVars, helpers>>

None == -1

BridgeInit ==
    /\ usable \in BOOLEAN /\ conn = "accepted"
    /\ user = [s \in Sessions |-> "none"] /\ at = [s \in Sessions |-> "none"]
    /\ pty = [s \in Sessions |-> FALSE] /\ exit = [s \in Sessions |-> None]
    /\ target = [s \in Sessions |-> "none"]
    /\ cmd = [s \in Sessions |-> "none"] /\ status = [s \in Sessions |-> None]
    /\ heeds \in [Sessions -> BOOLEAN]
    /\ helpers = [s \in Sessions |-> {}]

-----------------------------------------------------------------------------
(* Serve.                                                                   *)

Refuse ==
    /\ conn = "accepted" /\ ~usable /\ conn' = "gone"
    /\ UNCHANGED <<usable, user, at, pty, exit, targetVars, helpers>>

HandleConn ==
    /\ conn = "accepted" /\ usable /\ conn' = "up"
    /\ UNCHANGED <<usable, user, at, pty, exit, targetVars, helpers>>

(* Serve returns, but the bridgeSessions go on.                             *)
Disconnect ==
    /\ conn = "up" /\ conn' = "gone"
    /\ user' = [s \in Sessions |-> IF user[s] = "none" THEN "none" ELSE "gone"]
    /\ UNCHANGED <<usable, at, pty, exit, targetVars, helpers>>

HangUp(s) ==                                    \* the user closes one session
    /\ user[s] = "here" /\ user' = [user EXCEPT ![s] = "gone"]
    /\ UNCHANGED <<connVars, at, pty, exit, targetVars, helpers>>

-----------------------------------------------------------------------------
(* bridgeSession.                                                           *)

Move(s, from, to) == at[s] = from /\ at' = [at EXCEPT ![s] = to]

Report(s, code) ==
    exit' = [exit EXCEPT ![s] = IF @ = None THEN code ELSE @]

Request(s) ==
    /\ conn = "up" /\ user[s] = "none" /\ user' = [user EXCEPT ![s] = "here"]
    /\ \/ Move(s, "none", "dial") /\ UNCHANGED exit
       \/ Move(s, "none", "return") /\ Report(s, 1)           \* a subsystem
    /\ \E p \in BOOLEAN : pty' = [pty EXCEPT ![s] = p]
    /\ UNCHANGED <<connVars, targetVars, helpers>>

(* dialTarget, NewSession, RequestPty or the start of the command fails.    *)
Failure_Silent(s) == UNCHANGED exit                         \* Mutant
Failure(s) == Report(s, 1)

Fail(s) ==
    /\ \/ Move(s, "dial", "return")
       \/ Move(s, "session", "return")
       \/ Move(s, "pty", "return") /\ pty[s]
       \/ Move(s, "start", "return")
    /\ Failure(s)
    /\ UNCHANGED <<connVars, user, pty, targetVars, helpers>>

Dial(s) ==
    /\ Move(s, "dial", "session") /\ target' = [target EXCEPT ![s] = "open"]
    /\ UNCHANGED <<connVars, user, pty, exit, cmd, status, heeds, helpers>>

NewSession(s) ==
    /\ Move(s, "session", "pty")
    /\ UNCHANGED <<connVars, user, pty, exit, targetVars, helpers>>

Helpers(s) ==
    /\ Move(s, "pty", "start")
    /\ helpers' = [helpers EXCEPT ![s] = {"signals"} \cup IF pty[s] THEN {"window"} ELSE {}]
    /\ UNCHANGED <<connVars, user, pty, exit, targetVars>>

StartCommand(s) ==
    /\ Move(s, "start", "wait") /\ cmd' = [cmd EXCEPT ![s] = "running"]
    /\ UNCHANGED <<connVars, user, pty, exit, target, status, heeds, helpers>>

(* Out of Wait with the status, without one, or with the error of a copy.   *)
Reported(s) ==
    CASE cmd[s] = "lost"                       -> {1}
      [] cmd[s] = "ended" /\ status[s] = 0     -> {0, 1}
      [] cmd[s] = "ended" /\ status[s] # 0     -> {status[s]}

Waited(s) ==
    /\ Move(s, "wait", "return") /\ cmd[s] \in {"ended", "lost"}
    /\ \E code \in Reported(s) : Report(s, code)
    /\ UNCHANGED <<connVars, user, pty, targetVars, helpers>>

(* The deferred closes.                                                     *)
ClosesTarget_Forgotten(s) == target[s]                      \* Mutant
ClosesTarget(s) == IF target[s] = "open" THEN "closed" ELSE target[s]

Return(s) ==
    /\ Move(s, "return", "returned") /\ Report(s, 0)
    /\ target' = [target EXCEPT ![s] = ClosesTarget(s)]
    /\ user' = [user EXCEPT ![s] = "gone"]
    /\ UNCHANGED <<connVars, pty, cmd, status, heeds, helpers>>

(* A helper ends with the user's connection only: nobody closes its channel.*)
HelperEnds(s) ==
    /\ conn = "gone" /\ helpers[s] # {}
    /\ \E h \in helpers[s] : helpers' = [helpers EXCEPT ![s] = @ \ {h}]
    /\ UNCHANGED <<connVars, user, at, pty, exit, targetVars>>

-----------------------------------------------------------------------------
(* The target.                                                              *)

CommandEnds(s) ==
    /\ cmd[s] = "running" /\ cmd' = [cmd EXCEPT ![s] = "ended"]
    /\ \E n \in 0..MaxStatus : status' = [status EXCEPT ![s] = n]
    /\ UNCHANGED <<connVars, user, at, pty, exit, target, heeds, helpers>>

TargetLost(s) ==                                \* or a command that ends without a status
    /\ cmd[s] = "running" /\ cmd' = [cmd EXCEPT ![s] = "lost"]
    /\ UNCHANGED <<connVars, user, at, pty, exit, target, status, heeds, helpers>>

Handler(s) ==
    \/ Fail(s) \/ Dial(s) \/ NewSession(s) \/ Helpers(s) \/ StartCommand(s)
    \/ Waited(s) \/ Return(s)

BridgeNext ==
    \/ Refuse \/ HandleConn \/ Disconnect
    \/ \E s \in Sessions : \/ Request(s) \/ HangUp(s) \/ Handler(s) \/ HelperEnds(s)
                           \/ CommandEnds(s) \/ TargetLost(s)

BridgeSpec == BridgeInit /\ [][BridgeNext]_bridgeVars

(* Goroutines that can run do, a dial is answered or times out, and a       *)
(* command that heeds the end of its input ends after it.                   *)
EndsOnEof(s) == user[s] = "gone" /\ heeds[s] /\ CommandEnds(s)

BridgeFairness ==
    \A s \in Sessions :
        WF_bridgeVars(Handler(s)) /\ WF_bridgeVars(HelperEnds(s)) /\ WF_bridgeVars(EndsOnEof(s))

BridgeFairSpec == BridgeSpec /\ BridgeFairness

-----------------------------------------------------------------------------
BridgeTypes ==
    /\ usable \in BOOLEAN /\ conn \in {"accepted", "up", "gone"}
    /\ user \in [Sessions -> {"none", "here", "gone"}]
    /\ at \in [Sessions -> {"none", "dial", "session", "pty", "start", "wait",
                            "return", "returned"}]
    /\ pty \in [Sessions -> BOOLEAN]
    /\ exit \in [Sessions -> None..MaxStatus] /\ status \in [Sessions -> None..MaxStatus]
    /\ target \in [Sessions -> {"none", "open", "closed"}]
    /\ cmd \in [Sessions -> {"none", "running", "ended", "lost"}]
    /\ heeds \in [Sessions -> BOOLEAN]
    /\ helpers \in [Sessions -> SUBSET {"signals", "window"}]

(* A user is told success only if the command ran and succeeded, and a      *)
(* status other than 0 as it was: every path on which something failed      *)
(* reports before it returns, since returning reports 0 (proxybridge.go:    *)
(* 71-98, 101-106, 142-167).                                                *)
ExitIsTruthful ==
    \A s \in Sessions :
        /\ exit[s] = 0 => cmd[s] = "ended" /\ status[s] = 0
        /\ at[s] = "returned" /\ status[s] > 0 => exit[s] = status[s]

(* A user that has gone leaves nothing on the gateway: if the command ends  *)
(* with its input, the handler returns and the target's connection is       *)
(* closed, whatever failed on the way; and the helpers end with the         *)
(* connection (proxybridge.go:84, 93, 110-119, 125-140, 149).               *)
LeaversAreReleased ==
    \A s \in Sessions :
        /\ user[s] = "gone" /\ heeds[s] ~> at[s] = "returned" /\ target[s] # "open"
        /\ conn = "gone" /\ heeds[s] ~> helpers[s] = {}

-----------------------------------------------------------------------------
(* What one might expect and the code does not guarantee: the end of the    *)
(* user's connection ends the work for it.  A command that goes on without  *)
(* its input keeps handler and target connection (proxybridge.go:149, 151). *)
ConnectionEndsSessions ==
    conn = "gone" ~> \A s \in Sessions : at[s] \in {"none", "returned"}

(* Success of the command is reported as such (proxybridge.go:154-167).     *)
SuccessIsReported ==
    \A s \in Sessions : at[s] = "returned" /\ status[s] = 0 => exit[s] = 0
=============================================================================
