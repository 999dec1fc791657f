--------------------------- MODULE ControlPlane ---------------------------
(***************************************************************************)
(* What a CLI command meets at the control socket (internal/control,       *)
(* cmd/socket.go): a running daemon and its session store, the socket file *)
(* a killed daemon leaves behind, no file at all, or, later in the same    *)
(* command, a daemon that was started again with an empty store.           *)
(*                                                                         *)
(* The store is the daemon's while the command is attached or has not yet  *)
(* looked, and the command's own once it runs standalone.  Sessions live in*)
(* memory only: whatever ends the daemon forgets them and drops the calls  *)
(* in progress.                                                            *)
(***************************************************************************)
EXTENDS SessionStore

CONSTANTS Command,    \* the CLI command, a caller of the store if it asks for sessions
          MaxStarts   \* bound: daemons started after the first state

ASSUME ControlAssumption == MaxStarts \in Nat

VARIABLES socket,   \* the socket file: none, stale (nobody listens) or live
          starts    \* daemons started so far

control == <<socket, starts>>

ControlInit ==
  /\ Init
  /\ socket \in {"none", "stale", "live"}
  /\ starts = 0

\* SocketExists looks at the file, not at whether anybody listens.
SocketExists == socket # "none"

Listening == socket = "live"

\* The daemon ends: a signal lets it unlink the socket, a kill does not.
DaemonEnds ==
  /\ socket = "live"
  /\ socket' \in {"none", "stale"}
  /\ Forget
  /\ UNCHANGED starts

\* The next daemon removes a stale file and listens; its store is empty.
DaemonStarts ==
  /\ socket # "live"
  /\ starts < MaxStarts
  /\ socket' = "live"
  /\ starts' = starts + 1
  /\ UNCHANGED vars

\* The daemon's other callers: gateway requests and the proactive loop.
DaemonServes(c) ==
  /\ socket = "live"
  /\ c # Command
  /\ \/ BudgetLeft /\ \E i \in Id : CallGet(c, i) \/ CallRefresh(c, i)
     \/ CallerStep(c)
  /\ UNCHANGED control

\* A step inside the command's Get, in the daemon or in its own store.
CallProceeds ==
  /\ GetEnter(Command) \/ RecipeOk(Command) \/ RecipeErr(Command)
  /\ UNCHANGED control
===========================================================================
