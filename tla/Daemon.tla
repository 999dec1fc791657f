------------------------------ MODULE Daemon ------------------------------
(***************************************************************************)
(* The life of a claviger daemon (cmd/daemon.go) and of the commands that  *)
(* attach to it (cmd/socket.go, internal/control): the gateway ports and   *)
(* the control socket a daemon binds, serves and releases, and a command's *)
(* choice between a running daemon and a login of its own.                 *)
(*                                                                         *)
(* Several daemons may be started on one host.  They share the path of the *)
(* control socket, a file that outlives a process that is killed; the      *)
(* kernel releases the ports and the listening end of the socket.  Closing *)
(* a Unix listener in Go removes whatever file is at its path.             *)
(***************************************************************************)
EXTENDS Integers, FiniteSets

CONSTANTS Daemons,   \* daemon processes, each with its own flags
          Nobody,    \* no daemon: a free port, no socket file
          BasePort,  \* --base-port of each daemon
          Managed,   \* the number of identities in the configuration
          Command,   \* CLI commands that run beside the daemons
          MaxStarts, \* bound: starts of a daemon
          MaxRuns    \* bound: commands run

ASSUME DaemonAssumption ==
  /\ Nobody \notin Daemons
  /\ BasePort \in [Daemons -> Nat \ {0}]
  /\ Managed \in Nat
  /\ MaxStarts \in Nat
  /\ MaxRuns \in Nat

VARIABLES
  phase,    \* where each daemon is
  next,     \* how many gateway listeners it has bound
  mapped,   \* the ports whose mapping it has printed
  control,  \* the daemons whose control listener is open
  port,     \* who has bound each port
  file,     \* the daemon that created the socket file
  killed,   \* history: the socket file was left behind by a killed daemon
  at,       \* where each command is
  needs,    \* it is status or watch, which cannot do without a daemon
  peer,     \* the daemon it is connected to
  alone,    \* history: no control listener was open when it looked
  starts,   \* starts so far
  runs      \* commands so far

daemon  == <<phase, next, mapped, control, port, file, killed, starts>>
command == <<at, needs, peer, alone, runs>>
vars    == <<daemon, command>>

PortsOf(d) == BasePort[d]..(BasePort[d] + Managed - 1)
Port       == UNION {PortsOf(d) : d \in Daemons}

Init ==
  /\ phase = [d \in Daemons |-> "down"]
  /\ next = [d \in Daemons |-> 0]
  /\ mapped = [d \in Daemons |-> {}]
  /\ control = {}
  /\ port = [p \in Port |-> Nobody]
  /\ file = Nobody
  /\ killed = FALSE
  /\ at = [c \in Command |-> "idle"]
  /\ needs = [c \in Command |-> FALSE]
  /\ peer = [c \in Command |-> Nobody]
  /\ alone = [c \in Command |-> FALSE]
  /\ starts = 0
  /\ runs = 0

-----------------------------------------------------------------------------
(* Starting.                                                               *)

Goto(d, where) == phase' = [phase EXCEPT ![d] = where]

ReleasePorts(d) == port' = [p \in Port |-> IF port[p] = d THEN Nobody ELSE port[p]]

Forget(d) ==
  /\ next' = [next EXCEPT ![d] = 0]
  /\ mapped' = [mapped EXCEPT ![d] = {}]

\* The process ends with an error, after closeAll of the gateway listeners.
GiveUp(d) == Goto(d, "down") /\ ReleasePorts(d) /\ Forget(d)

Start(d) ==
  /\ phase[d] = "down"
  /\ starts < MaxStarts
  /\ starts' = starts + 1
  /\ Goto(d, "starting")
  /\ UNCHANGED <<next, mapped, control, port, file, killed, command>>

InUseIgnored(p) == FALSE

InUse(p) == port[p] # Nobody

\* The gateway listener of the next identity: bound before it is printed.
BindPort(d) ==
  /\ phase[d] = "starting"
  /\ next[d] < Managed
  /\ LET p == BasePort[d] + next[d]
     IN  IF InUse(p)
           THEN GiveUp(d)
           ELSE /\ port' = [port EXCEPT ![p] = IF @ = Nobody THEN d ELSE @]
                /\ next' = [next EXCEPT ![d] = @ + 1]
                /\ mapped' = [mapped EXCEPT ![d] = @ \cup {p}]
                /\ UNCHANGED phase
  /\ UNCHANGED <<control, file, killed, starts, command>>

PortsUnchecked(d) == TRUE

PortsBound(d) == next[d] = Managed

\* os.Remove of whatever is at the path.
RemoveSocket(d) ==
  /\ phase[d] = "starting"
  /\ PortsBound(d)
  /\ Goto(d, "removed")
  /\ file' = Nobody
  /\ killed' = FALSE
  /\ UNCHANGED <<next, mapped, control, port, starts, command>>

BindSocket(d) ==
  /\ phase[d] = "removed"
  /\ IF file # Nobody
       THEN GiveUp(d) /\ UNCHANGED <<file, control>>
       ELSE /\ Goto(d, "bound")
            /\ file' = d
            /\ control' = control \cup {d}
            /\ UNCHANGED <<next, mapped, port>>
  /\ UNCHANGED <<killed, starts, command>>

UnlinkForgotten(d) == UNCHANGED <<file, killed>>

\* Closing the listener removes the file at the path, whoever created it.
Unlink(d) == file' = Nobody /\ killed' = FALSE

CloseSocket(d) == Unlink(d) /\ control' = control \ {d}

\* The file may be gone again, and then the daemon gives up.
Chmod(d) ==
  /\ phase[d] = "bound"
  /\ IF file = Nobody
       THEN GiveUp(d) /\ CloseSocket(d)
       ELSE Goto(d, "serving") /\ UNCHANGED <<next, mapped, port, control, file, killed>>
  /\ UNCHANGED <<starts, command>>

-----------------------------------------------------------------------------
(* Stopping: a signal or a listener that fails makes the daemon close its  *)
(* listeners in the order they were opened.                                *)

Stop(d) ==
  /\ phase[d] = "serving"
  /\ Goto(d, "closing")
  /\ ReleasePorts(d)
  /\ UNCHANGED <<next, mapped, control, file, killed, starts, command>>

Closed(d) ==
  /\ phase[d] = "closing"
  /\ Goto(d, "down")
  /\ CloseSocket(d)
  /\ Forget(d)
  /\ UNCHANGED <<port, starts, command>>

\* The process is killed: the kernel closes what it held, the file stays.
Kill(d) ==
  /\ phase[d] # "down"
  /\ Goto(d, "down")
  /\ ReleasePorts(d)
  /\ Forget(d)
  /\ control' = control \ {d}
  /\ killed' = (killed \/ file = d)
  /\ UNCHANGED <<file, starts, command>>

-----------------------------------------------------------------------------
(* Commands.                                                               *)

Place(c, where) == at' = [at EXCEPT ![c] = where]

\* attachClient: only the file is looked at.
SocketExists == file # Nobody

\* A command starts: header, identities and replay log in on their own when
\* there is no daemon, status and watch fail.
Attach(c) ==
  /\ at[c] = "idle"
  /\ runs < MaxRuns
  /\ runs' = runs + 1
  /\ alone' = [alone EXCEPT ![c] = control = {}]
  /\ \E n \in BOOLEAN :
       /\ needs' = [needs EXCEPT ![c] = n]
       /\ Place(c, IF SocketExists THEN "attached" ELSE IF n THEN "failed" ELSE "standalone")
  /\ UNCHANGED <<peer, daemon>>

DialAgain(c) == UNCHANGED at

DialFails(c) == Place(c, "failed")

\* The dial: it needs the file and an open listener behind it.
Connect(c) ==
  /\ at[c] = "attached"
  /\ IF file \in control
       THEN Place(c, "connected") /\ peer' = [peer EXCEPT ![c] = file]
       ELSE DialFails(c) /\ UNCHANGED peer
  /\ UNCHANGED <<needs, alone, runs, daemon>>

HangsUp(c) == peer[c] \notin control

\* The daemon answers from its store or with an error, and a connection to
\* a daemon that has gone breaks.
Answered(c) ==
  /\ at[c] = "connected"
  /\ \/ peer[c] \in control /\ Place(c, "served")
     \/ peer[c] \in control /\ Place(c, "failed")
     \/ HangsUp(c) /\ Place(c, "failed")
  /\ UNCHANGED <<needs, peer, alone, runs, daemon>>

\* A login of the command's own, from the configuration, succeeds or fails.
LogsIn(c) ==
  /\ at[c] = "standalone"
  /\ \E where \in {"served", "failed"} : Place(c, where)
  /\ UNCHANGED <<needs, peer, alone, runs, daemon>>

Exit(c) ==
  /\ at[c] \in {"served", "failed"}
  /\ Place(c, "idle")
  /\ needs' = [needs EXCEPT ![c] = FALSE]
  /\ peer' = [peer EXCEPT ![c] = Nobody]
  /\ alone' = [alone EXCEPT ![c] = FALSE]
  /\ UNCHANGED <<runs, daemon>>

-----------------------------------------------------------------------------
Starting(d) == Start(d) \/ BindPort(d) \/ RemoveSocket(d) \/ BindSocket(d) \/ Chmod(d)
Stopping(d) == Stop(d) \/ Closed(d) \/ Kill(d)
Runs(c)     == Connect(c) \/ Answered(c) \/ LogsIn(c) \/ Exit(c)

Next ==
  \/ \E d \in Daemons : Starting(d) \/ Stopping(d)
  \/ \E c \in Command : Attach(c) \/ Runs(c)

\* A started command is run to its end and a daemon answers a request.
\* Nothing is assumed of the life of a daemon.
DaemonSpec ==
  /\ Init
  /\ [][Next]_vars
  /\ \A c \in Command : WF_vars(Runs(c))

-----------------------------------------------------------------------------
(* Properties.                                                             *)

Running(d) == phase[d] \in {"starting", "removed", "bound", "serving"}

\* Type, and the order of a start: the control socket comes after every
\* gateway listener, and it is open exactly while the daemon says so.
DaemonTypeOK ==
  /\ phase \in [Daemons -> {"down", "starting", "removed", "bound", "serving", "closing"}]
  /\ next \in [Daemons -> 0..Managed]
  /\ mapped \in [Daemons -> SUBSET Port]
  /\ control \subseteq Daemons
  /\ port \in [Port -> Daemons \cup {Nobody}]
  /\ file \in Daemons \cup {Nobody}
  /\ killed \in BOOLEAN
  /\ at \in [Command -> {"idle", "attached", "connected", "standalone", "served", "failed"}]
  /\ needs \in [Command -> BOOLEAN] /\ alone \in [Command -> BOOLEAN]
  /\ peer \in [Command -> Daemons \cup {Nobody}]
  /\ starts \in 0..MaxStarts /\ runs \in 0..MaxRuns
  /\ \A d \in Daemons : phase[d] \in {"removed", "bound", "serving"} => next[d] = Managed
  /\ control = {d \in Daemons : phase[d] \in {"bound", "serving", "closing"}}

\* A mapping that was printed is true for as long as the daemon runs
\* (daemon.go: a failed bind "fails loudly before we print a mapping").
MappingTrue ==
  \A d \in Daemons : Running(d) => \A p \in mapped[d] : port[p] = d

\* A socket file with nobody behind it is left by a killed daemon only.
OrphanOnlyByKill == file = Nobody \/ file \in control \/ killed

Overlap(d, e) == PortsOf(d) \cap PortsOf(e) # {}

Moves(e, from, to) == phase[e] = from /\ phase'[e] = to

\* A daemon that serves keeps its socket: another one started on a port of
\* its own gives up before it touches the file.  Only one that ends its
\* closing, or one that starts with no port in common, takes it away.
KeepsSocket ==
  [][ \A d \in Daemons :
        Moves(d, "serving", "serving") /\ file = d /\ file' # d =>
          \E e \in Daemons \ {d} :
            \/ Moves(e, "closing", "down")
            \/ Moves(e, "starting", "removed") /\ ~Overlap(d, e) ]_vars

\* A command that was started ends.
EveryCommandEnds == \A c \in Command : at[c] # "idle" ~> at[c] = "idle"

\* A command attaches only when a daemon is live at the path and falls back
\* to its own login when none is running (socket.go, attachClient).
AttachesOnlyToLive ==
  \A c \in Command : at[c] = "attached" => ~alone[c]
=============================================================================
