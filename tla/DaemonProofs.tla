---------------------------- MODULE DaemonProofs ----------------------------
(***************************************************************************)
(* Proofs about Daemon: for any daemons with any ports, sharing one socket *)
(* path, started, stopped and killed in any order, beside any commands.    *)
(* DaemonInv relates what a daemon has printed to the ports it holds, and  *)
(* the socket file to the listeners that are open.                         *)
(***************************************************************************)
EXTENDS Daemon, TLAPS

Phase == {"down", "starting", "removed", "bound", "serving", "closing"}

\* The types the other parts rest on.
DaemonTypes ==
  /\ phase \in [Daemons -> Phase]
  /\ next \in [Daemons -> 0 .. Managed]
  /\ port \in [Port -> Daemons \cup {Nobody}]
  /\ file \in Daemons \cup {Nobody}
  /\ killed \in BOOLEAN
  /\ mapped \in [Daemons -> SUBSET Port]
  /\ control \in SUBSET Daemons

\* A daemon that holds its listeners has printed exactly the first next[d] ports
\* and owns each of them.
PortsOK ==
  \A d \in Daemons :
    Running(d) =>
      /\ mapped[d] = {p \in PortsOf(d) : p < BasePort[d] + next[d]}
      /\ \A p \in mapped[d] : port[p] = d

\* Between two starts nothing is left of the last one.
DownOK == \A d \in Daemons : phase[d] = "down" => next[d] = 0 /\ mapped[d] = {}

\* The order of a start: every port first, then the socket.
SocketLast ==
  /\ \A d \in Daemons : phase[d] \in {"removed", "bound", "serving"} => next[d] = Managed
  /\ control = {d \in Daemons : phase[d] \in {"bound", "serving", "closing"}}

DaemonInv == DaemonTypes /\ PortsOK /\ DownOK /\ SocketLast /\ OrphanOnlyByKill

-----------------------------------------------------------------------------
LEMMA InitInv == Init => DaemonInv
<1> SUFFICES ASSUME Init PROVE DaemonInv
  OBVIOUS
<1>1. 0 \in 0 .. Managed
  BY DaemonAssumption
<1>2. DaemonTypes
  BY <1>1 DEF Init, DaemonTypes, Phase
<1>3. PortsOK /\ DownOK /\ SocketLast /\ OrphanOnlyByKill
  BY DEF Init, PortsOK, DownOK, SocketLast, OrphanOnlyByKill, Running
<1> QED BY <1>2, <1>3 DEF DaemonInv

LEMMA PortsOfPort ==
  ASSUME NEW d \in Daemons
  PROVE  /\ PortsOf(d) \subseteq Port
         /\ \A k \in 0 .. (Managed - 1) : BasePort[d] + k \in PortsOf(d)
BY DaemonAssumption DEF PortsOf, Port

\* The process ends: what it owned is free, and the ports of others are theirs.
LEMMA GiveUpInv ==
  ASSUME DaemonInv, NEW d \in Daemons, GiveUp(d)
  PROVE  /\ phase' \in [Daemons -> Phase] /\ next' \in [Daemons -> 0 .. Managed]
         /\ port' \in [Port -> Daemons \cup {Nobody}] /\ mapped' \in [Daemons -> SUBSET Port]
         /\ PortsOK' /\ DownOK'
<1> USE DEF DaemonInv, DaemonTypes
<1>1. phase' = [phase EXCEPT ![d] = "down"] /\ next' = [next EXCEPT ![d] = 0]
      /\ mapped' = [mapped EXCEPT ![d] = {}]
      /\ port' = [p \in Port |-> IF port[p] = d THEN Nobody ELSE port[p]]
  BY DEF GiveUp, Goto, ReleasePorts, Forget
<1>2. PortsOK'
  BY <1>1 DEF PortsOK, Running
<1>3. DownOK'
  BY <1>1 DEF DownOK
<1> QED BY <1>1, <1>2, <1>3, DaemonAssumption DEF Phase

\* A port that is bound was free, so no printed mapping loses it.
LEMMA BindPortInv ==
  ASSUME DaemonInv, NEW d \in Daemons, BindPort(d)
  PROVE  DaemonInv'
<1> USE DEF DaemonInv, DaemonTypes
<1> DEFINE q == BasePort[d] + next[d]
<1>0. phase[d] = "starting" /\ next[d] \in 0 .. (Managed - 1) /\ Running(d)
      /\ UNCHANGED <<control, file, killed>>
  BY DaemonAssumption DEF BindPort, Running
<1>1. CASE GiveUp(d)
  <2>1. phase' = [phase EXCEPT ![d] = "down"] /\ next' = [next EXCEPT ![d] = 0]
    BY <1>1 DEF GiveUp, Goto, Forget
  <2>2. SocketLast' /\ OrphanOnlyByKill'
    BY <1>0, <2>1 DEF SocketLast, OrphanOnlyByKill, Phase
  <2> QED BY <1>0, <1>1, <2>2, GiveUpInv
<1>2. CASE ~GiveUp(d)
  <2>1. /\ port[q] = Nobody /\ port' = [port EXCEPT ![q] = d]
        /\ next' = [next EXCEPT ![d] = @ + 1]
        /\ mapped' = [mapped EXCEPT ![d] = @ \cup {q}] /\ phase' = phase
    <3>1. ~InUse(q)
      BY <1>2 DEF BindPort
    <3>2. q \in Port
      BY <1>0, PortsOfPort
    <3> QED BY <3>1, <3>2 DEF BindPort, InUse
  <2>2. q \in Port /\ q \in PortsOf(d)
    BY <1>0, PortsOfPort
  <2>3. DaemonTypes'
    <3>1. next[d] + 1 \in 0 .. Managed
      BY <1>0, DaemonAssumption
    <3> QED BY <1>0, <2>1, <2>2, <3>1
  <2>4. PortsOK'
    <3> SUFFICES ASSUME NEW e \in Daemons, Running(e)
                 PROVE  /\ mapped'[e] = {p \in PortsOf(e) : p < BasePort[e] + next'[e]}
                        /\ \A p \in mapped'[e] : port'[p] = e
      BY <2>1 DEF PortsOK, Running
    <3>1. CASE e = d
      <4>1. mapped'[d] = {p \in PortsOf(d) : p < BasePort[d] + next'[d]}
        <5>1. mapped'[d] = mapped[d] \cup {q} /\ next'[d] = next[d] + 1
          BY <2>1
        <5>2. mapped[d] = {p \in PortsOf(d) : p < q}
          BY <1>0 DEF PortsOK
        <5>3. \A p \in PortsOf(d) : p \in Int
          BY DEF PortsOf
        <5>4. q \in Int /\ q + 1 = BasePort[d] + (next[d] + 1)
          BY <1>0, DaemonAssumption
        <5> HIDE DEF q
        <5>5. \A p \in PortsOf(d) : p < q + 1 <=> p < q \/ p = q
          BY <5>3, <5>4
        <5> QED BY <2>2, <5>1, <5>2, <5>4, <5>5
      <4>2. \A p \in mapped'[d] : port'[p] = d
        BY <1>0, <2>1, <2>2 DEF PortsOK
      <4> QED BY <3>1, <4>1, <4>2
    <3>2. CASE e # d
      <4>1. \A p \in mapped[e] : port[p] = e /\ p # q
        BY <2>1, DaemonAssumption DEF PortsOK
      <4> QED BY <2>1, <3>2, <4>1 DEF PortsOK
    <3> QED BY <3>1, <3>2
  <2>5. DownOK' /\ SocketLast' /\ OrphanOnlyByKill'
    BY <1>0, <2>1 DEF DownOK, SocketLast, OrphanOnlyByKill
  <2> QED BY <2>3, <2>4, <2>5
<1> QED BY <1>1, <1>2

\* Steps of the socket's part of a start.
LEMMA SocketInv ==
  ASSUME DaemonInv, NEW d \in Daemons,
         Start(d) \/ RemoveSocket(d) \/ BindSocket(d) \/ Chmod(d)
  PROVE  DaemonInv'
<1> USE DEF DaemonInv, DaemonTypes
<1>1. CASE Start(d)
  <2>1. phase[d] = "down" /\ phase' = [phase EXCEPT ![d] = "starting"]
        /\ UNCHANGED <<next, mapped, control, port, file, killed>>
    BY <1>1 DEF Start, Goto
  <2>2. PortsOK'
    <3>1. {p \in PortsOf(d) : p < BasePort[d] + next[d]} = {}
      <4>1. next[d] = 0 /\ BasePort[d] \in Nat
        BY <2>1, DaemonAssumption DEF DownOK
      <4>2. \A p \in PortsOf(d) : p \in Int /\ BasePort[d] <= p
        BY <4>1 DEF PortsOf
      <4> QED BY <4>1, <4>2
    <3>2. mapped[d] = {}
      BY <2>1 DEF DownOK
    <3> QED BY <2>1, <3>1, <3>2 DEF PortsOK, Running
  <2> QED BY <2>1, <2>2 DEF DownOK, SocketLast, OrphanOnlyByKill, Phase
<1>2. CASE RemoveSocket(d)
  <2>1. phase[d] = "starting" /\ phase' = [phase EXCEPT ![d] = "removed"]
        /\ next[d] = Managed /\ file' = Nobody /\ killed' = FALSE
        /\ UNCHANGED <<next, mapped, control, port>>
    BY <1>2 DEF RemoveSocket, PortsBound, Goto
  <2>2. PortsOK'
    BY <2>1 DEF PortsOK, Running
  <2> QED BY <2>1, <2>2 DEF DownOK, SocketLast, OrphanOnlyByKill, Phase
<1>3. CASE BindSocket(d)
  <2>0. phase[d] = "removed" /\ d \notin control /\ UNCHANGED killed
    BY <1>3 DEF BindSocket, SocketLast
  <2>1. CASE file # Nobody
    <3>1. GiveUp(d) /\ UNCHANGED <<file, control>>
      BY <1>3, <2>1 DEF BindSocket
    <3>2. phase' = [phase EXCEPT ![d] = "down"] /\ next' = [next EXCEPT ![d] = 0]
      BY <3>1 DEF GiveUp, Goto, Forget
    <3>3. SocketLast' /\ OrphanOnlyByKill'
      BY <2>0, <3>1, <3>2 DEF SocketLast, OrphanOnlyByKill, Phase
    <3> QED BY <2>0, <3>1, <3>3, GiveUpInv
  <2>2. CASE file = Nobody
    <3>1. /\ phase' = [phase EXCEPT ![d] = "bound"] /\ file' = d
          /\ control' = control \cup {d} /\ UNCHANGED <<next, mapped, port>>
      BY <1>3, <2>2 DEF BindSocket, Goto
    <3>2. PortsOK'
      BY <2>0, <3>1 DEF PortsOK, Running
    <3> QED BY <2>0, <3>1, <3>2 DEF DownOK, SocketLast, OrphanOnlyByKill, Phase
  <2> QED BY <2>1, <2>2
<1>4. CASE Chmod(d)
  <2>0. phase[d] = "bound"
    BY <1>4 DEF Chmod
  <2>1. CASE file = Nobody
    <3>1. /\ GiveUp(d) /\ file' = Nobody /\ killed' = FALSE /\ control' = control \ {d}
      BY <1>4, <2>1 DEF Chmod, CloseSocket, Unlink
    <3>2. phase' = [phase EXCEPT ![d] = "down"] /\ next' = [next EXCEPT ![d] = 0]
      BY <3>1 DEF GiveUp, Goto, Forget
    <3>3. SocketLast' /\ OrphanOnlyByKill'
      BY <2>0, <3>1, <3>2 DEF SocketLast, OrphanOnlyByKill, Phase
    <3> QED BY <3>1, <3>3, GiveUpInv
  <2>2. CASE file # Nobody
    <3>1. /\ phase' = [phase EXCEPT ![d] = "serving"]
          /\ UNCHANGED <<next, mapped, port, control, file, killed>>
      BY <1>4, <2>2 DEF Chmod, Goto
    <3>2. PortsOK'
      BY <2>0, <3>1 DEF PortsOK, Running
    <3> QED BY <2>0, <3>1, <3>2 DEF DownOK, SocketLast, OrphanOnlyByKill, Phase
  <2> QED BY <2>1, <2>2
<1> QED BY <1>1, <1>2, <1>3, <1>4

\* A daemon that ends, by itself or killed, takes its own ports only; the file it
\* leaves is removed or remembered as killed.
LEMMA StopInv ==
  ASSUME DaemonInv, NEW d \in Daemons, Stop(d) \/ Closed(d) \/ Kill(d)
  PROVE  DaemonInv'
<1> USE DEF DaemonInv, DaemonTypes
<1>1. CASE Stop(d)
  <2>1. /\ phase[d] = "serving" /\ phase' = [phase EXCEPT ![d] = "closing"]
        /\ port' = [p \in Port |-> IF port[p] = d THEN Nobody ELSE port[p]]
        /\ UNCHANGED <<next, mapped, control, file, killed>>
    BY <1>1 DEF Stop, Goto, ReleasePorts
  <2>2. PortsOK'
    BY <2>1 DEF PortsOK, Running
  <2> QED BY <2>1, <2>2 DEF DownOK, SocketLast, OrphanOnlyByKill, Phase
<1>2. CASE Closed(d)
  <2>1. /\ phase[d] = "closing" /\ phase' = [phase EXCEPT ![d] = "down"]
        /\ file' = Nobody /\ killed' = FALSE /\ control' = control \ {d}
        /\ next' = [next EXCEPT ![d] = 0] /\ mapped' = [mapped EXCEPT ![d] = {}]
        /\ UNCHANGED port
    BY <1>2 DEF Closed, Goto, CloseSocket, Unlink, Forget
  <2>2. PortsOK'
    BY <2>1 DEF PortsOK, Running
  <2>3. 0 \in 0 .. Managed
    BY DaemonAssumption
  <2>4. DownOK' /\ SocketLast' /\ OrphanOnlyByKill'
    BY <2>1 DEF DownOK, SocketLast, OrphanOnlyByKill, Phase
  <2> QED BY <2>1, <2>2, <2>3, <2>4 DEF Phase
<1>3. CASE Kill(d)
  <2>1. /\ GiveUp(d) /\ control' = control \ {d} /\ killed' = (killed \/ file = d)
        /\ UNCHANGED file
    BY <1>3 DEF Kill, GiveUp
  <2>2. phase' = [phase EXCEPT ![d] = "down"] /\ next' = [next EXCEPT ![d] = 0]
    BY <2>1 DEF GiveUp, Goto, Forget
  <2>3. SocketLast' /\ OrphanOnlyByKill'
    BY <2>1, <2>2 DEF SocketLast, OrphanOnlyByKill, Phase
  <2>4. killed' \in BOOLEAN
    BY <2>1
  <2> QED BY <2>1, <2>3, <2>4, GiveUpInv
<1> QED BY <1>1, <1>2, <1>3

LEMMA QuietInv ==
  ASSUME DaemonInv, UNCHANGED daemon
  PROVE  DaemonInv'
BY DEF daemon, DaemonInv, DaemonTypes, PortsOK, DownOK, SocketLast, OrphanOnlyByKill, Running

LEMMA NextInv == DaemonInv /\ [Next]_vars => DaemonInv'
<1> SUFFICES ASSUME DaemonInv, [Next]_vars PROVE DaemonInv'
  OBVIOUS
<1>1. ASSUME NEW d \in Daemons, Starting(d) PROVE DaemonInv'
  BY <1>1, BindPortInv, SocketInv DEF Starting
<1>2. ASSUME NEW d \in Daemons, Stopping(d) PROVE DaemonInv'
  BY <1>2, StopInv DEF Stopping
<1>3. ASSUME NEW c \in Command, Attach(c) \/ Runs(c) PROVE DaemonInv'
  BY <1>3, QuietInv DEF Attach, Runs, Connect, Answered, LogsIn, Exit
<1>4. CASE UNCHANGED vars
  BY <1>4, QuietInv DEF vars
<1> QED BY <1>1, <1>2, <1>3, <1>4 DEF Next

LEMMA AlwaysInv == DaemonSpec => []DaemonInv
<1> QED BY InitInv, NextInv, PTL DEF DaemonSpec

-----------------------------------------------------------------------------
\* The commands' half of the type, and the bounds of the model's counters.
CommandTypes ==
  /\ at \in [Command -> {"idle", "attached", "connected", "standalone", "served", "failed"}]
  /\ needs \in [Command -> BOOLEAN] /\ alone \in [Command -> BOOLEAN]
  /\ peer \in [Command -> Daemons \cup {Nobody}]
  /\ starts \in 0 .. MaxStarts /\ runs \in 0 .. MaxRuns

LEMMA InitCommand == Init => CommandTypes
BY DaemonAssumption DEF Init, CommandTypes

\* Only a daemon with an open listener becomes a command's peer.
LEMMA CommandSteps ==
  ASSUME DaemonInv, CommandTypes, NEW c \in Command, Attach(c) \/ Runs(c)
  PROVE  CommandTypes'
<1> USE DEF CommandTypes
<1>1. CASE Attach(c)
  <2>1. runs + 1 \in 0 .. MaxRuns /\ runs' = runs + 1 /\ UNCHANGED <<peer, starts>>
    BY <1>1, DaemonAssumption DEF Attach, daemon
  <2>2. alone' \in [Command -> BOOLEAN]
    BY <1>1 DEF Attach
  <2>3. PICK n \in BOOLEAN :
          /\ needs' = [needs EXCEPT ![c] = n]
          /\ Place(c, IF SocketExists THEN "attached" ELSE IF n THEN "failed" ELSE "standalone")
    BY <1>1 DEF Attach
  <2>4. needs' \in [Command -> BOOLEAN]
    BY <2>3
  <2> QED BY <2>1, <2>2, <2>3, <2>4 DEF Place
<1>2. CASE Connect(c)
  <2>1. control \subseteq Daemons
    BY DEF DaemonInv, DaemonTypes
  <2> QED BY <1>2, <2>1 DEF Connect, DialFails, Place, daemon
<1>3. CASE Answered(c)
  BY <1>3 DEF Answered, Place, daemon
<1>4. CASE LogsIn(c)
  BY <1>4 DEF LogsIn, Place, daemon
<1>5. CASE Exit(c)
  BY <1>5 DEF Exit, Place, daemon
<1> QED BY <1>1, <1>2, <1>3, <1>4, <1>5 DEF Runs

LEMMA CommandStep == DaemonInv /\ CommandTypes /\ [Next]_vars => CommandTypes'
<1> SUFFICES ASSUME DaemonInv, CommandTypes, [Next]_vars PROVE CommandTypes'
  OBVIOUS
<1> USE DEF CommandTypes, command
<1>1. ASSUME NEW d \in Daemons, Start(d) PROVE CommandTypes'
  BY <1>1, DaemonAssumption DEF Start
<1>2. ASSUME NEW d \in Daemons,
             \/ BindPort(d) \/ RemoveSocket(d) \/ BindSocket(d) \/ Chmod(d)
             \/ Stopping(d)
      PROVE  CommandTypes'
  BY <1>2 DEF BindPort, RemoveSocket, BindSocket, Chmod, Stopping, Stop, Closed, Kill
<1>3. CASE UNCHANGED vars
  BY <1>3 DEF vars, daemon
<1> QED BY <1>1, <1>2, <1>3, CommandSteps DEF Next, Starting

\* The control socket is bound after every gateway listener and is open exactly while
\* the daemon says so (daemon.go:230-274); every command is at one of its steps, at the
\* end of the socket of a daemon (socket.go:21-40).
THEOREM DaemonOrdered == DaemonSpec => []DaemonTypeOK
<1>1. DaemonInv /\ CommandTypes => DaemonTypeOK
  BY DEF DaemonInv, DaemonTypes, SocketLast, CommandTypes, DaemonTypeOK, Phase
<1> QED BY <1>1, InitInv, InitCommand, NextInv, CommandStep, PTL DEF DaemonSpec

-----------------------------------------------------------------------------
\* Every mapping a running daemon printed leads to it (daemon.go:234-255), whatever
\* other daemons want the same ports.
THEOREM MappingsHold == DaemonSpec => []MappingTrue
<1>1. DaemonInv => MappingTrue
  BY DEF DaemonInv, PortsOK, MappingTrue
<1> QED BY <1>1, AlwaysInv, PTL

\* A socket file without a listener behind it is the work of a kill: every other end
\* of a daemon removes it (daemon.go:236-274).
THEOREM OrphansExplained == DaemonSpec => []OrphanOnlyByKill
<1>1. DaemonInv => OrphanOnlyByKill
  BY DEF DaemonInv
<1> QED BY <1>1, AlwaysInv, PTL

\* No daemon with a port in common takes the socket of one that serves: it fails at
\* that port before it comes to the file (daemon.go:257-262).
THEOREM SocketKept == DaemonSpec => KeepsSocket
<1>1. ASSUME DaemonInv, [Next]_vars, NEW d \in Daemons,
             Moves(d, "serving", "serving"), file = d, file' # d
      PROVE  \E e \in Daemons \ {d} : \/ Moves(e, "closing", "down")
                                      \/ Moves(e, "starting", "removed") /\ ~Overlap(d, e)
  <2> USE DEF DaemonInv, DaemonTypes
  <2>0. phase[d] = "serving" /\ phase'[d] = "serving" /\ file # Nobody
    BY <1>1, DaemonAssumption DEF Moves
  <2>1. ASSUME NEW e \in Daemons, RemoveSocket(e)
        PROVE  e # d /\ Moves(e, "starting", "removed") /\ ~Overlap(d, e)
    <3>1. phase[e] = "starting" /\ phase'[e] = "removed" /\ next[e] = Managed
      BY <1>1, <2>1 DEF RemoveSocket, PortsBound, Goto
    <3>2. next[d] = Managed /\ Running(d) /\ Running(e) /\ e # d
      BY <1>1, <2>0, <3>1 DEF SocketLast, Running
    <3>3. ASSUME NEW f \in {d, e}, NEW p \in PortsOf(f) PROVE port[p] = f
      <4>1. mapped[f] = {r \in PortsOf(f) : r < BasePort[f] + next[f]}
            /\ \A r \in mapped[f] : port[r] = f
        BY <1>1, <3>2 DEF PortsOK
      <4>2. p < BasePort[f] + Managed
        BY DaemonAssumption DEF PortsOf
      <4> QED BY <3>1, <3>2, <4>1, <4>2
    <3>4. ~Overlap(d, e)
      BY <3>2, <3>3 DEF Overlap
    <3> QED BY <3>1, <3>2, <3>4 DEF Moves
  <2>2. ASSUME NEW e \in Daemons, Closed(e)
        PROVE  e # d /\ Moves(e, "closing", "down")
    BY <1>1, <2>0, <2>2 DEF Closed, Goto, Moves
  <2>3. ASSUME NEW e \in Daemons,
               Start(e) \/ BindPort(e) \/ BindSocket(e) \/ Chmod(e) \/ Stop(e) \/ Kill(e)
        PROVE  UNCHANGED file
    BY <2>0, <2>3 DEF Start, BindPort, BindSocket, Chmod, Stop, Kill
  <2>4. ASSUME NEW c \in Command, Attach(c) \/ Runs(c) PROVE UNCHANGED file
    BY <2>4 DEF Attach, Runs, Connect, Answered, LogsIn, Exit, daemon
  <2>5. ASSUME UNCHANGED vars PROVE UNCHANGED file
    BY <2>5 DEF vars, daemon
  <2> QED BY <1>1, <2>1, <2>2, <2>3, <2>4, <2>5 DEF Next, Starting, Stopping
<1>2. DaemonInv /\ [Next]_vars =>
        [ \A d \in Daemons :
            Moves(d, "serving", "serving") /\ file = d /\ file' # d =>
              \E e \in Daemons \ {d} :
                \/ Moves(e, "closing", "down")
                \/ Moves(e, "starting", "removed") /\ ~Overlap(d, e) ]_vars
  BY <1>1
<1> QED BY <1>2, AlwaysInv, PTL DEF DaemonSpec, KeepsSocket
=============================================================================
