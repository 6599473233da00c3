---------------------------- MODULE SocketsProofs ----------------------------
(***************************************************************************)
(* The sockets, proved for every number of slaves and of clients that the  *)
(* functions provide for, and also with all processes on one host: no bind *)
(* fails but that of the client interface of a slave started again, and    *)
(* nobody receives what is meant for another thread; and a connection with *)
(* a client carries one message at a time, whose receiver is waiting for   *)
(* it.                                                                     *)
(***************************************************************************)
EXTENDS Ports, ClientConnections, FiniteSetTheorems, TLAPS

-----------------------------------------------------------------------------
(* The ports.  The argument is about the ports alone: those for one use    *)
(* are apart from those for the others, and within one use the port tells  *)
(* for whom the socket is.  For the ports of the clients that takes        *)
(* CLIENT_NUM <= 100.                                                      *)

(* The port tells the slave and the client: 5000 + 100 r + c is read       *)
(* backwards as long as c is below 100.                                    *)
LEMMA AddPortsApart ==
  ASSUME NEW r1 \in SlaveIds, NEW r2 \in SlaveIds,
         NEW c1 \in 0 .. CLIENT_NUM - 1, NEW c2 \in 0 .. CLIENT_NUM - 1,
         AddPort(r1, c1) = AddPort(r2, c2)
  PROVE  r1 = r2 /\ c1 = c2
<1>1. c1 \in 0 .. 99 /\ c2 \in 0 .. 99
  BY PortsAssumption, ClientNumAssumption
<1>2. r1 \in Int /\ r2 \in Int
  BY PortsAssumption DEF SlaveIds
<1> QED
  BY <1>1, <1>2 DEF AddPort

(* The sockets of each use, with the ports they are bound to.              *)
IsAdd(u) ==
  \E r \in SlaveIds, c \in 0 .. CLIENT_NUM - 1 :
    u = AddSocket(r, c) /\ Port(u) = AddPort(r, c)
IsAck(u) == \E r \in SlaveIds : u = AckSocket(r) /\ Port(u) = AckPort(r)
IsSequencer(u) ==
  \E r \in SlaveIds : u = SequencerSocket(r) /\ Port(u) = SequencerPort(r)
IsInterface(u) ==
  \E r \in SlaveIds : u = InterfaceSocket(r) /\ Port(u) = InterfacePort(r)
IsFinish(u) ==
  \E r \in 0 .. REPLICA_NUM - 1 : u = FinishSocket(r) /\ Port(u) = FinishPort(r)

LEMMA EverySocketHasAUse ==
  ASSUME NEW u \in Sockets
  PROVE  IsAdd(u) \/ IsAck(u) \/ IsSequencer(u) \/ IsInterface(u) \/ IsFinish(u)
<1>1. CASE \E r \in SlaveIds, c \in 0 .. CLIENT_NUM - 1 : u = AddSocket(r, c)
  BY <1>1 DEF IsAdd, Port, AddSocket
<1>2. CASE \E r \in SlaveIds : u = AckSocket(r)
  BY <1>2 DEF IsAck, Port, AckSocket
<1>3. CASE \E r \in SlaveIds : u = SequencerSocket(r)
  BY <1>3 DEF IsSequencer, Port, SequencerSocket
<1>4. CASE \E r \in SlaveIds : u = InterfaceSocket(r)
  BY <1>4 DEF IsInterface, Port, InterfaceSocket
<1>5. CASE \E r \in 0 .. REPLICA_NUM - 1 : u = FinishSocket(r)
  BY <1>5 DEF IsFinish, Port, FinishSocket
<1> QED
  BY <1>1, <1>2, <1>3, <1>4, <1>5 DEF Sockets

(* The ranges of the uses do not meet.                                     *)
LEMMA PortTellsTheUse ==
  ASSUME NEW u
  PROVE  /\ IsAdd(u) => Port(u) \in 5100 .. 5699
         /\ IsAck(u) => Port(u) \in 6661 .. 6666
         /\ IsSequencer(u) => Port(u) \in 7771 .. 7776
         /\ IsInterface(u) => Port(u) \in 8881 .. 8886
         /\ IsFinish(u) => Port(u) \in 9000 .. 9006
<1> DEFINE p == Port(u)
<1>1. ASSUME IsAdd(u) PROVE p \in 5100 .. 5699
  <2>1. PICK r \in SlaveIds, c \in 0 .. CLIENT_NUM - 1 : p = AddPort(r, c)
    BY <1>1 DEF IsAdd
  <2>2. r \in 1 .. 6 /\ c \in 0 .. 99
    BY PortsAssumption, ClientNumAssumption DEF SlaveIds
  <2> HIDE DEF p
  <2> QED
    BY <2>1, <2>2 DEF AddPort
<1>2. ASSUME NEW r \in SlaveIds PROVE r \in 1 .. 6
  BY PortsAssumption DEF SlaveIds
<1>3. ASSUME NEW r \in 0 .. REPLICA_NUM - 1 PROVE r \in 0 .. 6
  BY PortsAssumption
<1>4. IsAck(u) => \E r \in 1 .. 6 : p = 6660 + r
  BY <1>2 DEF IsAck, AckPort
<1>5. IsSequencer(u) => \E r \in 1 .. 6 : p = 7770 + r
  BY <1>2 DEF IsSequencer, SequencerPort
<1>6. IsInterface(u) => \E r \in 1 .. 6 : p = 8880 + r
  BY <1>2 DEF IsInterface, InterfacePort
<1>7. IsFinish(u) => \E r \in 0 .. 6 : p = 9000 + r
  BY <1>3 DEF IsFinish, FinishPort
<1> HIDE DEF p
<1>8. /\ IsAdd(u) => p \in 5100 .. 5699
      /\ IsAck(u) => p \in 6661 .. 6666
      /\ IsSequencer(u) => p \in 7771 .. 7776
      /\ IsInterface(u) => p \in 8881 .. 8886
      /\ IsFinish(u) => p \in 9000 .. 9006
  BY <1>1, <1>4, <1>5, <1>6, <1>7
<1> QED
  BY <1>8 DEF p

(* Two sockets with one address are one socket.                            *)
LEMMA AddressIsOfOneSocket ==
  ASSUME NEW s \in Sockets, NEW t \in Sockets, SameAddress(s, t)
  PROVE  s = t
<1> DEFINE p == Port(s)
<1> DEFINE q == Port(t)
<1>1. p = q
  BY DEF SameAddress
<1>2. /\ IsAdd(s) => p \in 5100 .. 5699
      /\ IsAck(s) => p \in 6661 .. 6666
      /\ IsSequencer(s) => p \in 7771 .. 7776
      /\ IsInterface(s) => p \in 8881 .. 8886
      /\ IsFinish(s) => p \in 9000 .. 9006
  BY PortTellsTheUse
<1>3. /\ IsAdd(t) => q \in 5100 .. 5699
      /\ IsAck(t) => q \in 6661 .. 6666
      /\ IsSequencer(t) => q \in 7771 .. 7776
      /\ IsInterface(t) => q \in 8881 .. 8886
      /\ IsFinish(t) => q \in 9000 .. 9006
  BY PortTellsTheUse
<1>4. IsAdd(s) \/ IsAck(s) \/ IsSequencer(s) \/ IsInterface(s) \/ IsFinish(s)
  BY EverySocketHasAUse
<1>5. IsAdd(t) \/ IsAck(t) \/ IsSequencer(t) \/ IsInterface(t) \/ IsFinish(t)
  BY EverySocketHasAUse
<1>6. SlaveIds \subseteq Int /\ 0 .. REPLICA_NUM - 1 \subseteq Int
  BY PortsAssumption DEF SlaveIds
<1>7. ASSUME IsAdd(s), IsAdd(t) PROVE s = t
  <2>1. PICK r1 \in SlaveIds, c1 \in 0 .. CLIENT_NUM - 1 :
          s = AddSocket(r1, c1) /\ p = AddPort(r1, c1)
    BY <1>7 DEF IsAdd
  <2>2. PICK r2 \in SlaveIds, c2 \in 0 .. CLIENT_NUM - 1 :
          t = AddSocket(r2, c2) /\ q = AddPort(r2, c2)
    BY <1>7 DEF IsAdd
  <2> HIDE DEF p, q
  <2>3. AddPort(r1, c1) = AddPort(r2, c2)
    BY <1>1, <2>1, <2>2
  <2>4. r1 = r2 /\ c1 = c2
    BY <2>3, AddPortsApart
  <2> QED
    BY <2>1, <2>2, <2>4
<1>8. ASSUME IsAck(s), IsAck(t) PROVE s = t
  <2>1. PICK r1 \in SlaveIds : s = AckSocket(r1) /\ p = AckPort(r1)
    BY <1>8 DEF IsAck
  <2>2. PICK r2 \in SlaveIds : t = AckSocket(r2) /\ q = AckPort(r2)
    BY <1>8 DEF IsAck
  <2> HIDE DEF p, q
  <2>3. r1 \in Int /\ r2 \in Int
    BY <1>6
  <2>4. AckPort(r1) = AckPort(r2)
    BY <1>1, <2>1, <2>2
  <2>5. r1 = r2
    BY <2>3, <2>4 DEF AckPort
  <2> QED
    BY <2>1, <2>2, <2>5
<1>9. ASSUME IsSequencer(s), IsSequencer(t) PROVE s = t
  <2>1. PICK r1 \in SlaveIds : s = SequencerSocket(r1) /\ p = SequencerPort(r1)
    BY <1>9 DEF IsSequencer
  <2>2. PICK r2 \in SlaveIds : t = SequencerSocket(r2) /\ q = SequencerPort(r2)
    BY <1>9 DEF IsSequencer
  <2> HIDE DEF p, q
  <2>3. r1 \in Int /\ r2 \in Int
    BY <1>6
  <2>4. SequencerPort(r1) = SequencerPort(r2)
    BY <1>1, <2>1, <2>2
  <2>5. r1 = r2
    BY <2>3, <2>4 DEF SequencerPort
  <2> QED
    BY <2>1, <2>2, <2>5
<1>10. ASSUME IsInterface(s), IsInterface(t) PROVE s = t
  <2>1. PICK r1 \in SlaveIds : s = InterfaceSocket(r1) /\ p = InterfacePort(r1)
    BY <1>10 DEF IsInterface
  <2>2. PICK r2 \in SlaveIds : t = InterfaceSocket(r2) /\ q = InterfacePort(r2)
    BY <1>10 DEF IsInterface
  <2> HIDE DEF p, q
  <2>3. r1 \in Int /\ r2 \in Int
    BY <1>6
  <2>4. InterfacePort(r1) = InterfacePort(r2)
    BY <1>1, <2>1, <2>2
  <2>5. r1 = r2
    BY <2>3, <2>4 DEF InterfacePort
  <2> QED
    BY <2>1, <2>2, <2>5
<1>11. ASSUME IsFinish(s), IsFinish(t) PROVE s = t
  <2>1. PICK r1 \in 0 .. REPLICA_NUM - 1 :
          s = FinishSocket(r1) /\ p = FinishPort(r1)
    BY <1>11 DEF IsFinish
  <2>2. PICK r2 \in 0 .. REPLICA_NUM - 1 :
          t = FinishSocket(r2) /\ q = FinishPort(r2)
    BY <1>11 DEF IsFinish
  <2> HIDE DEF p, q
  <2>3. r1 \in Int /\ r2 \in Int
    BY <1>6
  <2>4. FinishPort(r1) = FinishPort(r2)
    BY <1>1, <2>1, <2>2
  <2>5. r1 = r2
    BY <2>3, <2>4 DEF FinishPort
  <2> QED
    BY <2>1, <2>2, <2>5
<1> HIDE DEF p, q
<1> QED
  BY SMTT(60), <1>1, <1>2, <1>3, <1>4, <1>5, <1>7, <1>8, <1>9, <1>10, <1>11

(* A socket for TCP is that of a client interface.                         *)
LEMMA TcpIsInterface ==
  ASSUME NEW s \in Sockets, Protocol(s) = "tcp"
  PROVE  s = InterfaceSocket(s.of)
<1>1. s.use = "interface"
  BY DEF Protocol
<1> QED
  BY <1>1 DEF Sockets, AddSocket, AckSocket, SequencerSocket, InterfaceSocket,
              FinishSocket

(* What the induction carries: only sockets of the program are bound, and  *)
(* an address that is not free is one of the socket itself.                *)
PortsInv ==
  bound \cup lingering \subseteq Sockets /\ OnlyRestartedInterfacesFail

LEMMA BindKeepsInv ==
  ASSUME PortsInv, NEW s \in Sockets, Bind(s)
  PROVE  PortsInv'
<1>1. UNCHANGED <<lingering, restarted>>
  BY DEF Bind
<1>2. bound' \subseteq bound \cup {s} /\ failed' \subseteq failed \cup {s}
  BY DEF Bind
<1>3. CASE \E t \in bound \cup lingering : SameAddress(s, t)
  <2>1. s \in lingering
    BY <1>3, AddressIsOfOneSocket DEF Bind, PortsInv
  <2> QED
    BY <1>1, <1>2, <2>1 DEF PortsInv, OnlyRestartedInterfacesFail
<1>4. CASE ~ \E t \in bound \cup lingering : SameAddress(s, t)
  <2>1. UNCHANGED failed
    BY <1>4 DEF Bind
  <2> QED
    BY <1>1, <1>2, <2>1 DEF PortsInv, OnlyRestartedInterfacesFail
<1> QED
  BY <1>3, <1>4

LEMMA EndProcessKeepsInv ==
  ASSUME PortsInv, NEW r \in 0 .. REPLICA_NUM - 1, EndProcess(r)
  PROVE  PortsInv'
<1>1. bound' \subseteq bound /\ failed' \subseteq failed
  BY DEF EndProcess
<1>2. lingering' \subseteq Sockets
  BY DEF EndProcess, PortsInv
<1>3. restarted' = restarted \cup {r}
  BY DEF EndProcess
<1>4. ASSUME NEW s \in lingering', s \notin lingering
      PROVE  s = InterfaceSocket(r)
  <2>1. s \in bound /\ s.of = r /\ Protocol(s) = "tcp"
    BY <1>4 DEF EndProcess
  <2> QED
    BY <2>1, TcpIsInterface DEF PortsInv
<1> QED
  BY <1>1, <1>2, <1>3, <1>4 DEF PortsInv, OnlyRestartedInterfacesFail

LEMMA PortsInvariance == PortsSpec => []PortsInv
<1>1. PortsInit => PortsInv
  BY DEF PortsInit, PortsInv, OnlyRestartedInterfacesFail
<1>2. PortsInv /\ [PortsNext]_portsVars => PortsInv'
  <2> SUFFICES ASSUME PortsInv, [PortsNext]_portsVars
               PROVE  PortsInv'
    OBVIOUS
  <2>1. ASSUME NEW s \in lingering, TimeWaitOver(s)
        PROVE  PortsInv'
    BY <2>1 DEF TimeWaitOver, PortsInv, OnlyRestartedInterfacesFail
  <2>2. CASE UNCHANGED portsVars
    BY <2>2 DEF portsVars, PortsInv, OnlyRestartedInterfacesFail
  <2> QED
    BY <2>1, <2>2, BindKeepsInv, EndProcessKeepsInv DEF PortsNext
<1> QED
  BY <1>1, <1>2, PTL DEF PortsSpec

(* Where a thread may wait at a socket without its port: nowhere but in    *)
(* the client interface of a slave that has been started again, for every  *)
(* number of slaves and clients the functions provide for (the callers of  *)
(* udp_sv_socket_init and tcp_sv_socket_init ignore what they return).     *)
THEOREM BindsFailOnlyAfterRestart == PortsSpec => []OnlyRestartedInterfacesFail
<1>1. PortsInv => OnlyRestartedInterfacesFail
  BY DEF PortsInv
<1> QED
  BY <1>1, PortsInvariance, PTL

(* What is sent to the address of a thread's socket can reach no other.    *)
THEOREM RightThreadReceives == PortsSpec => []NobodyElseReceives
<1>1. PortsInv => NobodyElseReceives
  BY AddressIsOfOneSocket DEF PortsInv, NobodyElseReceives
<1> QED
  BY <1>1, PortsInvariance, PTL

-----------------------------------------------------------------------------
(* The connections.                                                        *)

(* The messages of a connection, of which one at most is on its way.       *)
LEMMA MessageFacts ==
  /\ \A id \in 0 .. MaxTxId :
       /\ Request(id) \in Messages /\ Response(id) \in Messages
       /\ Request(id).type = "REQUEST_TX" /\ Request(id).id = id
       /\ Request(id) # FinishRequest
  /\ FinishRequest \in Messages /\ FinishRequest.type = "FINISH_REQUEST"
BY DEF Messages, Request, Response, FinishRequest

LEMMA OneMessage ==
  ASSUME NEW m
  PROVE  /\ Append(<<>>, m) = <<m>> /\ Head(<<m>>) = m
         /\ <<m>> # <<>> /\ Len(<<m>>) = 1 /\ Len(<<>>) = 0
         /\ m \in Messages => <<m>> \in Seq(Messages)
OBVIOUS

LEMMA LastOfTwo ==
  ASSUME NEW m \in Nat, NEW n \in Nat, m + n <= 1
  PROVE  n <= 1
OBVIOUS

LEMMA ClientFacts ==
  ASSUME NEW c \in Clients
  PROVE  c.run \in 1 .. Runs
BY DEF Clients

(* A step that changes nothing of the workers changes nothing of who has   *)
(* been accepted.                                                          *)
LEMMA SameAccepted ==
  ASSUME ConnectionsTypeOK, UNCHANGED worker_pc
  PROVE  Cardinality(Accepted') <= CLIENT_NUM /\ IsFiniteSet(Accepted')
BY DEF ConnectionsTypeOK, Accepted

-----------------------------------------------------------------------------
(* The client programs.                                                    *)
LEMMA ProgramStep ==
  ASSUME ConnectionsInv, NEW r \in 1 .. Runs, Program(r)
  PROVE  ConnectionsInv'
<1> USE DEF ConnectionsInv
<1>1. UNCHANGED <<program, clientVars, tcpVars, workerVars, processVars>>
  BY DEF Program, StartProgram, TimeUp, JoinThreads
<1>2. /\ run_state' \in [1 .. Runs -> {"waits", "running", "ended", "killed"}]
      /\ time_up' \in [1 .. Runs -> BOOLEAN]
      /\ finish_sent' \in [1 .. Runs -> BOOLEAN]
      /\ \A p \in 1 .. Runs : finish_sent[p] => finish_sent'[p]
      /\ RunInv'
  <2>1. CASE StartProgram(r)
    BY <1>1, <2>1 DEF StartProgram, ConnectionsTypeOK, RunInv, processVars
  <2>2. CASE TimeUp(r)
    BY <1>1, <2>2, ZenonT(60) DEF TimeUp, ConnectionsTypeOK, RunInv, processVars
  <2>3. CASE JoinThreads(r)
    BY <1>1, <2>3 DEF JoinThreads, ConnectionsTypeOK, RunInv, processVars
  <2> QED BY <2>1, <2>2, <2>3 DEF Program
<1>3. ConnectionsTypeOK'
  BY <1>1, <1>2, SameAccepted
  DEF ConnectionsTypeOK, clientVars, tcpVars, workerVars, processVars
<1>4. SlaveInv'
  BY <1>1, <1>2 DEF SlaveInv, tcpVars, processVars
<1>5. WaitingInv' /\ ClientInv' /\ TurnInv' /\ TakenOnce'
  BY <1>1
  DEF WaitingInv, ClientInv, TurnInv, RequestInv, AnsweredInv, TakenOnce,
      clientVars, tcpVars, workerVars, processVars
<1> QED BY <1>2, <1>3, <1>4, <1>5

-----------------------------------------------------------------------------
(* The threads of the clients.                                             *)
LEMMA SendEffect ==
  ASSUME ConnectionsInv, NEW c \in Clients, NEW x, Send(c, x),
         slave = "up" => up[c] = <<>>
  PROVE  \/ /\ slave = "up" /\ up' = [up EXCEPT ![c] = <<x>>]
            /\ UNCHANGED <<run_state, reset>>
         \/ /\ slave = "ended" /\ UNCHANGED up
            /\ \/ reset' = [reset EXCEPT ![c] = TRUE] /\ UNCHANGED run_state
               \/ /\ run_state' = [run_state EXCEPT ![c.run] = "killed"]
                  /\ UNCHANGED reset
BY OneMessage DEF Send, ConnectionsInv, ConnectionsTypeOK, SlaveInv

(* ... and what it keeps, whichever message it is.                         *)
LEMMA SendKeeps ==
  ASSUME ConnectionsInv, NEW c \in Clients, NEW x \in Messages, Send(c, x),
         Running(c), slave = "up" => up[c] = <<>>, down[c] = <<>>,
         UNCHANGED <<time_up, finish_sent, slave, finish, down, queue>>
  PROVE  /\ up' \in [Clients -> Seq(Messages)]
         /\ \A d \in Clients : Len(up'[d]) + Len(down'[d]) <= 1
         /\ run_state' \in
              [1 .. Runs -> {"waits", "running", "ended", "killed"}]
         /\ reset' \in [Clients -> BOOLEAN]
         /\ RunInv' /\ SlaveInv'
<1> DEFINE sent == <<x>>
<1> USE DEF ConnectionsInv
<1>1. sent \in Seq(Messages) /\ Len(sent) = 1 /\ Len(down[c]) = 0
  BY OneMessage
<1>2. \/ /\ slave = "up" /\ up' = [up EXCEPT ![c] = sent]
         /\ UNCHANGED <<run_state, reset>>
      \/ /\ slave = "ended" /\ UNCHANGED up
         /\ \/ reset' = [reset EXCEPT ![c] = TRUE] /\ UNCHANGED run_state
            \/ /\ run_state' = [run_state EXCEPT ![c.run] = "killed"]
               /\ UNCHANGED reset
  BY SendEffect
<1> HIDE DEF sent
<1>3. up' \in [Clients -> Seq(Messages)]
  BY <1>1, <1>2 DEF ConnectionsTypeOK
<1>4. ASSUME NEW d \in Clients
      PROVE  Len(up'[d]) + Len(down'[d]) <= 1
  <2>1. up'[d] = up[d] \/ (d = c /\ up'[d] = sent)
    BY <1>2 DEF ConnectionsTypeOK
  <2>2. Len(up[d]) + Len(down[d]) <= 1
    BY DEF ConnectionsTypeOK
  <2>3. CASE d = c /\ up'[d] = sent
    <3>1. Len(up'[d]) = 1 /\ Len(down[d]) = 0
      BY <1>1, <2>3
    <3> QED BY <3>1
  <2> QED BY <2>1, <2>2, <2>3
<1>5. /\ run_state' \in [1 .. Runs -> {"waits", "running", "ended", "killed"}]
      /\ reset' \in [Clients -> BOOLEAN]
  BY <1>2, ClientFacts DEF ConnectionsTypeOK
<1>6. RunInv'
  <2>1. c.run \in 1 .. Runs /\ run_state[c.run] = "running"
    BY ClientFacts DEF Running
  <2>2. CASE UNCHANGED run_state
    BY <2>2 DEF RunInv
  <2>3. CASE /\ slave = "ended"
             /\ run_state' = [run_state EXCEPT ![c.run] = "killed"]
    <3>1. /\ run_state'[c.run] = "killed"
          /\ \A p \in 1 .. Runs : p # c.run => run_state'[p] = run_state[p]
      BY <2>1, <2>3 DEF ConnectionsTypeOK
    <3> QED BY <2>1, <2>3, <3>1 DEF RunInv
  <2> QED BY <1>2, <2>2, <2>3
<1>7. SlaveInv'
  BY <1>2 DEF SlaveInv, ConnectionsTypeOK
<1> QED BY <1>3, <1>4, <1>5, <1>6, <1>7

LEMMA ConnectStep ==
  ASSUME ConnectionsInv, NEW c \in Clients, Connect(c)
  PROVE  ConnectionsInv'
<1> USE DEF ConnectionsInv
<1>1. ConnectionsTypeOK'
  <2>1. queue' \in Seq(Clients)
    <3>1. queue \in Seq(Clients)
      BY DEF ConnectionsTypeOK
    <3>2. queue' = Append(queue, c) \/ UNCHANGED queue
      BY DEF Connect
    <3> QED BY <3>1, <3>2
  <2>2. reset' \in [Clients -> BOOLEAN]
    BY ZenonT(30) DEF Connect, ConnectionsTypeOK
  <2>3. client_pc' \in [Clients -> {"connect", "request", "receive", "farewell",
                                    "ended"}]
    BY DEF Connect, ConnectionsTypeOK
  <2> QED BY <2>1, <2>2, <2>3, SameAccepted
          DEF Connect, ConnectionsTypeOK, runVars, workerVars, processVars
<1>2. RunInv' /\ SlaveInv'
  <2>1. CASE slave = "up"
    <3>1. UNCHANGED reset
      BY <2>1 DEF Connect
    <3> QED BY <2>1, <3>1 DEF Connect, RunInv, SlaveInv, runVars, processVars
  <2>2. CASE slave # "up"
    <3>1. slave = "ended" /\ UNCHANGED queue
      BY <2>2 DEF Connect, ConnectionsTypeOK
    <3> QED BY <3>1 DEF Connect, RunInv, SlaveInv, runVars, processVars
  <2> QED BY <2>1, <2>2
<1>3. WaitingInv'
  <2>0. CASE UNCHANGED queue
    <3>1. /\ client_pc'[c] = "request" /\ UNCHANGED worker_pc
          /\ \A d \in Clients \ {c} : client_pc'[d] = client_pc[d]
      BY DEF Connect, ConnectionsTypeOK, workerVars
    <3>2. \A i \in 1 .. Len(queue) : queue[i] \in Clients
      BY DEF ConnectionsTypeOK
    <3> QED BY <2>0, <3>1, <3>2 DEF WaitingInv
  <2> SUFFICES ASSUME queue' = Append(queue, c)
               PROVE  WaitingInv'
    BY <2>0 DEF Connect
  <2>1. queue \in Seq(Clients) /\ queue' = Append(queue, c)
    BY DEF ConnectionsTypeOK
  <2>2. /\ Len(queue') = Len(queue) + 1 /\ queue'[Len(queue) + 1] = c
        /\ \A i \in 1 .. Len(queue) :
             queue'[i] = queue[i] /\ queue[i] \in Clients
    BY <2>1
  <2>3. /\ client_pc[c] = "connect" /\ worker_pc[c] = "none"
        /\ client_pc'[c] = "request" /\ UNCHANGED worker_pc
        /\ \A d \in Clients \ {c} : client_pc'[d] = client_pc[d]
    BY DEF Connect, ClientInv, ConnectionsTypeOK, workerVars
  <2>4. \A i \in 1 .. Len(queue) : queue[i] # c
    BY <2>3 DEF WaitingInv
  <2> QED BY <2>1, <2>2, <2>3, <2>4 DEF WaitingInv
<1>4. ClientInv'
  BY DEF Connect, ClientInv, ConnectionsTypeOK, workerVars
<1>5. TurnInv' /\ TakenOnce'
  BY DEF Connect, TurnInv, RequestInv, AnsweredInv, TakenOnce,
         ConnectionsTypeOK, workerVars, processVars
<1> QED BY <1>1, <1>2, <1>3, <1>4, <1>5

LEMMA SendRequestStep ==
  ASSUME ConnectionsInv, NEW c \in Clients, SendRequest(c)
  PROVE  ConnectionsInv'
<1> USE DEF ConnectionsInv
<1>1. /\ slave = "up" => up[c] = <<>>
      /\ down[c] = <<>> /\ Running(c)
  BY DEF SendRequest, TurnInv, AnsweredInv, ClientInv
<1>2. tx_id[c] \in 0 .. MaxTxId /\ Request(tx_id[c]) \in Messages
  BY MessageFacts DEF ConnectionsTypeOK
<1>3. slave = "up" => up' = [up EXCEPT ![c] = <<Request(tx_id[c])>>]
  BY <1>1, SendEffect DEF SendRequest
<1>4. slave = "ended" => UNCHANGED up
  BY <1>1, SendEffect DEF SendRequest
<1>5. /\ up' \in [Clients -> Seq(Messages)]
      /\ \A d \in Clients : Len(up'[d]) + Len(down'[d]) <= 1
      /\ run_state' \in [1 .. Runs -> {"waits", "running", "ended", "killed"}]
      /\ reset' \in [Clients -> BOOLEAN]
      /\ RunInv' /\ SlaveInv'
  BY <1>1, <1>2, SendKeeps DEF SendRequest, processVars
<1>6. ConnectionsTypeOK'
  BY <1>2, <1>5, SameAccepted
  DEF SendRequest, ConnectionsTypeOK, workerVars, processVars
<1>7. WaitingInv'
  <2>1. \A i \in 1 .. Len(queue) : queue[i] \in Clients
    BY DEF ConnectionsTypeOK
  <2> QED BY <2>1 DEF SendRequest, WaitingInv, ConnectionsTypeOK, workerVars
<1>8. ClientInv'
  BY <1>1, <1>3, <1>4 DEF SendRequest, ClientInv, ConnectionsTypeOK, workerVars
<1>9. TurnInv'
  <2> SUFFICES ASSUME slave = "up", NEW d \in Clients
               PROVE  IF client_pc'[d] = "receive" THEN RequestInv(d)'
                      ELSE AnsweredInv(d)'
    BY DEF TurnInv, SendRequest, processVars
  <2>1. IF client_pc[d] = "receive" THEN RequestInv(d) ELSE AnsweredInv(d)
    BY DEF TurnInv
  <2>2. CASE d = c
    BY <1>3, <2>1, <2>2
    DEF SendRequest, RequestInv, AnsweredInv, ConnectionsTypeOK, workerVars
  <2>3. CASE d # c
    BY <1>3, <2>1, <2>3
    DEF SendRequest, RequestInv, AnsweredInv, ConnectionsTypeOK, workerVars
  <2> QED BY <2>2, <2>3
<1>10. TakenOnce'
  BY DEF SendRequest, TakenOnce, workerVars
<1> QED BY <1>5, <1>6, <1>7, <1>8, <1>9, <1>10

LEMMA FarewellStep ==
  ASSUME ConnectionsInv, NEW c \in Clients, Farewell(c)
  PROVE  ConnectionsInv'
<1> USE DEF ConnectionsInv
<1>1. /\ slave = "up" => up[c] = <<>>
      /\ down[c] = <<>> /\ Running(c)
  BY DEF Farewell, TurnInv, AnsweredInv, ClientInv
<1>2. FinishRequest \in Messages
  BY MessageFacts
<1>3. slave = "up" => up' = [up EXCEPT ![c] = <<FinishRequest>>]
  BY <1>1, SendEffect DEF Farewell
<1>4. slave = "ended" => UNCHANGED up
  BY <1>1, SendEffect DEF Farewell
<1>5. /\ up' \in [Clients -> Seq(Messages)]
      /\ \A d \in Clients : Len(up'[d]) + Len(down'[d]) <= 1
      /\ run_state' \in [1 .. Runs -> {"waits", "running", "ended", "killed"}]
      /\ reset' \in [Clients -> BOOLEAN]
      /\ RunInv' /\ SlaveInv'
  BY <1>1, <1>2, SendKeeps DEF Farewell, processVars
<1>6. ConnectionsTypeOK'
  BY <1>2, <1>5, SameAccepted
  DEF Farewell, ConnectionsTypeOK, workerVars, processVars
<1>7. WaitingInv'
  <2>1. \A i \in 1 .. Len(queue) : queue[i] \in Clients
    BY DEF ConnectionsTypeOK
  <2> QED BY <2>1 DEF Farewell, WaitingInv, ConnectionsTypeOK, workerVars
<1>8. ClientInv'
  BY <1>1, <1>3, <1>4 DEF Farewell, ClientInv, ConnectionsTypeOK, workerVars
<1>9. TurnInv'
  <2> SUFFICES ASSUME slave = "up", NEW d \in Clients
               PROVE  IF client_pc'[d] = "receive" THEN RequestInv(d)'
                      ELSE AnsweredInv(d)'
    BY DEF TurnInv, Farewell, processVars
  <2>1. IF client_pc[d] = "receive" THEN RequestInv(d) ELSE AnsweredInv(d)
    BY DEF TurnInv
  <2>2. CASE d = c
    BY <1>3, <2>1, <2>2
    DEF Farewell, RequestInv, AnsweredInv, ConnectionsTypeOK, workerVars
  <2>3. CASE d # c
    BY <1>3, <2>1, <2>3
    DEF Farewell, RequestInv, AnsweredInv, ConnectionsTypeOK, workerVars
  <2> QED BY <2>2, <2>3
<1>10. TakenOnce'
  BY DEF Farewell, TakenOnce, workerVars
<1> QED BY <1>5, <1>6, <1>7, <1>8, <1>9, <1>10

(* The thread goes on with the next transaction or says farewell; without a *)
(* row for the present one if the time is up.                              *)
LEMMA ReceiveEffect ==
  ASSUME ConnectionsInv, NEW c \in Clients, ReceiveResponse(c)
  PROVE  \E pc \in {"request", "farewell"}, id \in 0 .. MaxTxId,
            new \in Seq((0 .. MaxTxId) \X Messages) :
           /\ client_pc' = [client_pc EXCEPT ![c] = pc]
           /\ tx_id' = [tx_id EXCEPT ![c] = id]
           /\ rows' = [rows EXCEPT ![c] = new]
           /\ IF pc = "request" THEN id = tx_id[c] + 1 /\ Len(new) = id
              ELSE id = tx_id[c] /\ Len(new) \in {id, id + 1}
<1> USE DEF ConnectionsInv
<1> DEFINE x == IF down[c] # <<>> THEN Head(down[c]) ELSE msg[c]
           more == Append(rows[c], <<tx_id[c], x>>)
<1>1. /\ tx_id[c] \in 0 .. MaxTxId /\ msg[c] = Request(tx_id[c])
      /\ down[c] \in {<<>>, <<Response(tx_id[c])>>}
      /\ rows[c] \in Seq((0 .. MaxTxId) \X Messages) /\ Len(rows[c]) = tx_id[c]
  BY DEF ReceiveResponse, ConnectionsTypeOK, ClientInv
<1>2. x \in Messages
  BY <1>1, MessageFacts, OneMessage
<1>3. msg'[c] = x
  BY DEF ReceiveResponse, ConnectionsTypeOK
<1> HIDE DEF x
<1>4. /\ more \in Seq((0 .. MaxTxId) \X Messages)
      /\ Len(more) = tx_id[c] + 1
  BY <1>1, <1>2
<1>5. CASE time_up[c.run]
  <2>1. /\ client_pc' = [client_pc EXCEPT ![c] = "farewell"]
        /\ tx_id' = [tx_id EXCEPT ![c] = tx_id[c]]
        /\ rows' = [rows EXCEPT ![c] = rows[c]]
    BY <1>5 DEF ReceiveResponse, ConnectionsTypeOK
  <2> QED BY <1>1, <2>1
<1>6. CASE ~time_up[c.run] /\ tx_id[c] = MaxTxId
  <2>1. /\ client_pc' = [client_pc EXCEPT ![c] = "farewell"]
        /\ tx_id' = [tx_id EXCEPT ![c] = tx_id[c]]
        /\ rows' = [rows EXCEPT ![c] = more]
    BY <1>3, <1>6 DEF ReceiveResponse, ConnectionsTypeOK
  <2> QED BY <1>1, <1>4, <2>1
<1>7. CASE ~time_up[c.run] /\ tx_id[c] # MaxTxId
  <2>1. /\ client_pc' = [client_pc EXCEPT ![c] = "request"]
        /\ tx_id' = [tx_id EXCEPT ![c] = tx_id[c] + 1]
        /\ rows' = [rows EXCEPT ![c] = more]
    BY <1>3, <1>7 DEF ReceiveResponse, ConnectionsTypeOK
  <2>2. tx_id[c] + 1 \in 0 .. MaxTxId
    BY <1>1, <1>7, RunsAssumption
  <2> QED BY <1>1, <1>4, <2>1, <2>2
<1> QED BY <1>5, <1>6, <1>7

LEMMA ReceiveResponseStep ==
  ASSUME ConnectionsInv, NEW c \in Clients, ReceiveResponse(c)
  PROVE  ConnectionsInv'
<1> USE DEF ConnectionsInv
<1>1. PICK pc \in {"request", "farewell"}, id \in 0 .. MaxTxId,
           new \in Seq((0 .. MaxTxId) \X Messages) :
        /\ client_pc' = [client_pc EXCEPT ![c] = pc]
        /\ tx_id' = [tx_id EXCEPT ![c] = id]
        /\ rows' = [rows EXCEPT ![c] = new]
        /\ IF pc = "request" THEN id = tx_id[c] + 1 /\ Len(new) = id
           ELSE id = tx_id[c] /\ Len(new) \in {id, id + 1}
  BY ReceiveEffect
<1>2. /\ client_pc[c] = "receive" /\ down' = [down EXCEPT ![c] = <<>>]
      /\ UNCHANGED <<runVars, up, reset, queue, workerVars, processVars>>
  BY DEF ReceiveResponse
<1>3. slave = "up" => down[c] # <<>>
  BY DEF ReceiveResponse, SlaveInv
<1>4. ConnectionsTypeOK'
  <2>1. msg' \in [Clients -> Messages \cup {NoMessage}]
    <3>1. down[c] # <<>> => Head(down[c]) \in Messages
      BY MessageFacts, OneMessage DEF ConnectionsTypeOK, ClientInv
    <3> QED BY <3>1 DEF ReceiveResponse, ConnectionsTypeOK
  <2>2. \A d \in Clients : Len(up'[d]) + Len(down'[d]) <= 1
    <3>1. up[c] \in Seq(Messages) /\ Len(up[c]) <= 1
      BY DEF ConnectionsTypeOK
    <3> QED BY <1>2, <3>1 DEF ConnectionsTypeOK
  <2>3. /\ client_pc' \in [Clients -> {"connect", "request", "receive",
                                       "farewell", "ended"}]
        /\ tx_id' \in [Clients -> 0 .. MaxTxId]
    BY <1>1 DEF ConnectionsTypeOK
  <2>4. rows' \in [Clients -> Seq((0 .. MaxTxId) \X Messages)]
    BY <1>1 DEF ConnectionsTypeOK
  <2>5. down' \in [Clients -> Seq(Messages)]
    BY <1>2 DEF ConnectionsTypeOK
  <2> QED BY <1>2, <2>1, <2>2, <2>3, <2>4, <2>5, SameAccepted
          DEF ConnectionsTypeOK, runVars, workerVars, processVars
<1>5. RunInv' /\ SlaveInv'
  BY <1>2 DEF RunInv, SlaveInv, runVars, processVars
<1>6. WaitingInv'
  <2>1. \A i \in 1 .. Len(queue) : queue[i] \in Clients
    BY DEF ConnectionsTypeOK
  <2> QED BY <1>1, <1>2, <2>1 DEF WaitingInv, ConnectionsTypeOK, workerVars
<1>7. ClientInv'
  <2>1. /\ client_pc'[c] # "connect" /\ client_pc'[c] # "receive"
        /\ IF client_pc'[c] \in {"farewell", "ended"}
             THEN Len(rows'[c]) \in {tx_id'[c], tx_id'[c] + 1}
             ELSE Len(rows'[c]) = tx_id'[c]
        /\ down'[c] = <<>>
    BY <1>1, <1>2 DEF ConnectionsTypeOK
  <2>2. ASSUME NEW d \in Clients, d # c
        PROVE  /\ UNCHANGED <<client_pc[d], rows[d], tx_id[d], down[d], msg[d]>>
               /\ UNCHANGED <<up[d], worker_pc[d]>>
    BY <1>1, <1>2, <2>2 DEF ReceiveResponse, ConnectionsTypeOK, workerVars
  <2> QED BY <2>1, <2>2 DEF ClientInv
<1>8. TurnInv'
  <2> SUFFICES ASSUME slave = "up", NEW d \in Clients
               PROVE  IF client_pc'[d] = "receive" THEN RequestInv(d)'
                      ELSE AnsweredInv(d)'
    BY <1>2 DEF TurnInv, processVars
  <2>1. IF client_pc[d] = "receive" THEN RequestInv(d) ELSE AnsweredInv(d)
    BY DEF TurnInv
  <2>2. CASE d = c
    <3>1. /\ up[c] = <<>> /\ Len(served[c]) = tx_id[c] + 1
          /\ worker_pc[c] # "wait_flag"
      BY <1>2, <1>3, <2>1, <2>2, OneMessage DEF RequestInv, ClientInv
    <3> QED BY <1>1, <1>2, <2>2, <3>1
            DEF AnsweredInv, ConnectionsTypeOK, workerVars
  <2>3. CASE d # c
    BY <1>1, <1>2, <2>1, <2>3
    DEF RequestInv, AnsweredInv, ConnectionsTypeOK, workerVars
  <2> QED BY <2>2, <2>3
<1>9. TakenOnce'
  BY <1>2 DEF TakenOnce, workerVars
<1> QED BY <1>4, <1>5, <1>6, <1>7, <1>8, <1>9

-----------------------------------------------------------------------------
(* The slave: accepting, the finish request, its end.                      *)
LEMMA AcceptStep ==
  ASSUME ConnectionsInv, Accept
  PROVE  ConnectionsInv'
<1> USE DEF ConnectionsInv
<1> DEFINE c == Head(queue)
<1>1. /\ queue \in Seq(Clients) /\ Len(queue) > 0 /\ queue' = Tail(queue)
      /\ worker_pc' = [worker_pc EXCEPT ![c] = "loop"]
      /\ UNCHANGED <<runVars, clientVars, up, down, reset, recv_msg,
                     complete_flag, served, processVars>>
  BY DEF Accept, ConnectionsTypeOK
<1>2. /\ c = queue[1] /\ c \in Clients /\ Len(queue') = Len(queue) - 1
      /\ queue' \in Seq(Clients)
      /\ \A i \in 1 .. Len(queue') : queue'[i] = queue[i + 1]
      /\ \A i \in 1 .. Len(queue) : queue[i] \in Clients
  BY <1>1
<1>3. client_pc[c] # "connect" /\ worker_pc[c] = "none"
  BY <1>1, <1>2 DEF WaitingInv
<1> HIDE DEF c
<1>4. worker_pc'[c] = "loop" /\ \A d \in Clients \ {c} : UNCHANGED worker_pc[d]
  BY <1>1, <1>2 DEF ConnectionsTypeOK
<1>5. IsFiniteSet(Accepted') /\ Cardinality(Accepted') <= CLIENT_NUM
  <2>1. Accepted' = Accepted \cup {c}
    BY <1>2, <1>4 DEF Accepted
  <2>2. c \notin Accepted
    BY <1>3 DEF Accepted
  <2>3. IsFiniteSet(Accepted) /\ Cardinality(Accepted) < CLIENT_NUM
    BY DEF Accept, ConnectionsTypeOK
  <2>4. Cardinality(Accepted) \in Nat
    BY <2>3, FS_CardinalityType
  <2>5. /\ IsFiniteSet(Accepted \cup {c})
        /\ Cardinality(Accepted \cup {c}) = Cardinality(Accepted) + 1
    BY <2>2, <2>3, FS_AddElement
  <2> QED BY <2>1, <2>3, <2>4, <2>5, ClientNumAssumption
<1>6. ConnectionsTypeOK'
  BY <1>1, <1>2, <1>5
  DEF ConnectionsTypeOK, runVars, clientVars, processVars
<1>7. RunInv' /\ SlaveInv'
  BY <1>1 DEF Accept, RunInv, SlaveInv, runVars, processVars
<1>8. WaitingInv'
  <2>1. \A i \in 1 .. Len(queue') : i + 1 \in 1 .. Len(queue) /\ i + 1 # 1
    BY <1>1, <1>2
  <2>2. \A i \in 1 .. Len(queue') : queue'[i] \in Clients \ {c}
    BY <1>1, <1>2, <2>1 DEF WaitingInv
  <2>3. \A i \in 1 .. Len(queue') :
          client_pc'[queue'[i]] # "connect" /\ worker_pc'[queue'[i]] = "none"
    BY <1>1, <1>2, <1>4, <2>1, <2>2 DEF WaitingInv, clientVars
  <2>4. \A i, j \in 1 .. Len(queue') : queue'[i] = queue'[j] => i = j
    BY <1>1, <1>2, <2>1 DEF WaitingInv
  <2> QED BY <2>3, <2>4 DEF WaitingInv
<1>9. ClientInv'
  BY <1>1, <1>3, <1>4 DEF ClientInv, clientVars
<1>10. TurnInv'
  <2> SUFFICES ASSUME slave = "up", NEW d \in Clients
               PROVE  IF client_pc'[d] = "receive" THEN RequestInv(d)'
                      ELSE AnsweredInv(d)'
    BY <1>1 DEF TurnInv, processVars
  <2>1. IF client_pc[d] = "receive" THEN RequestInv(d) ELSE AnsweredInv(d)
    BY DEF TurnInv
  <2> QED BY <1>1, <1>3, <1>4, <2>1 DEF RequestInv, AnsweredInv, clientVars
<1>11. TakenOnce'
  BY <1>1 DEF TakenOnce
<1> QED BY <1>6, <1>7, <1>8, <1>9, <1>10, <1>11

LEMMA RecvFinishStep ==
  ASSUME ConnectionsInv, RecvFinish
  PROVE  ConnectionsInv'
<1> USE DEF ConnectionsInv
<1>1. /\ slave = "up" /\ finish' = 1 /\ \E r \in 1 .. Runs : finish_sent[r]
      /\ UNCHANGED <<runVars, clientVars, tcpVars, workerVars, slave, master>>
  BY DEF RecvFinish
<1>2. ConnectionsTypeOK'
  BY <1>1, SameAccepted
  DEF ConnectionsTypeOK, runVars, clientVars, tcpVars, workerVars
<1>3. RunInv' /\ SlaveInv'
  BY <1>1 DEF RunInv, SlaveInv, runVars, tcpVars
<1>4. WaitingInv' /\ ClientInv' /\ TurnInv' /\ TakenOnce'
  BY <1>1
  DEF WaitingInv, ClientInv, TurnInv, RequestInv, AnsweredInv, TakenOnce,
      clientVars, tcpVars, workerVars
<1> QED BY <1>2, <1>3, <1>4

LEMMA EndSlaveStep ==
  ASSUME ConnectionsInv, EndSlave
  PROVE  ConnectionsInv'
<1> USE DEF ConnectionsInv
<1>1. /\ finish = 1 /\ slave' = "ended" /\ queue' = <<>>
      /\ up' = [c \in Clients |-> <<>>] /\ reset' \in [Clients -> BOOLEAN]
      /\ UNCHANGED <<runVars, clientVars, down, workerVars, finish, master>>
  BY DEF EndSlave
<1>2. ConnectionsTypeOK'
  <2>1. \A c \in Clients : Len(down[c]) <= 1
    <3> SUFFICES ASSUME NEW c \in Clients
                 PROVE  Len(down[c]) <= 1
      OBVIOUS
    <3>1. up[c] \in Seq(Messages) /\ down[c] \in Seq(Messages)
      BY DEF ConnectionsTypeOK
    <3>2. Len(up[c]) + Len(down[c]) <= 1
      BY DEF ConnectionsTypeOK
    <3>3. Len(up[c]) \in Nat /\ Len(down[c]) \in Nat
      BY <3>1
    <3> QED BY <3>2, <3>3, LastOfTwo
  <2>2. \A c \in Clients : Len(up'[c]) + Len(down'[c]) <= 1
    BY <1>1, <2>1 DEF ConnectionsTypeOK
  <2>3. up' \in [Clients -> Seq(Messages)] /\ queue' \in Seq(Clients)
    BY <1>1
  <2> QED BY <1>1, <2>2, <2>3, SameAccepted
          DEF ConnectionsTypeOK, runVars, clientVars, workerVars
<1>3. RunInv' /\ SlaveInv'
  BY <1>1 DEF RunInv, SlaveInv, runVars
<1>4. WaitingInv' /\ TurnInv' /\ TakenOnce'
  BY <1>1 DEF WaitingInv, TurnInv, TakenOnce, workerVars
<1>5. ClientInv'
  BY <1>1 DEF ClientInv, clientVars, workerVars
<1> QED BY <1>2, <1>3, <1>4, <1>5

LEMMA MasterStep ==
  ASSUME ConnectionsInv, MasterStart \/ MasterFinish
  PROVE  ConnectionsInv'
<1> USE DEF ConnectionsInv
<1>1. /\ UNCHANGED <<runVars, clientVars, tcpVars, workerVars, finish, slave>>
      /\ master' \in {"running", "ended"}
  BY DEF MasterStart, MasterFinish
<1>2. ConnectionsTypeOK'
  BY <1>1, SameAccepted
  DEF ConnectionsTypeOK, runVars, clientVars, tcpVars, workerVars
<1>3. RunInv' /\ SlaveInv'
  BY <1>1 DEF RunInv, SlaveInv, runVars, tcpVars
<1>4. WaitingInv' /\ ClientInv' /\ TurnInv' /\ TakenOnce'
  BY <1>1
  DEF WaitingInv, ClientInv, TurnInv, RequestInv, AnsweredInv, TakenOnce,
      clientVars, tcpVars, workerVars
<1> QED BY <1>2, <1>3, <1>4

-----------------------------------------------------------------------------
(* The workers.  One that has been accepted has a connection that does not  *)
(* wait any more, so that a step of it concerns its own client alone.       *)
LEMMA WorkerKeeps ==
  ASSUME ConnectionsInv, NEW c \in Clients, worker_pc[c] # "none",
         NEW pc \in {"loop", "receive", "wait_flag", "ended"},
         worker_pc' = [worker_pc EXCEPT ![c] = pc], slave = "up",
         UNCHANGED <<runVars, client_pc, reset, queue, processVars>>
  PROVE  /\ worker_pc' \in [Clients -> {"none", "loop", "receive", "wait_flag",
                                        "ended"}]
         /\ Cardinality(Accepted') <= CLIENT_NUM /\ IsFiniteSet(Accepted')
         /\ RunInv' /\ SlaveInv' /\ WaitingInv'
<1> USE DEF ConnectionsInv
<1>1. worker_pc' \in [Clients -> {"none", "loop", "receive", "wait_flag",
                                  "ended"}]
  BY DEF ConnectionsTypeOK
<1>2. Accepted' = Accepted
  BY DEF Accepted, ConnectionsTypeOK
<1>3. RunInv' /\ SlaveInv'
  BY DEF RunInv, SlaveInv, runVars, processVars
<1>4. WaitingInv'
  <2>1. \A i \in 1 .. Len(queue) : queue[i] \in Clients \ {c}
    <3>1. queue \in Seq(Clients)
      BY DEF ConnectionsTypeOK
    <3>2. \A i \in 1 .. Len(queue) : worker_pc[queue[i]] = "none"
      BY DEF WaitingInv
    <3> QED BY <3>1, <3>2
  <2> QED BY <2>1, ZenonT(60) DEF WaitingInv, ConnectionsTypeOK
<1> QED BY <1>1, <1>2, <1>3, <1>4 DEF ConnectionsTypeOK

LEMMA WorkerLoopStep ==
  ASSUME ConnectionsInv, NEW c \in Clients, WorkerLoop(c)
  PROVE  ConnectionsInv'
<1> USE DEF ConnectionsInv
<1>1. PICK pc \in {"receive", "ended"} :
        worker_pc' = [worker_pc EXCEPT ![c] = pc]
  BY DEF WorkerLoop
<1>2. /\ slave = "up" /\ worker_pc[c] = "loop"
      /\ UNCHANGED <<runVars, clientVars, tcpVars, recv_msg, complete_flag,
                     served, processVars>>
  BY DEF WorkerLoop
<1>3. /\ worker_pc' \in [Clients -> {"none", "loop", "receive", "wait_flag",
                                     "ended"}]
      /\ Cardinality(Accepted') <= CLIENT_NUM /\ IsFiniteSet(Accepted')
      /\ RunInv' /\ SlaveInv' /\ WaitingInv'
  BY <1>1, <1>2, WorkerKeeps DEF clientVars, tcpVars
<1>4. /\ worker_pc'[c] = pc
      /\ \A d \in Clients \ {c} : UNCHANGED worker_pc[d]
  BY <1>1 DEF ConnectionsTypeOK
<1>5. ConnectionsTypeOK'
  BY <1>2, <1>3 DEF ConnectionsTypeOK, runVars, clientVars, tcpVars, processVars
<1>6. ClientInv'
  BY <1>2, <1>4 DEF ClientInv, clientVars, tcpVars
<1>7. TurnInv'
  <2> SUFFICES ASSUME NEW d \in Clients
               PROVE  IF client_pc'[d] = "receive" THEN RequestInv(d)'
                      ELSE AnsweredInv(d)'
    BY <1>2 DEF TurnInv, processVars
  <2>1. IF client_pc[d] = "receive" THEN RequestInv(d) ELSE AnsweredInv(d)
    BY <1>2 DEF TurnInv
  <2> QED BY <1>2, <1>4, <2>1
          DEF RequestInv, AnsweredInv, clientVars, tcpVars
<1>8. TakenOnce'
  BY <1>2 DEF TakenOnce
<1> QED BY <1>3, <1>5, <1>6, <1>7, <1>8

LEMMA CompleteStep ==
  ASSUME ConnectionsInv, NEW c \in Clients, Complete(c)
  PROVE  ConnectionsInv'
<1> USE DEF ConnectionsInv
<1>1. /\ complete_flag' = [complete_flag EXCEPT ![c] = 1]
      /\ UNCHANGED <<runVars, clientVars, tcpVars, worker_pc, recv_msg, served,
                     processVars>>
  BY DEF Complete
<1>2. ConnectionsTypeOK'
  BY <1>1, SameAccepted
  DEF ConnectionsTypeOK, runVars, clientVars, tcpVars, processVars
<1>3. RunInv' /\ SlaveInv'
  BY <1>1 DEF RunInv, SlaveInv, runVars, tcpVars, processVars
<1>4. WaitingInv' /\ ClientInv' /\ TurnInv' /\ TakenOnce'
  BY <1>1
  DEF WaitingInv, ClientInv, TurnInv, RequestInv, AnsweredInv, TakenOnce,
      clientVars, tcpVars, processVars
<1> QED BY <1>2, <1>3, <1>4

(* What a worker receives is the request of its client, or the request to  *)
(* finish of a client that has had its answers; it never comes to recv     *)
(* when there is nothing to come.                                          *)
LEMMA ReceivedMessage ==
  ASSUME ConnectionsInv, NEW c \in Clients, WorkerReceive(c)
  PROVE  \/ /\ client_pc[c] = "receive" /\ up[c] = <<Request(tx_id[c])>>
            /\ Len(served[c]) = tx_id[c]
         \/ client_pc[c] = "ended" /\ up[c] = <<FinishRequest>>
<1> USE DEF ConnectionsInv
<1>1. /\ slave = "up" /\ worker_pc[c] = "receive"
      /\ (up[c] # <<>> \/ Gone(c))
  BY DEF WorkerReceive
<1>2. c.run \in 1 .. Runs
  BY ClientFacts
<1>3. up[c] = <<>> => client_pc[c] = "ended"
  BY <1>1, <1>2 DEF Gone, RunInv
<1>4. IF client_pc[c] = "receive" THEN RequestInv(c) ELSE AnsweredInv(c)
  BY <1>1 DEF TurnInv
<1>5. up[c] # <<>>
  <2>1. ASSUME up[c] = <<>>
        PROVE  AnsweredInv(c) /\ client_pc[c] = "ended"
    BY <2>1, <1>3, <1>4
  <2>2. <<FinishRequest>> # <<>>
    OBVIOUS
  <2> QED BY <1>1, <2>1, <2>2 DEF AnsweredInv
<1> QED BY <1>4, <1>5 DEF RequestInv, AnsweredInv

LEMMA WorkerReceiveStep ==
  ASSUME ConnectionsInv, NEW c \in Clients, WorkerReceive(c)
  PROVE  ConnectionsInv'
<1> USE DEF ConnectionsInv
<1>1. /\ slave = "up" /\ worker_pc[c] = "receive"
      /\ up' = [up EXCEPT ![c] = <<>>]
      /\ UNCHANGED <<runVars, clientVars, down, reset, queue, processVars>>
  BY DEF WorkerReceive
<1>2. tx_id[c] \in 0 .. MaxTxId /\ served[c] \in Seq(0 .. MaxTxId)
  BY DEF ConnectionsTypeOK
<1>3. PICK pc \in {"wait_flag", "ended"}, x \in Messages,
           new \in Seq(0 .. MaxTxId), flag \in {0, 1} :
        /\ worker_pc' = [worker_pc EXCEPT ![c] = pc]
        /\ recv_msg' = [recv_msg EXCEPT ![c] = x]
        /\ served' = [served EXCEPT ![c] = new]
        /\ complete_flag' = [complete_flag EXCEPT ![c] = flag]
        /\ \/ /\ client_pc[c] = "receive" /\ up[c] = <<Request(tx_id[c])>>
              /\ Len(served[c]) = tx_id[c] /\ x = Request(tx_id[c])
              /\ pc = "wait_flag" /\ new = Append(served[c], tx_id[c])
           \/ /\ client_pc[c] = "ended" /\ up[c] = <<FinishRequest>>
              /\ pc = "ended" /\ new = served[c]
  <2>1. CASE /\ client_pc[c] = "receive" /\ up[c] = <<Request(tx_id[c])>>
             /\ Len(served[c]) = tx_id[c]
    <3> DEFINE x == Request(tx_id[c])
    <3>1. up[c] # <<>> /\ Head(up[c]) = x
      BY <2>1, OneMessage
    <3>2. x \in Messages /\ x.type = "REQUEST_TX" /\ x.id = tx_id[c]
      BY <1>2, MessageFacts
    <3> HIDE DEF x
    <3>3. recv_msg' = [recv_msg EXCEPT ![c] = x] /\ recv_msg'[c] = x
      BY <3>1 DEF WorkerReceive, ConnectionsTypeOK
    <3>4. /\ worker_pc' = [worker_pc EXCEPT ![c] = "wait_flag"]
          /\ complete_flag' = [complete_flag EXCEPT ![c] = 0]
          /\ served' = [served EXCEPT ![c] = Append(served[c], tx_id[c])]
      BY <3>2, <3>3 DEF WorkerReceive
    <3>5. Append(served[c], tx_id[c]) \in Seq(0 .. MaxTxId)
      BY <1>2
    <3> QED BY <2>1, <3>2, <3>3, <3>4, <3>5 DEF x
  <2>2. CASE client_pc[c] = "ended" /\ up[c] = <<FinishRequest>>
    <3>1. up[c] # <<>> /\ Head(up[c]) = FinishRequest
      BY <2>2, OneMessage
    <3>2. FinishRequest \in Messages /\ FinishRequest.type = "FINISH_REQUEST"
      BY MessageFacts
    <3>3. /\ recv_msg' = [recv_msg EXCEPT ![c] = FinishRequest]
          /\ recv_msg'[c] = FinishRequest
      BY <3>1 DEF WorkerReceive, ConnectionsTypeOK
    <3>4. /\ worker_pc' = [worker_pc EXCEPT ![c] = "ended"]
          /\ UNCHANGED <<served, complete_flag>>
      BY <3>2, <3>3 DEF WorkerReceive
    <3>5. /\ served' = [served EXCEPT ![c] = served[c]]
          /\ complete_flag' = [complete_flag EXCEPT ![c] = complete_flag[c]]
          /\ complete_flag[c] \in {0, 1}
      BY <3>4 DEF ConnectionsTypeOK
    <3> QED BY <1>2, <2>2, <3>2, <3>3, <3>4, <3>5
  <2> QED BY <2>1, <2>2, ReceivedMessage
<1>4. /\ worker_pc' \in [Clients -> {"none", "loop", "receive", "wait_flag",
                                     "ended"}]
      /\ Cardinality(Accepted') <= CLIENT_NUM /\ IsFiniteSet(Accepted')
      /\ RunInv' /\ SlaveInv' /\ WaitingInv'
  BY <1>1, <1>3, WorkerKeeps DEF clientVars
<1>5. /\ up'[c] = <<>> /\ worker_pc'[c] = pc /\ recv_msg'[c] = x
      /\ served'[c] = new
      /\ \A d \in Clients \ {c} :
           UNCHANGED <<up[d], worker_pc[d], recv_msg[d], served[d]>>
  BY <1>1, <1>3 DEF ConnectionsTypeOK
<1>6. ConnectionsTypeOK'
  <2>1. /\ recv_msg' \in [Clients -> Messages \cup {NoMessage}]
        /\ complete_flag' \in [Clients -> {0, 1}]
        /\ served' \in [Clients -> Seq(0 .. MaxTxId)]
    BY <1>3 DEF ConnectionsTypeOK
  <2>2. \A d \in Clients : Len(up'[d]) + Len(down'[d]) <= 1
    <3>1. /\ up[c] \in Seq(Messages) /\ down[c] \in Seq(Messages)
          /\ Len(up[c]) + Len(down[c]) <= 1
      BY DEF ConnectionsTypeOK
    <3> QED BY <1>1, <1>5, <3>1 DEF ConnectionsTypeOK
  <2>3. up' \in [Clients -> Seq(Messages)]
    BY <1>1 DEF ConnectionsTypeOK
  <2> QED BY <1>1, <1>4, <2>1, <2>2, <2>3
          DEF ConnectionsTypeOK, runVars, clientVars, processVars
<1>7. ClientInv'
  <2>1. down[c] = <<>>
    BY <1>3, OneMessage DEF ClientInv
  <2>2. client_pc[c] # "connect"
    BY <1>3
  <2> QED BY <1>1, <1>5, <2>1, <2>2 DEF ClientInv, clientVars
<1>8. TurnInv'
  <2> SUFFICES ASSUME NEW d \in Clients
               PROVE  IF client_pc'[d] = "receive" THEN RequestInv(d)'
                      ELSE AnsweredInv(d)'
    BY <1>1 DEF TurnInv, processVars
  <2>1. IF client_pc[d] = "receive" THEN RequestInv(d) ELSE AnsweredInv(d)
    BY <1>1 DEF TurnInv
  <2>2. CASE d = c /\ client_pc[c] = "receive"
    <3>1. Len(served'[c]) = tx_id[c] + 1
      BY <1>2, <1>3, <1>5, <2>2
    <3> QED BY <1>1, <1>3, <1>5, <2>2, <3>1 DEF RequestInv, clientVars
  <2>3. CASE d = c /\ client_pc[c] = "ended"
    BY <1>1, <1>3, <1>5, <2>1, <2>3 DEF AnsweredInv, clientVars
  <2>4. CASE d # c
    BY <1>1, <1>5, <2>1, <2>4 DEF RequestInv, AnsweredInv, clientVars
  <2> QED BY <1>3, <2>2, <2>3, <2>4
<1>9. TakenOnce'
  <2>1. CASE new = Append(served[c], tx_id[c]) /\ Len(served[c]) = tx_id[c]
    <3>1. served[c] = [i \in 1 .. Len(served[c]) |-> i - 1]
      BY DEF TakenOnce
    <3>2. new = [i \in 1 .. Len(new) |-> i - 1]
      BY <1>2, <2>1, <3>1
    <3> QED BY <1>5, <3>2 DEF TakenOnce
  <2>2. CASE new = served[c]
    BY <1>5, <2>2, ZenonT(60) DEF TakenOnce
  <2> QED BY <1>3, <2>1, <2>2
<1> QED BY <1>4, <1>6, <1>7, <1>8, <1>9

LEMMA WorkerAnswerStep ==
  ASSUME ConnectionsInv, NEW c \in Clients, WorkerAnswer(c)
  PROVE  ConnectionsInv'
<1> USE DEF ConnectionsInv
<1>1. /\ slave = "up" /\ worker_pc[c] = "wait_flag"
      /\ UNCHANGED <<runVars, clientVars, up, reset, queue, recv_msg,
                     complete_flag, served, processVars>>
  BY DEF WorkerAnswer
<1>2. /\ client_pc[c] = "receive" /\ up[c] = <<>>
      /\ Len(served[c]) = tx_id[c] + 1 /\ recv_msg[c] = Request(tx_id[c])
  BY <1>1, OneMessage DEF TurnInv, RequestInv, AnsweredInv
<1>3. down[c] = <<>>
  BY <1>1 DEF ClientInv
<1>4. tx_id[c] \in 0 .. MaxTxId /\ Response(tx_id[c]) \in Messages
  BY MessageFacts DEF ConnectionsTypeOK
<1>5. recv_msg[c].id = tx_id[c]
  BY <1>2, <1>4, MessageFacts
<1>6. ~Gone(c)
  BY <1>1, <1>2, ClientFacts DEF Gone, RunInv
<1>7. PICK pc \in {"loop", "ended"}, new \in {<<>>, <<Response(tx_id[c])>>} :
        /\ worker_pc' = [worker_pc EXCEPT ![c] = pc]
        /\ down' = [down EXCEPT ![c] = new]
        /\ pc = "loop" => new # <<>>
  <2>1. CASE finish = 1
    <3>1. /\ worker_pc' = [worker_pc EXCEPT ![c] = "ended"]
          /\ down' = [down EXCEPT ![c] = <<>>]
      BY <1>3, <2>1 DEF WorkerAnswer, ConnectionsTypeOK
    <3> QED BY <3>1
  <2>2. CASE finish # 1
    <3>1. /\ worker_pc' = [worker_pc EXCEPT ![c] = "loop"]
          /\ down' = [down EXCEPT
                        ![c] = IF Gone(c) THEN @
                               ELSE Append(@, Response(recv_msg[c].id))]
      BY <2>2 DEF WorkerAnswer
    <3>2. down' = [down EXCEPT ![c] = <<Response(tx_id[c])>>]
      BY <1>3, <1>5, <1>6, <3>1, OneMessage
    <3> QED BY <3>1, <3>2, OneMessage
  <2> QED BY <2>1, <2>2
<1>8. /\ worker_pc' \in [Clients -> {"none", "loop", "receive", "wait_flag",
                                     "ended"}]
      /\ Cardinality(Accepted') <= CLIENT_NUM /\ IsFiniteSet(Accepted')
      /\ RunInv' /\ SlaveInv' /\ WaitingInv'
  BY <1>1, <1>7, WorkerKeeps DEF clientVars
<1>9. /\ worker_pc'[c] = pc /\ down'[c] = new
      /\ \A d \in Clients \ {c} : UNCHANGED <<worker_pc[d], down[d]>>
  BY <1>7 DEF ConnectionsTypeOK
<1>10. new \in Seq(Messages) /\ Len(new) <= 1 /\ Len(<<>>) = 0
  <2>1. CASE new = <<>>
    BY <2>1
  <2>2. CASE new = <<Response(tx_id[c])>>
    <3>1. /\ <<Response(tx_id[c])>> \in Seq(Messages)
          /\ Len(<<Response(tx_id[c])>>) = 1 /\ Len(<<>>) = 0
      BY <1>4, OneMessage
    <3> QED BY <2>2, <3>1
  <2> QED BY <1>7, <2>1, <2>2
<1>11. ConnectionsTypeOK'
  <2>1. down' \in [Clients -> Seq(Messages)]
    BY <1>7, <1>10 DEF ConnectionsTypeOK
  <2>2. \A d \in Clients : Len(up'[d]) + Len(down'[d]) <= 1
    <3> SUFFICES ASSUME NEW d \in Clients
                 PROVE  Len(up[d]) + Len(down'[d]) <= 1
      BY <1>1
    <3>1. CASE d = c
      <4>1. Len(up[d]) = 0 /\ Len(down'[d]) <= 1 /\ Len(down'[d]) \in Nat
        BY <1>2, <1>9, <1>10, <3>1
      <4> QED BY <4>1
    <3>2. CASE d # c
      BY <1>9, <3>2 DEF ConnectionsTypeOK
    <3> QED BY <3>1, <3>2
  <2> QED BY <1>1, <1>8, <2>1, <2>2
          DEF ConnectionsTypeOK, runVars, clientVars, processVars
<1>12. ClientInv'
  BY <1>1, <1>2, <1>7, <1>9 DEF ClientInv, clientVars
<1>13. TurnInv'
  <2> SUFFICES ASSUME NEW d \in Clients
               PROVE  IF client_pc'[d] = "receive" THEN RequestInv(d)'
                      ELSE AnsweredInv(d)'
    BY <1>1 DEF TurnInv, processVars
  <2>1. IF client_pc[d] = "receive" THEN RequestInv(d) ELSE AnsweredInv(d)
    BY <1>1 DEF TurnInv
  <2>2. CASE d = c
    BY <1>1, <1>2, <1>7, <1>9, <2>2 DEF RequestInv, clientVars
  <2>3. CASE d # c
    BY <1>1, <1>9, <2>1, <2>3 DEF RequestInv, AnsweredInv, clientVars
  <2> QED BY <2>2, <2>3
<1>14. TakenOnce'
  BY <1>1 DEF TakenOnce
<1> QED BY <1>8, <1>11, <1>12, <1>13, <1>14

-----------------------------------------------------------------------------
(* A connection has one message on its way at most, the client and its     *)
(* worker agree on whose turn it is, and each request is served once:       *)
(* however many clients there are, and however often the programs are run  *)
(* (client_interface.c:135-169, client_time.c:176-213).                    *)
THEOREM ConnectionsInvariance == ConnectionsSpec => []ConnectionsInv
<1>1. ConnectionsInit => ConnectionsInv
  <2> SUFFICES ASSUME ConnectionsInit
               PROVE  ConnectionsInv
    OBVIOUS
  <2>1. Accepted = {}
    BY DEF ConnectionsInit, Accepted
  <2>2. IsFiniteSet(Accepted) /\ Cardinality(Accepted) <= CLIENT_NUM
    BY <2>1, FS_EmptySet, ClientNumAssumption
  <2>3. /\ <<>> \in Seq((0 .. MaxTxId) \X Messages) /\ <<>> \in Seq(Messages)
        /\ <<>> \in Seq(Clients) /\ <<>> \in Seq(0 .. MaxTxId)
        /\ Len(<<>>) = 0 /\ 0 \in 0 .. MaxTxId
    BY RunsAssumption
  <2>4. ConnectionsTypeOK
    BY <2>2, <2>3 DEF ConnectionsInit, ConnectionsTypeOK
  <2>5. RunInv /\ SlaveInv /\ WaitingInv /\ TurnInv
    BY <2>3 DEF ConnectionsInit, RunInv, SlaveInv, WaitingInv, TurnInv,
                AnsweredInv
  <2>6. ClientInv
    BY <2>3 DEF ConnectionsInit, ClientInv
  <2>7. TakenOnce
    BY DEF ConnectionsInit, TakenOnce
  <2> QED BY <2>4, <2>5, <2>6, <2>7 DEF ConnectionsInv
<1>2. ConnectionsInv /\ [ConnectionsNext]_connectionVars => ConnectionsInv'
  <2> SUFFICES ASSUME ConnectionsInv, [ConnectionsNext]_connectionVars
               PROVE  ConnectionsInv'
    OBVIOUS
  <2>1. CASE ConnectionsNext
    BY <2>1, ProgramStep, ConnectStep, SendRequestStep, ReceiveResponseStep,
       FarewellStep, WorkerLoopStep, WorkerReceiveStep, WorkerAnswerStep,
       CompleteStep, AcceptStep, RecvFinishStep, EndSlaveStep, MasterStep
    DEF ConnectionsNext, Client, Worker
  <2>2. CASE UNCHANGED connectionVars
    <3>1. UNCHANGED <<runVars, clientVars, tcpVars, workerVars, processVars>>
      BY <2>2 DEF connectionVars
    <3>2. ConnectionsTypeOK'
      BY <3>1, SameAccepted
      DEF ConnectionsInv, ConnectionsTypeOK, runVars, clientVars, tcpVars,
          workerVars, processVars
    <3>3. RunInv' /\ SlaveInv' /\ WaitingInv' /\ ClientInv' /\ TurnInv'
          /\ TakenOnce'
      BY <3>1
      DEF ConnectionsInv, RunInv, SlaveInv, WaitingInv, ClientInv, TurnInv,
          RequestInv, AnsweredInv, TakenOnce, runVars, clientVars, tcpVars,
          workerVars, processVars
    <3> QED BY <3>2, <3>3 DEF ConnectionsInv
  <2> QED BY <2>1, <2>2
<1> QED BY <1>1, <1>2, PTL DEF ConnectionsSpec

(* Whoever gets nothing because the slave has ended has no time left and   *)
(* writes no row, or the slave was asked to finish in an earlier run.       *)
LEMMA NoAnswerNoRow ==
  ASSUME ConnectionsInv, NEW c \in Clients, ReceiveResponse(c),
         down[c] = <<>>, ~time_up[c.run]
  PROVE  \E p \in 1 .. c.run - 1 : finish_sent[p]
<1> USE DEF ConnectionsInv
<1>1. c.run \in 1 .. Runs /\ run_state[c.run] = "running"
  BY ClientFacts DEF ReceiveResponse, Running
<1>2. PICK p \in 1 .. Runs : finish_sent[p]
  BY DEF ReceiveResponse, SlaveInv, ConnectionsTypeOK
<1>3. time_up[p] /\ run_state[p] # "waits"
  BY <1>2 DEF RunInv
<1>4. p # c.run
  BY <1>3
<1>5. ~(c.run < p)
  <2> SUFFICES ASSUME c.run < p
               PROVE  FALSE
    OBVIOUS
  <2>1. c.run \in 1 .. p - 1
    BY <1>1
  <2> QED BY <1>1, <1>3, <2>1 DEF RunInv
<1> QED BY <1>1, <1>2, <1>4, <1>5

(* The rows of the result file are about responses, in every run before    *)
(* which the slave has not been asked to finish (client_time.c:184-202).   *)
THEOREM RowsAreRight == ConnectionsSpec => []RowsAreAnswers
<1>1. ConnectionsInit => RowsAreAnswers
  BY DEF ConnectionsInit, RowsAreAnswers
<1>2. /\ ConnectionsInv /\ RowsAreAnswers
      /\ [ConnectionsNext]_connectionVars
      => RowsAreAnswers'
  <2> SUFFICES ASSUME ConnectionsInv, RowsAreAnswers,
                      [ConnectionsNext]_connectionVars, NEW d \in Clients
               PROVE  \/ \E p \in 1 .. d.run - 1 : finish_sent'[p]
                      \/ \A i \in 1 .. Len(rows'[d]) :
                           rows'[d][i] = <<i - 1, Response(i - 1)>>
    BY DEF RowsAreAnswers
  <2>1. ASSUME NEW p \in 1 .. Runs, finish_sent[p]
        PROVE  finish_sent'[p]
    <3>1. CASE ConnectionsNext
      <4>1. \/ UNCHANGED finish_sent
            \/ \E r \in 1 .. Runs :
                 finish_sent' = [finish_sent EXCEPT ![r] = TRUE]
        BY <3>1
        DEF ConnectionsNext, Program, Client, Worker, StartProgram, TimeUp,
            JoinThreads, Connect, SendRequest, ReceiveResponse, Farewell,
            WorkerLoop, WorkerReceive, WorkerAnswer, Complete, Accept,
            RecvFinish, EndSlave, MasterStart, MasterFinish, runVars
      <4> QED BY <2>1, <4>1 DEF ConnectionsInv, ConnectionsTypeOK
    <3>2. CASE UNCHANGED connectionVars
      BY <2>1, <3>2 DEF connectionVars, runVars
    <3> QED BY <3>1, <3>2
  <2>2. d.run \in 1 .. Runs
    BY ClientFacts
  <2>3. CASE \E p \in 1 .. d.run - 1 : finish_sent[p]
    <3>1. PICK p \in 1 .. d.run - 1 : finish_sent[p]
      BY <2>3
    <3>2. p \in 1 .. Runs
      BY <2>2, <3>1, RunsAssumption
    <3> QED BY <2>1, <3>1, <3>2
  <2>4. CASE \A i \in 1 .. Len(rows[d]) :
               rows[d][i] = <<i - 1, Response(i - 1)>>
    <3>1. CASE UNCHANGED rows[d]
      BY <2>4, <3>1
    <3>2. CASE ReceiveResponse(d) /\ time_up[d.run]
      <4>1. UNCHANGED rows
        BY <3>2 DEF ReceiveResponse
      <4> QED BY <2>4, <4>1
    <3>3. CASE ReceiveResponse(d) /\ down[d] = <<>> /\ ~time_up[d.run]
      <4>1. PICK p \in 1 .. d.run - 1 : finish_sent[p]
        BY <3>3, NoAnswerNoRow
      <4>2. p \in 1 .. Runs
        BY <2>2, <4>1, RunsAssumption
      <4> QED BY <2>1, <4>1, <4>2
    <3>4. CASE ReceiveResponse(d) /\ down[d] # <<>> /\ ~time_up[d.run]
      <4>1. /\ Head(down[d]) = Response(tx_id[d]) /\ Len(rows[d]) = tx_id[d]
            /\ rows[d] \in Seq((0 .. MaxTxId) \X Messages)
            /\ tx_id[d] \in 0 .. MaxTxId
        <5>1. /\ down[d] = <<Response(tx_id[d])>> /\ Len(rows[d]) = tx_id[d]
          BY <3>4 DEF ReceiveResponse, ConnectionsInv, ClientInv
        <5>2. /\ rows[d] \in Seq((0 .. MaxTxId) \X Messages)
              /\ tx_id[d] \in 0 .. MaxTxId
          BY DEF ConnectionsInv, ConnectionsTypeOK
        <5> QED BY <5>1, <5>2, OneMessage
      <4>2. msg'[d] = Response(tx_id[d])
        BY <3>4, <4>1 DEF ReceiveResponse, ConnectionsInv, ConnectionsTypeOK
      <4>3. rows'[d] = Append(rows[d], <<tx_id[d], Response(tx_id[d])>>)
        BY <3>4, <4>2 DEF ReceiveResponse, ConnectionsInv, ConnectionsTypeOK
      <4> DEFINE row == <<tx_id[d], Response(tx_id[d])>>
      <4> HIDE DEF row
      <4>4. /\ Len(rows'[d]) = tx_id[d] + 1 /\ rows'[d][tx_id[d] + 1] = row
            /\ \A i \in 1 .. tx_id[d] : rows'[d][i] = rows[d][i]
        BY <4>1, <4>3 DEF row
      <4>5. ASSUME NEW i \in 1 .. tx_id[d] + 1
            PROVE  rows'[d][i] = <<i - 1, Response(i - 1)>>
        <5>1. CASE i \in 1 .. tx_id[d]
          BY <2>4, <4>1, <4>4, <5>1
        <5>2. CASE i = tx_id[d] + 1
          <6>1. i - 1 = tx_id[d]
            BY <4>1, <5>2
          <6> QED BY <4>4, <5>2, <6>1 DEF row
        <5> QED BY <4>1, <5>1, <5>2
      <4> QED BY <4>4, <4>5
    <3>5. UNCHANGED rows[d] \/ ReceiveResponse(d)
      <4>1. CASE ConnectionsNext
        <5>1. UNCHANGED rows \/ \E c \in Clients : ReceiveResponse(c)
          BY <4>1
          DEF ConnectionsNext, Program, Client, Worker, StartProgram, TimeUp,
              JoinThreads, Connect, SendRequest, Farewell, WorkerLoop,
              WorkerReceive, WorkerAnswer, Complete, Accept, RecvFinish,
              EndSlave, MasterStart, MasterFinish, clientVars
        <5>2. ASSUME NEW c \in Clients, ReceiveResponse(c), c # d
              PROVE  UNCHANGED rows[d]
          <6>1. PICK new \in Seq((0 .. MaxTxId) \X Messages) :
                  rows' = [rows EXCEPT ![c] = new]
            BY <5>2, ReceiveEffect
          <6> QED BY <5>2, <6>1 DEF ConnectionsInv, ConnectionsTypeOK
        <5> QED BY <5>1, <5>2
      <4>2. CASE UNCHANGED connectionVars
        BY <4>2 DEF connectionVars, clientVars
      <4> QED BY <4>1, <4>2
    <3> QED BY <3>1, <3>2, <3>3, <3>4, <3>5
  <2> QED BY <2>3, <2>4 DEF RowsAreAnswers
<1> QED BY <1>1, <1>2, ConnectionsInvariance, PTL DEF ConnectionsSpec
=============================================================================
