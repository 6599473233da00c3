-------------------------------- MODULE Ports --------------------------------
(***************************************************************************)
(* The ports of the system (utils/configuration.h:65-119 and .c:111-260),  *)
(* and the sockets that the threads bind to them.  The results of          *)
(* udp_sv_socket_init and tcp_sv_socket_init are ignored everywhere: a     *)
(* thread whose bind failed goes on with a socket without its port, and    *)
(* what is sent to the port reaches the thread that has it.  A process may *)
(* end and be started again.  The sockets have no SO_REUSEADDR             *)
(* (tcp_server.c:94-124): connections that the ended process was the first *)
(* to close (it does when it ends with clients still connected) keep the   *)
(* port of its client interface for some time (FIN_WAIT, TIME_WAIT).       *)
(*                                                                         *)
(* Replica 0 is the master.  Every address that get_sequencer_ipaddr,      *)
(* get_client_interface_ipaddr and get_within_region_slave_ipaddr give for *)
(* a replica is one of its host, and sockets are bound to all addresses of *)
(* the host.  With OneHost the three functions return MY_IPADDR, as in     *)
(* their lines for experiments on one PC.                                  *)
(***************************************************************************)
EXTENDS Configuration

CONSTANTS REPLICA_NUM, OneHost

(* The functions know the ports of six slaves, and the ports of the        *)
(* clients of a slave are 100 apart from those of the next.                *)
ASSUME PortsAssumption ==
  REPLICA_NUM \in 1 .. 7 /\ CLIENT_NUM <= 100 /\ OneHost \in BOOLEAN

VARIABLES
  bound,      \* the sockets that have their port
  failed,     \* the sockets whose bind failed
  lingering,  \* the sockets whose port is held by their old connections
  restarted   \* history: the replicas whose process has ended before

portsVars == <<bound, failed, lingering, restarted>>

-----------------------------------------------------------------------------
SlaveIds == 1 .. REPLICA_NUM - 1

(* A socket is named for its use, the replica whose process it belongs to, *)
(* and the slave and the client that it is for.                            *)
AddSocket(r, c)    == [use |-> "add",       of |-> 0, slave |-> r, client |-> c]
AckSocket(r)       == [use |-> "ack",       of |-> 0, slave |-> r, client |-> 0]
SequencerSocket(r) == [use |-> "sequencer", of |-> r, slave |-> r, client |-> 0]
InterfaceSocket(r) == [use |-> "interface", of |-> r, slave |-> r, client |-> 0]
FinishSocket(r)    == [use |-> "finish",    of |-> r, slave |-> r, client |-> 0]

Sockets ==
  {AddSocket(r, c) : r \in SlaveIds, c \in 0 .. CLIENT_NUM - 1}
    \cup {AckSocket(r) : r \in SlaveIds}
    \cup {SequencerSocket(r) : r \in SlaveIds}
    \cup {InterfaceSocket(r) : r \in SlaveIds}
    \cup {FinishSocket(r) : r \in 0 .. REPLICA_NUM - 1}

Host(r) == IF OneHost THEN 0 ELSE r

(* get_port_master_sequencer_from_client_interface                         *)
AddPort(r, c) == 5000 + 100 * r + c

(* Mutant: the ACKs of all slaves come to one port. *)
AckPortShared(r) == 6666

(* get_port_master_sequencer_from_slave_sequencer                          *)
AckPort(r) == 6660 + r

(* get_port_slave_sequencer                                                *)
SequencerPort(r) == 7770 + r

(* get_port_slave_client_interface_from_client                             *)
InterfacePort(r) == 8880 + r

(* get_port_finish_from_client                                             *)
FinishPort(r) == 9000 + r

(* The address that the owner of a socket binds it to, and the senders     *)
(* send to when they mean the owner: both ask the same function.           *)
Protocol(s) == IF s.use = "interface" THEN "tcp" ELSE "udp"

Port(s) ==
  IF s.use = "add" THEN AddPort(s.slave, s.client)
  ELSE IF s.use = "ack" THEN AckPort(s.slave)
  ELSE IF s.use = "sequencer" THEN SequencerPort(s.slave)
  ELSE IF s.use = "interface" THEN InterfacePort(s.slave)
  ELSE FinishPort(s.slave)

SameAddress(s, t) ==
  Protocol(s) = Protocol(t) /\ Host(s.of) = Host(t.of) /\ Port(s) = Port(t)

-----------------------------------------------------------------------------
PortsInit == bound = {} /\ failed = {} /\ lingering = {} /\ restarted = {}

(* A slave opens the port for its finish request when it has accepted the  *)
(* connections of its clients; without its port the client interface       *)
(* accepts none, and ends the process (client_interface.c:67-92).          *)
MayBind(s) ==
  s.use = "finish" /\ s.of # 0 => InterfaceSocket(s.of) \in bound

(* Otherwise the threads come to their bind in any order.                  *)
Bind(s) ==
  /\ s \notin bound \cup failed
  /\ MayBind(s)
  /\ IF \E t \in bound \cup lingering : SameAddress(s, t)
       THEN failed' = failed \cup {s} /\ UNCHANGED bound
       ELSE bound' = bound \cup {s} /\ UNCHANGED failed
  /\ UNCHANGED <<lingering, restarted>>

(* The process has ended, and may be started once more.  Its ports are     *)
(* free again, except that of a client interface which had connections.    *)
EndProcess(r) ==
  /\ bound' = {s \in bound : s.of # r}
  /\ failed' = {s \in failed : s.of # r}
  /\ \/ UNCHANGED lingering
     \/ lingering' = lingering \cup
                       {s \in bound : s.of = r /\ Protocol(s) = "tcp"}
  /\ restarted' = restarted \cup {r}

(* The time of the old connections is over.                                *)
TimeWaitOver(s) ==
  /\ s \in lingering
  /\ lingering' = lingering \ {s}
  /\ UNCHANGED <<bound, failed, restarted>>

PortsNext ==
  \/ \E s \in Sockets : Bind(s)
  \/ \E r \in 0 .. REPLICA_NUM - 1 : EndProcess(r)
  \/ \E s \in lingering : TimeWaitOver(s)

PortsSpec == PortsInit /\ [][PortsNext]_portsVars

-----------------------------------------------------------------------------
(* The program never looks at the result of a bind (master_sequencer.c:283, *)
(* 401, slave_sequencer.c:58, client_interface.c:52, 92, master.c:69).  No  *)
(* bind of a process that is started for the first time fails, whichever    *)
(* processes run on a host, or were restarted, and in whichever order their *)
(* threads start; of one started again only that of the client interface,   *)
(* to its own port, while its old connections hold it.                      *)
OnlyRestartedInterfacesFail ==
  failed \cup lingering \subseteq {InterfaceSocket(r) : r \in restarted}

(* What is sent to the socket of a thread reaches this thread or nobody:   *)
(* an ADD_TO_BATCH the thread of its client, who compares ids per client   *)
(* (master_sequencer.c:337), an ACK_BATCH the sender thread of its slave,  *)
(* a batch the slave it was sent to, a finish request its process.         *)
NobodyElseReceives ==
  \A s \in Sockets : \A t \in bound : SameAddress(s, t) => s = t
=============================================================================
