----------------------------- MODULE LinkedQueue -----------------------------
(***************************************************************************)
(* The buffers between threads, batch_list.c and transaction_list.c, which *)
(* are the same code for two types: a linked list with a tail pointer and  *)
(* a mutex.  Threads add nodes (the epoch thread or the sequencer of a     *)
(* slave to write_tx_buffer, the client threads to read_tx_buffer), a      *)
(* scheduler polls for the first one, and main frees the list when it has  *)
(* joined them all.                                                        *)
(*                                                                         *)
(* A step is at most one write to memory that other threads see.  Nodes    *)
(* are addresses: malloc may return any that is not allocated, also one    *)
(* freed a moment ago, and free leaves the contents in place.              *)
(***************************************************************************)
EXTENDS Naturals, Sequences, FiniteSets

CONSTANTS
  Producers,  \* threads that call add_node
  Consumers,  \* threads that call try_delete_node
  Nodes,      \* addresses malloc may return
  NULL,
  MaxItems    \* bound: items that each producer adds

(* Each list has a scheduler that takes from it. *)
ThreadsAssumption == Producers \cap Consumers = {} /\ Consumers # {}
NullAssumption == NULL \notin Nodes \cup Producers \cup Consumers
MaxItemsAssumption == MaxItems \in Nat

ASSUME QueueAssumptions ==
  ThreadsAssumption /\ NullAssumption /\ MaxItemsAssumption

VARIABLES
  head, tail,  \* the two pointers of the list
  mutex,       \* the thread that holds the mutex of the list, or NULL
  heap,        \* heap[n]: the item and the next pointer at address n
  allocated,   \* the addresses in use
  pc,          \* what each thread is about to do
  node,        \* new_node or delete_node of each thread
  freed,       \* free_batch_list has returned
  result,      \* what each consumer's last try_delete_node got, or NULL
  added,       \* history: how many items each producer has linked
  linked       \* history: the nodes in the order of the additions

list == <<head, tail>>
memory == <<heap, allocated>>
history == <<added, linked>>
vars == <<list, mutex, memory, pc, node, result, freed, history>>

Threads == Producers \cup Consumers
Items == Producers \X (1 .. MaxItems)
Pointers == Nodes \cup {NULL}
Nothing == <<>>   \* the item at an address never filled in

Init ==
  /\ head = NULL /\ tail = NULL /\ mutex = NULL
  /\ heap = [n \in Nodes |-> [item |-> Nothing, next |-> NULL]]
  /\ allocated = {}
  /\ pc = [t \in Threads |-> "idle"]
  /\ node = [t \in Threads |-> NULL]
  /\ freed = FALSE
  /\ added = [p \in Producers |-> 0]
  /\ result = [c \in Consumers |-> NULL]
  /\ linked = <<>>

Goto(t, from, to) == pc[t] = from /\ pc' = [pc EXCEPT ![t] = to]
Lock(t) == mutex = NULL /\ mutex' = t
Unlock == mutex' = NULL
-----------------------------------------------------------------------------
(* add_node: the n-th item of p is <<p, n>>. *)

CreateNode(p) ==
  /\ added[p] < MaxItems
  /\ Goto(p, "idle", "lock")
  /\ \E n \in Nodes \ allocated :
       /\ allocated' = allocated \cup {n}
       /\ node' = [node EXCEPT ![p] = n]
       /\ heap' = [heap EXCEPT ![n] = [item |-> <<p, added[p] + 1>>,
                                       next |-> NULL]]
  /\ UNCHANGED <<list, mutex, result, freed, history>>

(* Mutant: the list is changed without the mutex. *)
LockToAddIgnored(p) ==
  /\ Goto(p, "lock", "link")
  /\ UNCHANGED <<list, mutex, memory, node, result, freed, history>>

LockToAdd(p) ==
  /\ Goto(p, "lock", "link") /\ Lock(p)
  /\ UNCHANGED <<list, memory, node, result, freed, history>>

(* The first write of either branch: from here on the node is reachable. *)
Link(p) ==
  /\ Goto(p, "link", "set_tail")
  /\ \/ /\ tail = NULL
        /\ head' = node[p]
        /\ UNCHANGED heap
     \/ /\ tail # NULL
        /\ heap' = [heap EXCEPT ![tail].next = node[p]]
        /\ UNCHANGED head
  /\ added' = [added EXCEPT ![p] = @ + 1]
  /\ linked' = Append(linked, node[p])
  /\ UNCHANGED <<tail, mutex, allocated, node, result, freed>>

SetTail(p) ==
  /\ Goto(p, "set_tail", "unlock")
  /\ tail' = node[p]
  /\ UNCHANGED <<head, mutex, memory, node, result, freed, history>>

UnlockAdd(p) ==
  /\ Goto(p, "unlock", "idle") /\ Unlock
  /\ node' = [node EXCEPT ![p] = NULL]
  /\ UNCHANGED <<list, memory, result, freed, history>>
-----------------------------------------------------------------------------
(* try_delete_node *)

LockToDelete(c) ==
  /\ Goto(c, "idle", "unlink") /\ Lock(c)
  /\ UNCHANGED <<list, memory, node, result, freed, history>>

(* Mutant: the call returns early when the list is empty, mutex held. *)
FindEmptyLocked(c) ==
  /\ head = NULL
  /\ Goto(c, "unlink", "free")
  /\ result' = [result EXCEPT ![c] = NULL]
  /\ UNCHANGED <<list, mutex, memory, node, freed, history>>

FindEmpty(c) ==
  /\ head = NULL
  /\ Goto(c, "unlink", "unlock")
  /\ result' = [result EXCEPT ![c] = NULL]
  /\ UNCHANGED <<list, mutex, memory, node, freed, history>>

UnlinkLast(c) ==
  /\ head # NULL /\ heap[head].next = NULL
  /\ Goto(c, "unlink", "clear_tail")
  /\ node' = [node EXCEPT ![c] = head]
  /\ head' = NULL
  /\ linked' = Tail(linked)
  /\ UNCHANGED <<tail, mutex, memory, result, freed, added>>

UnlinkFirst(c) ==
  /\ head # NULL /\ heap[head].next # NULL
  /\ Goto(c, "unlink", "take")
  /\ node' = [node EXCEPT ![c] = head]
  /\ head' = heap[head].next
  /\ linked' = Tail(linked)
  /\ UNCHANGED <<tail, mutex, memory, result, freed, added>>

(* Mutant: the tail still points to the deleted node. *)
ClearTailForgotten(c) ==
  /\ Goto(c, "clear_tail", "take")
  /\ UNCHANGED <<list, mutex, memory, node, result, freed, history>>

ClearTail(c) ==
  /\ Goto(c, "clear_tail", "take")
  /\ tail' = NULL
  /\ UNCHANGED <<head, mutex, memory, node, result, freed, history>>

TakeItem(c) ==
  /\ Goto(c, "take", "unlock")
  /\ result' = [result EXCEPT ![c] = heap[node[c]].item]
  /\ UNCHANGED <<list, mutex, memory, node, freed, history>>

UnlockDelete(c) ==
  /\ Goto(c, "unlock", "free") /\ Unlock
  /\ UNCHANGED <<list, memory, node, result, freed, history>>

(* free(NULL) does nothing. *)
FreeNode(c) ==
  /\ Goto(c, "free", "idle")
  /\ allocated' = allocated \ {node[c]}
  /\ node' = [node EXCEPT ![c] = NULL]
  /\ UNCHANGED <<list, mutex, heap, result, freed, history>>
-----------------------------------------------------------------------------
(* The finish request ends each thread between two calls.  main joins them  *)
(* all before it frees the list.                                           *)
Stop(t) ==
  /\ Goto(t, "idle", "ended")
  /\ UNCHANGED <<list, mutex, memory, node, result, freed, history>>

Joined == \A t \in Threads : pc[t] = "ended"

FreeListNode ==
  /\ Joined /\ ~freed /\ head # NULL
  /\ head' = heap[head].next
  /\ allocated' = allocated \ {head}
  /\ linked' = Tail(linked)
  /\ UNCHANGED <<tail, mutex, heap, pc, node, result, freed, added>>

FreeList ==
  /\ Joined /\ ~freed /\ head = NULL
  /\ freed' = TRUE
  /\ UNCHANGED <<list, mutex, memory, pc, node, result, history>>

ProducerStep(p) ==
  CreateNode(p) \/ LockToAdd(p) \/ Link(p) \/ SetTail(p) \/ UnlockAdd(p)

ConsumerStep(c) ==
  \/ LockToDelete(c) \/ FindEmpty(c) \/ UnlinkLast(c) \/ UnlinkFirst(c)
  \/ ClearTail(c) \/ TakeItem(c) \/ UnlockDelete(c) \/ FreeNode(c)

Next ==
  \/ \E p \in Producers : ProducerStep(p)
  \/ \E c \in Consumers : ConsumerStep(c)
  \/ \E t \in Threads : Stop(t)
  \/ FreeListNode \/ FreeList

Spec == Init /\ [][Next]_vars

(* Every thread goes on with a call it has begun, a scheduler calls again   *)
(* and again, and a thread that waits for the mutex gets it at some time    *)
(* when others take it again and again.  Nobody need add or stop.           *)
Fairness ==
  /\ \A p \in Producers :
       /\ SF_vars(LockToAdd(p))
       /\ WF_vars(Link(p) \/ SetTail(p) \/ UnlockAdd(p))
  /\ \A c \in Consumers : SF_vars(LockToDelete(c)) /\ WF_vars(ConsumerStep(c))

FairSpec == Spec /\ Fairness
-----------------------------------------------------------------------------
TypeOK ==
  /\ head \in Pointers /\ tail \in Pointers
  /\ mutex \in Threads \cup {NULL}
  /\ heap \in [Nodes -> [item : Items \cup {Nothing}, next : Pointers]]
  /\ allocated \in SUBSET Nodes
  /\ pc \in [Threads -> {"idle", "lock", "link", "set_tail", "unlock", "unlink",
                         "clear_tail", "take", "free", "ended"}]
  /\ node \in [Threads -> Pointers]
  /\ freed \in BOOLEAN
  /\ added \in [Producers -> 0 .. MaxItems]
  /\ result \in [Consumers -> Items \cup {NULL}]
  /\ linked \in Seq(Nodes)

(* The pointers are those of the list in the order of the additions: head   *)
(* is its first node, each node points to the following one, the last to    *)
(* nothing, and tail to the last, except between the two writes of a change *)
(* by the thread that holds the mutex (add_node, try_delete_node,           *)
(* batch_list.c:45-51, :68-79).                                             *)
Size == Len(linked)
ListInv ==
  /\ head = IF linked = <<>> THEN NULL ELSE linked[1]
  /\ \A i \in 1 .. Size : heap[linked[i]].next = IF i = Size THEN NULL
                                                 ELSE linked[i + 1]
  /\ (\A t \in Threads : pc[t] \notin {"set_tail", "clear_tail"}) /\ ~Joined =>
       tail = IF linked = <<>> THEN NULL ELSE linked[Size]

-----------------------------------------------------------------------------
(* Each thread is in its own function, and holds the mutex exactly from     *)
(* where it has locked it to where it unlocks it.                          *)
MutexInv ==
  /\ \A p \in Producers : pc[p] \notin {"unlink", "clear_tail", "take", "free"}
  /\ \A c \in Consumers : pc[c] \notin {"lock", "link", "set_tail"}
  /\ \A t \in Threads :
       mutex = t <=> pc[t] \in {"link", "set_tail", "unlock", "unlink",
                               "clear_tail", "take"}

(* What new_node and delete_node point to in each part of a call, and that *)
(* only nodes in use, with an item in them, are linked.                    *)
InList(n) == \E i \in 1 .. Size : linked[i] = n
NodeInv ==
  /\ \A p \in Producers :
       /\ pc[p] \in {"idle", "ended"} => node[p] = NULL
       /\ pc[p] \in {"lock", "link"} =>
            /\ node[p] \in allocated /\ ~InList(node[p]) /\ added[p] < MaxItems
            /\ heap[node[p]] = [item |-> <<p, added[p] + 1>>, next |-> NULL]
       /\ pc[p] \in {"set_tail", "unlock"} =>
            linked # <<>> /\ node[p] = linked[Size]
  /\ \A c \in Consumers :
       /\ pc[c] \in {"idle", "unlink", "ended"} => node[c] = NULL
       /\ pc[c] \in {"clear_tail", "take"} =>
            node[c] \in allocated /\ heap[node[c]].item \in Items
       /\ pc[c] = "clear_tail" => linked = <<>>
       /\ pc[c] \in {"unlock", "free"} => node[c] \in allocated \cup {NULL}
  /\ \A n \in Nodes : InList(n) => n \in allocated /\ heap[n].item \in Items
  /\ freed => Joined /\ linked = <<>>

(* No thread reads, writes or frees a node that is not allocated, though    *)
(* try_delete_node frees it after it gave back the mutex                    *)
(* (batch_list.c:82) and its address may be another node's at once.         *)
NoUseAfterFree ==
  /\ \A p \in Producers :
       /\ pc[p] \in {"lock", "link", "set_tail"} => node[p] \in allocated
       /\ pc[p] = "link" /\ tail # NULL => tail \in allocated
  /\ \A c \in Consumers :
       /\ pc[c] = "unlink" /\ head # NULL => head \in allocated
       /\ pc[c] \in {"clear_tail", "take"} => node[c] \in allocated
       /\ pc[c] = "free" /\ node[c] # NULL => node[c] \in allocated
  /\ Joined /\ head # NULL => head \in allocated

(* An address in use is a node of the list, or one that a thread is about   *)
(* to link or to free, and only one of these; so nothing is left allocated  *)
(* when the list is freed (free_batch_list, batch_list.c:22-31).            *)
NothingLeaks ==
  /\ \A n \in allocated : InList(n) \/ \E t \in Threads : node[t] = n
  /\ \A i, j \in 1 .. Size : linked[i] = linked[j] => i = j
  /\ \A s, t \in Threads : node[s] = node[t] /\ node[s] # NULL => s = t
  /\ \A c \in Consumers : ~InList(node[c])
  /\ freed => allocated = {}

(* What holds in every state and is inductive.                             *)
IInv == TypeOK /\ ListInv /\ MutexInv /\ NodeInv /\ NothingLeaks

(* The pointers of the list are those of the additions                     *)
(* (batch_list.c:45-51, 68-79), no thread touches a freed node             *)
(* (batch_list.c:82), and every address in use has one owner, so that none *)
(* is left (batch_list.c:22).                                              *)
QueueInv == IInv /\ NoUseAfterFree

(* The list behaves as a queue: the items come out once each, in the order  *)
(* of the additions, whatever the threads do between.  An item is in the    *)
(* queue when its node is reachable, and taken when it no longer is.        *)
items == [i \in 1 .. Size |-> heap[linked[i]].item]
taken == [c \in Consumers |->
            IF pc[c] \in {"clear_tail", "take"} THEN heap[node[c]].item
            ELSE result[c]]
Fifo == INSTANCE FifoQueue WITH
  queue <- items, result <- taken, closed <- Joined
ImplementsFifo == Fifo!Spec

(* An item in the list is taken, unless the scheduler ends first.           *)
EveryItemTaken ==
  \A i \in Items :
    (\E k \in 1 .. Size : heap[linked[k]].item = i) ~>
      \E c \in Consumers : result[c] = i \/ pc[c] = "ended"

(* A call of add_node returns, though the scheduler polls the list without  *)
(* a pause.                                                                 *)
EveryAddReturns == \A p \in Producers : pc[p] = "lock" ~> pc[p] = "idle"
=============================================================================
