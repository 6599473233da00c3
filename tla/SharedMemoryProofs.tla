-------------------------- MODULE SharedMemoryProofs -------------------------
(***************************************************************************)
(* What the threads of a process share under a mutex, the lists and the    *)
(* records, for any number of threads, addresses, items and keys.          *)
(*                                                                         *)
(* The linked list is a queue, and its memory is used as it should be.     *)
(* linked, the nodes in the order of the additions, is what the proofs are *)
(* about.  LinkFacts and UnlinkFacts say what a change at either end does  *)
(* to it; the rest of the invariant then follows from who holds the mutex  *)
(* (MutexInv) and which node each thread is at (NodeInv).                  *)
(*                                                                         *)
(* A write of a record is an increment in two accesses; that it counts     *)
(* depends on its thread holding the mutex of the record from before the   *)
(* first until after the second (HolderInv), so that what it has loaded is *)
(* still in the record (LoadedInv).                                        *)
(***************************************************************************)
EXTENDS Storage, LinkedQueue, ShortsProofs, SequenceTheorems, TLAPS

(* The producers and the consumers are different threads, of the latter    *)
(* there is at least one, and NULL is no address.                          *)
Assumptions == ThreadsAssumption /\ NullAssumption /\ MaxItemsAssumption

-----------------------------------------------------------------------------
(* The only sequence of length 0.                                          *)
LEMMA EmptyFacts ==
  ASSUME NEW S, NEW s \in Seq(S)
  PROVE  Len(s) \in Nat /\ (s = <<>> <=> Len(s) = 0)
BY EmptySeq

(* A sequence with one more at its end.                                    *)
LEMMA AppendFacts ==
  ASSUME NEW S, NEW s \in Seq(S), NEW x \in S
  PROVE  /\ Append(s, x) \in Seq(S)
         /\ Append(s, x) # <<>>
         /\ Len(Append(s, x)) = Len(s) + 1
         /\ \A i \in 1 .. Len(s) : Append(s, x)[i] = s[i]
         /\ Append(s, x)[Len(s) + 1] = x
OBVIOUS

(* A sequence without its first.                                           *)
LEMMA TailFacts ==
  ASSUME NEW S, NEW s \in Seq(S), s # <<>>
  PROVE  /\ Tail(s) \in Seq(S)
         /\ Len(Tail(s)) = Len(s) - 1
         /\ \A i \in 1 .. Len(s) - 1 : Tail(s)[i] = s[i + 1]
OBVIOUS

-----------------------------------------------------------------------------
(* What the first write of an addition does: p has the mutex, its node     *)
(* comes after the last, or becomes the head.                              *)
LinkFacts(p) ==
  /\ mutex = p /\ node[p] \in allocated /\ node[p] \in Nodes /\ ~InList(node[p])
  /\ Size \in Nat /\ Size' = Size + 1 /\ linked' \in Seq(Nodes)
  /\ \A i \in 1 .. Size : linked'[i] = linked[i] /\ linked[i] \in Nodes
  /\ linked'[Size + 1] = node[p]
  /\ head' = linked'[1]
  /\ heap' \in [Nodes -> [item : Items \cup {Nothing}, next : Pointers]]
  /\ \A n \in Nodes : heap'[n].item = heap[n].item
  /\ \A n \in Nodes : heap'[n].next = IF Size # 0 /\ n = linked[Size]
                                        THEN node[p] ELSE heap[n].next
  /\ heap[node[p]] = [item |-> <<p, added[p] + 1>>, next |-> NULL]
  /\ \A n \in Nodes : ~InList(n) => heap'[n] = heap[n]
  /\ \A i, j \in 1 .. Size + 1 : linked'[i] = linked'[j] => i = j
  /\ \A n : InList(n)' <=> InList(n) \/ n = node[p]
  /\ linked' # <<>>

(* Link does that (add_node, batch_list.c:45-51).                          *)
LEMMA LinkStep ==
  ASSUME Assumptions, IInv, NEW p \in Producers, Link(p)
  PROVE  LinkFacts(p)
<1>1. mutex = p /\ ~Joined /\ \A t \in Threads : pc[t] \notin {"set_tail", "clear_tail"}
  BY DEF IInv, MutexInv, Link, Goto, Threads, Joined
<1>2. /\ node[p] \in allocated /\ node[p] \in Nodes /\ ~InList(node[p])
      /\ heap[node[p]] = [item |-> <<p, added[p] + 1>>, next |-> NULL]
  BY DEF IInv, TypeOK, NodeInv, Link, Goto
<1>3. linked \in Seq(Nodes) /\ linked' = Append(linked, node[p])
  BY DEF IInv, TypeOK, Link
<1>4. Size \in Nat /\ (linked = <<>> <=> Size = 0) /\ \A i \in 1 .. Size : linked[i] \in Nodes
  BY <1>3, EmptyFacts DEF Size
<1>5. /\ linked' \in Seq(Nodes) /\ Size' = Size + 1
      /\ \A i \in 1 .. Size : linked'[i] = linked[i]
      /\ linked'[Size + 1] = node[p]
  BY <1>2, <1>3, AppendFacts DEF Size
<1>6. /\ tail = IF Size = 0 THEN NULL ELSE linked[Size]
      /\ head = IF Size = 0 THEN NULL ELSE linked[1]
  BY <1>1, <1>4 DEF IInv, ListInv
<1>7. tail = NULL <=> Size = 0
  BY <1>4, <1>6 DEF Assumptions, NullAssumption
<1>8. head' = linked'[1]
  BY <1>4, <1>5, <1>6, <1>7 DEF Link
<1>9. heap \in [Nodes -> [item : Items \cup {Nothing}, next : Pointers]]
  BY DEF IInv, TypeOK
<1>10. /\ heap' \in [Nodes -> [item : Items \cup {Nothing}, next : Pointers]]
       /\ \A n \in Nodes : heap'[n].item = heap[n].item
       /\ \A n \in Nodes : heap'[n].next = IF Size # 0 /\ n = linked[Size]
                                             THEN node[p] ELSE heap[n].next
  <2>1. CASE tail = NULL
    BY <1>7, <1>9, <2>1 DEF Link
  <2>2. CASE tail # NULL
    <3>1. heap' = [heap EXCEPT ![linked[Size]].next = node[p]]
      BY <1>6, <1>7, <2>2 DEF Link
    <3>2. linked[Size] \in Nodes /\ node[p] \in Pointers
      BY <1>2, <1>4, <1>7, <2>2 DEF Pointers
    <3> QED BY <1>7, <1>9, <2>2, <3>1, <3>2
  <2> QED BY <2>1, <2>2
<1>11. \A n : InList(n) <=> \E i \in 1 .. Size : linked'[i] = n
  BY <1>5 DEF InList
<1>12. ASSUME NEW n
       PROVE  InList(n)' <=> InList(n) \/ n = node[p]
  <2>1. InList(n)' <=> \E i \in 1 .. Size + 1 : linked'[i] = n
    BY <1>5 DEF InList
  <2>2. \A i : i \in 1 .. Size + 1 <=> i \in 1 .. Size \/ i = Size + 1
    BY <1>4
  <2> QED BY <1>5, <1>11, <2>1, <2>2
<1>13. ASSUME NEW i \in 1 .. Size + 1, NEW j \in 1 .. Size + 1,
              linked'[i] = linked'[j]
       PROVE  i = j
  <2>1. \A k \in 1 .. Size : linked'[k] # node[p]
    BY <1>2, <1>11
  <2>2. \A k, l \in 1 .. Size : linked[k] = linked[l] => k = l
    BY DEF IInv, NothingLeaks
  <2>3. /\ i \in 1 .. Size \/ i = Size + 1
        /\ j \in 1 .. Size \/ j = Size + 1
    BY <1>4
  <2> QED BY <1>5, <1>13, <2>1, <2>2, <2>3
<1>14. linked' # <<>>
  BY <1>4, <1>5, EmptyFacts DEF Size
<1>15. ASSUME NEW n \in Nodes, ~InList(n)
       PROVE  heap'[n] = heap[n]
  <2>1. Size # 0 => n # linked[Size]
    BY <1>4, <1>15 DEF InList
  <2> QED BY <1>6, <1>7, <1>9, <2>1 DEF Link
<1> QED BY <1>1, <1>2, <1>4, <1>5, <1>8, <1>10, <1>12, <1>13, <1>14,
           <1>15 DEF LinkFacts

(* What taking the first node out of the list does.                        *)
UnlinkFacts ==
  /\ head = linked[1] /\ head \in allocated /\ head \in Nodes /\ InList(head)
  /\ Size \in Nat \ {0} /\ Size' = Size - 1 /\ linked' \in Seq(Nodes)
  /\ linked # <<>>
  /\ linked' = <<>> <=> Size = 1
  /\ \A i \in 1 .. Size - 1 : linked'[i] = linked[i + 1]
  /\ \A i, j \in 1 .. Size - 1 : linked'[i] = linked'[j] => i = j
  /\ \A i \in 1 .. Size - 1 :
       heap[linked'[i]].next = IF i = Size - 1 THEN NULL ELSE linked'[i + 1]
  /\ \A n : InList(n)' <=> InList(n) /\ n # head
  /\ heap[head].next = IF Size = 1 THEN NULL ELSE linked[2]
  /\ Size # 1 => linked[2] \in Nodes /\ linked'[1] = linked[2]

(* Every step that moves head to the next node does that                   *)
(* (try_delete_node, free_batch_list, batch_list.c:68-79, 22-31).          *)
LEMMA UnlinkStep ==
  ASSUME Assumptions, IInv, head # NULL, linked' = Tail(linked)
  PROVE  UnlinkFacts
<1>1. linked \in Seq(Nodes) /\ linked # <<>> /\ head = linked[1]
  BY DEF IInv, TypeOK, ListInv
<1>2. /\ linked' \in Seq(Nodes) /\ Size' = Size - 1
      /\ \A i \in 1 .. Size - 1 : linked'[i] = linked[i + 1]
  BY <1>1, TailFacts DEF Size
<1>3. /\ Size \in Nat \ {0} /\ (linked' = <<>> <=> Size' = 0)
      /\ \A i \in 1 .. Size : linked[i] \in Nodes
  BY SMTT(60), <1>1, <1>2, EmptyFacts DEF Size
<1>4. /\ head \in Nodes /\ InList(head)
      /\ heap[head].next = IF Size = 1 THEN NULL ELSE linked[2]
  BY <1>1, <1>3 DEF IInv, ListInv, InList
<1>5. head \in allocated
  BY <1>4 DEF IInv, NodeInv
<1>6. \A i, j \in 1 .. Size : linked[i] = linked[j] => i = j
  BY DEF IInv, NothingLeaks
<1>7. ASSUME NEW i \in 1 .. Size - 1, NEW j \in 1 .. Size - 1,
             linked'[i] = linked'[j]
      PROVE  i = j
  <2>1. i + 1 \in 1 .. Size /\ j + 1 \in 1 .. Size
    BY <1>3
  <2>2. linked[i + 1] = linked[j + 1]
    BY <1>2, <1>7
  <2>3. i + 1 = j + 1
    BY <1>6, <2>1, <2>2
  <2> QED BY <2>3
<1>8. ASSUME NEW n
      PROVE  InList(n)' <=> InList(n) /\ n # head
  <2>1. InList(n)' <=> \E i \in 1 .. Size - 1 : linked[i + 1] = n
    BY <1>2 DEF InList
  <2>2. ASSUME NEW i \in 1 .. Size - 1
        PROVE  i + 1 \in 1 .. Size /\ linked[i + 1] # head
    BY <1>1, <1>3, <1>6, 1 \in 1 .. Size
  <2>3. ASSUME NEW i \in 1 .. Size, linked[i] # head
        PROVE  i - 1 \in 1 .. Size - 1 /\ (i - 1) + 1 = i
    BY <1>1, <1>3, <2>3
  <2>4. InList(n) <=> \E i \in 1 .. Size : linked[i] = n
    BY DEF InList
  <2> QED BY <2>1, <2>2, <2>3, <2>4
<1>9. linked' = <<>> <=> Size = 1
  BY <1>2, <1>3
<1>10. Size # 1 => linked[2] \in Nodes /\ linked'[1] = linked[2]
  BY <1>2, <1>3
<1>11. ASSUME NEW i \in 1 .. Size - 1
       PROVE  heap[linked'[i]].next = IF i = Size - 1 THEN NULL ELSE linked'[i + 1]
  <2>1. heap[linked[i + 1]].next = IF i + 1 = Size THEN NULL ELSE linked[i + 2]
    BY <1>3 DEF IInv, ListInv
  <2>2. linked'[i] = linked[i + 1]
    BY <1>2
  <2>3. CASE i = Size - 1
    <3>1. i + 1 = Size
      BY <1>3, <2>3
    <3> QED BY <2>1, <2>2, <2>3, <3>1
  <2>4. CASE i # Size - 1
    <3>1. i + 1 \in 1 .. Size - 1 /\ (i + 1) + 1 = i + 2 /\ i + 1 # Size
      BY <1>3, <2>4
    <3>2. linked'[i + 1] = linked[i + 2]
      BY <1>2, <3>1
    <3> QED BY <2>1, <2>2, <2>4, <3>1, <3>2
  <2> QED BY <2>3, <2>4
<1> QED BY <1>1, <1>2, <1>3, <1>4, <1>5, <1>7, <1>8, <1>9, <1>10,
           <1>11 DEF UnlinkFacts

-----------------------------------------------------------------------------
(* Every variable stays in its range.                                      *)
LEMMA TypePreserved ==
  ASSUME Assumptions, IInv, [Next]_vars
  PROVE  TypeOK'
<1>1. ASSUME NEW p \in Producers, CreateNode(p)
      PROVE  TypeOK'
  BY <1>1 DEF CreateNode, IInv, TypeOK, Threads, Items, Pointers, Goto, list,
     history, Assumptions, MaxItemsAssumption
<1>2. ASSUME NEW p \in Producers, LockToAdd(p)
      PROVE  TypeOK'
  BY <1>2 DEF LockToAdd, IInv, TypeOK, Threads, Goto, Lock, list, memory, history
<1>3. ASSUME NEW p \in Producers, Link(p)
      PROVE  TypeOK'
  <2>0. LinkFacts(p)
    BY <1>3, LinkStep
  <2>1. added' \in [Producers -> 0 .. MaxItems]
    <3>1. added \in [Producers -> 0 .. MaxItems] /\ added[p] < MaxItems
      BY <1>3 DEF Link, Goto, IInv, TypeOK, NodeInv
    <3> QED BY <1>3, <3>1 DEF Link, Assumptions, MaxItemsAssumption
  <2>2. /\ head' \in Pointers /\ linked' \in Seq(Nodes)
        /\ heap' \in [Nodes -> [item : Items \cup {Nothing}, next : Pointers]]
    <3>1. 1 \in 1 .. Size \/ Size + 1 = 1
      BY <2>0 DEF LinkFacts
    <3>2. linked'[1] \in Nodes
      BY <2>0, <3>1 DEF LinkFacts
    <3> QED BY <2>0, <3>2 DEF LinkFacts, Pointers
  <2>3. pc' \in [Threads -> {"idle", "lock", "link", "set_tail", "unlock", "unlink",
                            "clear_tail", "take", "free", "ended"}]
    BY <1>3 DEF Link, Goto, IInv, TypeOK
  <2> QED BY <1>3, <2>1, <2>2, <2>3 DEF Link, IInv, TypeOK
<1>4. ASSUME NEW p \in Producers, SetTail(p)
      PROVE  TypeOK'
  BY <1>4 DEF SetTail, IInv, TypeOK, Threads, Goto, memory, history
<1>5. ASSUME NEW p \in Producers, UnlockAdd(p)
      PROVE  TypeOK'
  BY <1>5 DEF UnlockAdd, IInv, TypeOK, Threads, Pointers, Goto, Unlock, list,
     memory, history
<1>6. ASSUME NEW c \in Consumers, LockToDelete(c)
      PROVE  TypeOK'
  BY <1>6 DEF LockToDelete, IInv, TypeOK, Threads, Goto, Lock, list, memory,
     history
<1>7. ASSUME NEW c \in Consumers, FindEmpty(c)
      PROVE  TypeOK'
  BY <1>7 DEF FindEmpty, IInv, TypeOK, Threads, Goto, list, memory, history
<1>8. ASSUME NEW c \in Consumers, UnlinkLast(c)
      PROVE  TypeOK'
  <2>1. UnlinkFacts
    BY <1>8, UnlinkStep DEF UnlinkLast
  <2> QED BY <1>8, <2>1 DEF UnlinkFacts, UnlinkLast, IInv, TypeOK, Threads, Goto,
             memory
<1>9. ASSUME NEW c \in Consumers, UnlinkFirst(c)
      PROVE  TypeOK'
  <2>1. UnlinkFacts
    BY <1>9, UnlinkStep DEF UnlinkFirst
  <2> QED BY <1>9, <2>1 DEF UnlinkFacts, UnlinkFirst, IInv, TypeOK, Threads,
             Goto, memory
<1>10. ASSUME NEW c \in Consumers, ClearTail(c)
      PROVE  TypeOK'
  BY <1>10 DEF ClearTail, IInv, TypeOK, Threads, Pointers, Goto, memory, history
<1>11. ASSUME NEW c \in Consumers, TakeItem(c)
      PROVE  TypeOK'
  BY <1>11 DEF TakeItem, IInv, TypeOK, NodeInv, Threads, Goto, list, memory,
     history
<1>12. ASSUME NEW c \in Consumers, UnlockDelete(c)
      PROVE  TypeOK'
  BY <1>12 DEF UnlockDelete, IInv, TypeOK, Threads, Goto, Unlock, list, memory,
     history
<1>13. ASSUME NEW c \in Consumers, FreeNode(c)
      PROVE  TypeOK'
  BY <1>13 DEF FreeNode, IInv, TypeOK, Threads, Pointers, Goto, list, history
<1>14. ASSUME NEW t \in Threads, Stop(t)
      PROVE  TypeOK'
  BY <1>14 DEF Stop, IInv, TypeOK, Goto, list, memory, history
<1>15. CASE FreeListNode
  <2>1. UnlinkFacts
    BY <1>15, UnlinkStep DEF FreeListNode
  <2> QED BY <1>15, <2>1 DEF UnlinkFacts, FreeListNode, IInv, TypeOK
<1>16. CASE FreeList
  BY <1>16 DEF FreeList, IInv, TypeOK, list, memory, history
<1>17. CASE UNCHANGED vars
  BY <1>17 DEF vars, IInv, TypeOK, list, memory, history
<1> QED BY <1>1, <1>2, <1>3, <1>4, <1>5, <1>6, <1>7, <1>8, <1>9, <1>10, <1>11,
           <1>12, <1>13, <1>14, <1>15, <1>16, <1>17 DEF Next, ProducerStep,
   ConsumerStep

(* One thread at a time is between locking and unlocking.                  *)
LEMMA MutexPreserved ==
  ASSUME Assumptions, IInv, [Next]_vars
  PROVE  MutexInv'
<1>1. ASSUME NEW p \in Producers, CreateNode(p)
      PROVE  MutexInv'
  BY <1>1 DEF CreateNode, IInv, MutexInv, Goto, Assumptions, ThreadsAssumption
<1>2. ASSUME NEW p \in Producers, LockToAdd(p)
      PROVE  MutexInv'
  BY <1>2 DEF LockToAdd, IInv, TypeOK, MutexInv, Threads, Goto, Lock,
     Assumptions, NullAssumption
<1>3. ASSUME NEW p \in Producers, Link(p)
      PROVE  MutexInv'
  BY <1>3 DEF Link, IInv, MutexInv, Goto
<1>4. ASSUME NEW p \in Producers, SetTail(p)
      PROVE  MutexInv'
  BY <1>4 DEF SetTail, IInv, MutexInv, Goto
<1>5. ASSUME NEW p \in Producers, UnlockAdd(p)
      PROVE  MutexInv'
  BY <1>5 DEF UnlockAdd, IInv, TypeOK, MutexInv, Threads, Goto, Unlock,
     Assumptions, NullAssumption
<1>6. ASSUME NEW c \in Consumers, LockToDelete(c)
      PROVE  MutexInv'
  BY <1>6 DEF LockToDelete, IInv, TypeOK, MutexInv, Threads, Goto, Lock,
     Assumptions, ThreadsAssumption, NullAssumption
<1>7. ASSUME NEW c \in Consumers, FindEmpty(c)
      PROVE  MutexInv'
  BY <1>7 DEF FindEmpty, IInv, MutexInv, Goto
<1>8. ASSUME NEW c \in Consumers, UnlinkLast(c)
      PROVE  MutexInv'
  BY <1>8 DEF UnlinkLast, IInv, MutexInv, Goto
<1>9. ASSUME NEW c \in Consumers, UnlinkFirst(c)
      PROVE  MutexInv'
  BY <1>9 DEF UnlinkFirst, IInv, MutexInv, Goto
<1>10. ASSUME NEW c \in Consumers, ClearTail(c)
      PROVE  MutexInv'
  BY <1>10 DEF ClearTail, IInv, MutexInv, Goto
<1>11. ASSUME NEW c \in Consumers, TakeItem(c)
      PROVE  MutexInv'
  BY <1>11 DEF TakeItem, IInv, MutexInv, Goto
<1>12. ASSUME NEW c \in Consumers, UnlockDelete(c)
      PROVE  MutexInv'
  BY <1>12 DEF UnlockDelete, IInv, TypeOK, MutexInv, Threads, Goto, Unlock,
     Assumptions, ThreadsAssumption, NullAssumption
<1>13. ASSUME NEW c \in Consumers, FreeNode(c)
      PROVE  MutexInv'
  BY <1>13 DEF FreeNode, IInv, MutexInv, Goto
<1>14. ASSUME NEW t \in Threads, Stop(t)
      PROVE  MutexInv'
  BY <1>14 DEF Stop, IInv, MutexInv, Goto
<1>15. CASE FreeListNode
  BY <1>15 DEF FreeListNode, IInv, MutexInv
<1>16. CASE FreeList
  BY <1>16 DEF FreeList, IInv, MutexInv
<1>17. CASE UNCHANGED vars
  BY <1>17 DEF vars, IInv, MutexInv
<1> QED BY <1>1, <1>2, <1>3, <1>4, <1>5, <1>6, <1>7, <1>8, <1>9, <1>10, <1>11,
           <1>12, <1>13, <1>14, <1>15, <1>16, <1>17 DEF Next, ProducerStep,
   ConsumerStep

(* The pointers stay those of the list.                                    *)
LEMMA ListPreserved ==
  ASSUME Assumptions, IInv, [Next]_vars
  PROVE  ListInv'
<1>1. ASSUME NEW p \in Producers, CreateNode(p)
      PROVE  ListInv'
  BY <1>1 DEF CreateNode, IInv, ListInv, NodeInv, Joined, Size, InList, Goto,
     list, history
<1>2. ASSUME NEW p \in Producers, LockToAdd(p)
      PROVE  ListInv'
  BY <1>2 DEF LockToAdd, IInv, ListInv, Joined, Size, Goto, list, memory, history
<1>3. ASSUME NEW p \in Producers, Link(p)
      PROVE  ListInv'
  <2>0. LinkFacts(p)
    BY <1>3, LinkStep
  <2>1. head' = linked'[1] /\ linked' # <<>> /\ pc'[p] = "set_tail"
    BY <1>3, <2>0 DEF LinkFacts, Link, Goto, IInv, TypeOK, Threads
  <2>2. ASSUME NEW i \in 1 .. Size'
        PROVE  heap'[linked'[i]].next = IF i = Size' THEN NULL ELSE linked'[i + 1]
    <3>1. CASE i = Size + 1
      <4>1. \A j \in 1 .. Size : node[p] # linked[j]
        BY <2>0 DEF LinkFacts
      <4>2. Size # 0 => node[p] # linked[Size]
        BY <2>0, <4>1 DEF LinkFacts
      <4>3. heap'[node[p]].next = NULL
        BY <2>0, <4>2 DEF LinkFacts
      <4> QED BY <2>0, <3>1, <4>3 DEF LinkFacts
    <3>2. CASE i = Size
      <4>1. heap'[linked[Size]].next = node[p]
        BY <2>0, <3>2, <2>2 DEF LinkFacts
      <4> QED BY <2>0, <2>2, <3>2, <4>1 DEF LinkFacts
    <3>3. CASE i \in 1 .. Size - 1
      <4>0. i \in 1 .. Size /\ i + 1 \in 1 .. Size /\ Size \in 1 .. Size /\ i # Size
        BY <2>0, <3>3 DEF LinkFacts
      <4>1. linked[i] # linked[Size] /\ linked[i] \in Nodes
        BY <2>0, <4>0 DEF LinkFacts
      <4>2. heap'[linked[i]].next = heap[linked[i]].next
        BY <2>0, <4>1 DEF LinkFacts
      <4>3. heap[linked[i]].next = linked[i + 1]
        BY <4>0 DEF IInv, ListInv
      <4>4. linked'[i] = linked[i] /\ linked'[i + 1] = linked[i + 1]
        BY <2>0, <4>0 DEF LinkFacts
      <4> QED BY <2>0, <4>0, <4>2, <4>3, <4>4 DEF LinkFacts
    <3> QED BY <2>0, <2>2, <3>1, <3>2, <3>3 DEF LinkFacts
  <2> QED BY <2>0, <2>1, <2>2 DEF ListInv, Threads
<1>4. ASSUME NEW p \in Producers, SetTail(p)
      PROVE  ListInv'
  BY <1>4 DEF SetTail, IInv, TypeOK, ListInv, MutexInv, NodeInv, Threads, Joined,
     Size, InList, Goto, Lock, Unlock, list, memory, history, Assumptions,
   ThreadsAssumption, NullAssumption, MaxItemsAssumption
<1>5. ASSUME NEW p \in Producers, UnlockAdd(p)
      PROVE  ListInv'
  BY <1>5 DEF UnlockAdd, IInv, ListInv, Joined, Size, Goto, list, memory, history
<1>6. ASSUME NEW c \in Consumers, LockToDelete(c)
      PROVE  ListInv'
  BY <1>6 DEF LockToDelete, IInv, ListInv, Joined, Size, Goto, list, memory,
     history
<1>7. ASSUME NEW c \in Consumers, FindEmpty(c)
      PROVE  ListInv'
  BY <1>7 DEF FindEmpty, IInv, ListInv, Joined, Size, Goto, list, memory, history
<1>8. ASSUME NEW c \in Consumers, UnlinkLast(c)
      PROVE  ListInv'
  <2>1. UnlinkFacts
    BY <1>8, UnlinkStep DEF UnlinkLast
  <2>2. heap' = heap
    BY <1>8 DEF UnlinkLast, memory
  <2>3. head' = IF linked' = <<>> THEN NULL ELSE linked'[1]
    BY <1>8, <2>1 DEF UnlinkFacts, UnlinkLast
  <2>4. \A i \in 1 .. Size' : heap'[linked'[i]].next =
                               IF i = Size' THEN NULL ELSE linked'[i + 1]
    BY <2>1, <2>2 DEF UnlinkFacts
  <2>5. pc'[c] = "clear_tail"
    BY <1>8 DEF UnlinkLast, Goto, IInv, TypeOK, Threads
  <2> QED BY <2>3, <2>4, <2>5 DEF ListInv, Threads
<1>9. ASSUME NEW c \in Consumers, UnlinkFirst(c)
      PROVE  ListInv'
  <2>1. UnlinkFacts
    BY <1>9, UnlinkStep DEF UnlinkFirst
  <2>2. heap' = heap
    BY <1>9 DEF UnlinkFirst, memory
  <2>3. head' = IF linked' = <<>> THEN NULL ELSE linked'[1]
    BY <1>9, <2>1 DEF UnlinkFacts, UnlinkFirst
  <2>4. \A i \in 1 .. Size' : heap'[linked'[i]].next =
                               IF i = Size' THEN NULL ELSE linked'[i + 1]
    BY <2>1, <2>2 DEF UnlinkFacts
  <2>5. /\ \A t \in Threads : pc[t] \notin {"set_tail", "clear_tail"}
        /\ ~Joined /\ c \in Threads
    BY <1>9 DEF UnlinkFirst, Goto, IInv, MutexInv, Joined, Threads
  <2>6. tail = linked[Size] /\ tail' = tail
    BY <1>9, <2>1, <2>5 DEF UnlinkFirst, IInv, ListInv
  <2>7. Size' # 0 /\ linked'[Size'] = linked[Size]
    <3>1. Size # 1
      BY <1>9, <2>1 DEF UnlinkFacts, UnlinkFirst
    <3>2. Size - 1 \in 1 .. Size - 1
      BY <2>1, <3>1 DEF UnlinkFacts
    <3> QED BY <2>1, <3>2 DEF UnlinkFacts
  <2>8. tail' = linked'[Size'] /\ linked' # <<>>
    BY <2>1, <2>6, <2>7 DEF UnlinkFacts
  <2> QED BY <2>3, <2>4, <2>8 DEF ListInv
<1>10. ASSUME NEW c \in Consumers, ClearTail(c)
      PROVE  ListInv'
  BY <1>10 DEF ClearTail, IInv, ListInv, NodeInv, Size, Goto, history
<1>11. ASSUME NEW c \in Consumers, TakeItem(c)
      PROVE  ListInv'
  BY <1>11 DEF TakeItem, IInv, ListInv, Joined, Size, Goto, list, memory, history
<1>12. ASSUME NEW c \in Consumers, UnlockDelete(c)
      PROVE  ListInv'
  BY <1>12 DEF UnlockDelete, IInv, ListInv, Joined, Size, Goto, list, memory,
     history
<1>13. ASSUME NEW c \in Consumers, FreeNode(c)
      PROVE  ListInv'
  BY <1>13 DEF FreeNode, IInv, ListInv, Joined, Size, Goto, list, history
<1>14. ASSUME NEW t \in Threads, Stop(t)
      PROVE  ListInv'
  BY <1>14 DEF Stop, IInv, ListInv, Joined, Size, Goto, list, memory, history
<1>15. CASE FreeListNode
  <2>1. UnlinkFacts
    BY <1>15, UnlinkStep DEF FreeListNode
  <2>2. heap' = heap
    BY <1>15 DEF FreeListNode
  <2>3. head' = IF linked' = <<>> THEN NULL ELSE linked'[1]
    BY <1>15, <2>1 DEF UnlinkFacts, FreeListNode
  <2>4. \A i \in 1 .. Size' : heap'[linked'[i]].next =
                               IF i = Size' THEN NULL ELSE linked'[i + 1]
    BY <2>1, <2>2 DEF UnlinkFacts
  <2>5. Joined'
    BY <1>15 DEF FreeListNode, Joined
  <2> QED BY <2>3, <2>4, <2>5 DEF ListInv
<1>16. CASE FreeList
  BY <1>16 DEF FreeList, IInv, ListInv, Joined, Size, list, memory, history
<1>17. CASE UNCHANGED vars
  BY <1>17 DEF vars, IInv, ListInv, Joined, Size, list, memory, history
<1> QED BY <1>1, <1>2, <1>3, <1>4, <1>5, <1>6, <1>7, <1>8, <1>9, <1>10, <1>11,
           <1>12, <1>13, <1>14, <1>15, <1>16, <1>17 DEF Next, ProducerStep,
   ConsumerStep

(* Each thread's node is the one its place in the call is about.           *)
LEMMA NodePreserved ==
  ASSUME Assumptions, IInv, [Next]_vars
  PROVE  NodeInv'
<1>1. ASSUME NEW p \in Producers, CreateNode(p)
      PROVE  NodeInv'
  <2>1. PICK n \in Nodes \ allocated :
          /\ allocated' = allocated \cup {n}
          /\ node' = [node EXCEPT ![p] = n]
          /\ heap' = [heap EXCEPT ![n] = [item |-> <<p, added[p] + 1>>, next |-> NULL]]
    BY <1>1 DEF CreateNode
  <2>2. /\ pc[p] = "idle" /\ pc' = [pc EXCEPT ![p] = "lock"] /\ added[p] < MaxItems
        /\ UNCHANGED <<added, linked, freed>>
    BY <1>1 DEF CreateNode, Goto, history
  <2>3. /\ node \in [Threads -> Pointers] /\ pc = [t \in Threads |-> pc[t]]
        /\ heap \in [Nodes -> [item : Items \cup {Nothing}, next : Pointers]]
        /\ allocated \subseteq Nodes /\ p \in Threads
        /\ \A c \in Consumers : c \in Threads /\ c # p
        /\ \A q \in Producers : q \in Threads
    BY DEF IInv, TypeOK, Threads, Assumptions, ThreadsAssumption
  <2>4. \A m : InList(m)' <=> InList(m)
    BY <2>2 DEF InList, Size
  <2>5. ~InList(n)
    BY <2>1 DEF IInv, NodeInv
  <2>6. \A m \in allocated : heap'[m] = heap[m] /\ m \in allocated'
    BY <2>1, <2>3
  <2>7. ASSUME NEW q \in Producers
        PROVE  /\ pc'[q] \in {"idle", "ended"} => node'[q] = NULL
               /\ pc'[q] \in {"lock", "link"} =>
                    /\ node'[q] \in allocated' /\ ~InList(node[q])'
                    /\ added'[q] < MaxItems
                    /\ heap'[node'[q]] = [item |-> <<q, added'[q] + 1>>, next |-> NULL]
               /\ pc'[q] \in {"set_tail", "unlock"} =>
                    linked' # <<>> /\ node'[q] = linked'[Size']
    <3>1. CASE q = p
      <4>1. node'[p] = n /\ pc'[p] = "lock" /\ n \in allocated' /\ ~InList(n)'
        BY <2>1, <2>2, <2>3, <2>4, <2>5
      <4>2. heap'[n] = [item |-> <<p, added[p] + 1>>, next |-> NULL]
        BY <2>1, <2>3
      <4>3. ~InList(node[p])'
        BY <4>1 DEF InList
      <4> QED BY <2>2, <3>1, <4>1, <4>2, <4>3
    <3>2. CASE q # p
      <4>1. node'[q] = node[q] /\ pc'[q] = pc[q]
        BY <2>1, <2>2, <2>3, <3>2
      <4>2. InList(node[q])' <=> InList(node[q])
        BY <4>1, <2>2 DEF InList, Size
      <4>3. linked' = linked /\ Size' = Size /\ added' = added
        BY <2>2 DEF Size
      <4> QED BY <2>6, <4>1, <4>2, <4>3 DEF IInv, NodeInv
    <3> QED BY <3>1, <3>2
  <2>8. ASSUME NEW c \in Consumers
        PROVE  /\ pc'[c] \in {"idle", "unlink", "ended"} => node'[c] = NULL
               /\ pc'[c] \in {"clear_tail", "take"} =>
                    node'[c] \in allocated' /\ heap'[node'[c]].item \in Items
               /\ pc'[c] = "clear_tail" => linked' = <<>>
               /\ pc'[c] \in {"unlock", "free"} => node'[c] \in allocated' \cup {NULL}
    <3>1. node'[c] = node[c] /\ pc'[c] = pc[c]
      BY <2>1, <2>2, <2>3
    <3> QED BY <2>2, <2>6, <3>1 DEF IInv, NodeInv
  <2>9. \A m \in Nodes : InList(m)' => m \in allocated' /\ heap'[m].item \in Items
    BY <2>4, <2>6 DEF IInv, NodeInv
  <2>10. ~freed
    BY <2>2, <2>3 DEF IInv, NodeInv, Joined
  <2> QED BY <2>2, <2>7, <2>8, <2>9, <2>10 DEF NodeInv
<1>2. ASSUME NEW p \in Producers, LockToAdd(p)
      PROVE  NodeInv'
  BY <1>2 DEF LockToAdd, IInv, NodeInv, Joined, Size, InList, Goto, memory,
     history
<1>3. ASSUME NEW p \in Producers, Link(p)
      PROVE  NodeInv'
  <2>1. LinkFacts(p)
    BY <1>3, LinkStep
  <2>2. /\ pc' = [pc EXCEPT ![p] = "set_tail"] /\ pc[p] = "link"
        /\ added' = [added EXCEPT ![p] = added[p] + 1]
        /\ UNCHANGED <<allocated, node, freed>>
    BY <1>3 DEF Link, Goto
  <2>3. /\ node \in [Threads -> Pointers] /\ pc = [t \in Threads |-> pc[t]] /\ p \in Threads
        /\ added \in [Producers -> 0 .. MaxItems] /\ allocated \subseteq Nodes
        /\ \A c \in Consumers : c \in Threads /\ c # p
        /\ \A q \in Producers : q \in Threads
    BY DEF IInv, TypeOK, Threads, Assumptions, ThreadsAssumption
  <2>4. \A t \in Threads \ {p} : /\ pc'[t] = pc[t]
                                 /\ pc[t] \notin {"link", "set_tail", "unlock", "unlink",
                                                 "clear_tail", "take"}
    BY <2>1, <2>2, <2>3 DEF IInv, MutexInv
  <2>5. ASSUME NEW q \in Producers
        PROVE  /\ pc'[q] \in {"idle", "ended"} => node'[q] = NULL
               /\ pc'[q] \in {"lock", "link"} =>
                    /\ node'[q] \in allocated' /\ ~InList(node[q])'
                    /\ added'[q] < MaxItems
                    /\ heap'[node'[q]] = [item |-> <<q, added'[q] + 1>>, next |-> NULL]
               /\ pc'[q] \in {"set_tail", "unlock"} =>
                    linked' # <<>> /\ node'[q] = linked'[Size']
    <3>1. CASE q = p
      BY <2>1, <2>2, <2>3, <3>1 DEF LinkFacts
    <3>2. CASE q # p
      <4>1. pc'[q] = pc[q] /\ pc[q] \notin {"link", "set_tail", "unlock"}
        BY <2>3, <2>4, <3>2
      <4>2. pc[q] = "lock" => /\ node[q] \in allocated /\ ~InList(node[q])
                              /\ added[q] < MaxItems
                              /\ heap[node[q]] = [item |-> <<q, added[q] + 1>>, next |-> NULL]
        BY DEF IInv, NodeInv
      <4>3. pc[q] = "lock" => node[q] # node[p]
        BY <2>1, <2>3, <3>2, <4>2 DEF LinkFacts
      <4>4. InList(node[q])' <=> InList(node[q]) \/ node[q] = node[p]
        <5>1. InList(node[q])' <=> \E i \in 1 .. Size' : linked'[i] = node[q]
          BY <2>2 DEF InList
        <5>2. \A m : (\E i \in 1 .. Size' : linked'[i] = m) <=> InList(m) \/ m = node[p]
          BY <2>1 DEF LinkFacts, InList
        <5> QED BY <5>1, <5>2
      <4>5. pc[q] \in {"idle", "ended"} => node[q] = NULL
        BY DEF IInv, NodeInv
      <4>6. pc[q] = "lock" => heap'[node[q]] = heap[node[q]]
        BY <2>1, <2>3, <4>2 DEF LinkFacts
      <4>7. added'[q] = added[q]
        BY <2>2, <3>2
      <4> QED BY <2>2, <4>1, <4>2, <4>3, <4>4, <4>5, <4>6, <4>7
    <3> QED BY <3>1, <3>2
  <2>6. ASSUME NEW c \in Consumers
        PROVE  /\ pc'[c] \in {"idle", "unlink", "ended"} => node'[c] = NULL
               /\ pc'[c] \notin {"clear_tail", "take"}
               /\ pc'[c] \in {"unlock", "free"} => node'[c] \in allocated' \cup {NULL}
    <3>1. pc'[c] = pc[c] /\ pc[c] \notin {"unlock", "unlink", "clear_tail", "take"}
      BY <2>3, <2>4
    <3> QED BY <2>2, <3>1 DEF IInv, NodeInv
  <2>7. <<p, added[p] + 1>> \in Items
    <3>1. added[p] < MaxItems /\ added[p] \in 0 .. MaxItems
      BY <2>2, <2>3 DEF IInv, NodeInv
    <3> QED BY <3>1 DEF Items, Assumptions, MaxItemsAssumption
  <2>8. ASSUME NEW m \in Nodes, InList(m)'
        PROVE  m \in allocated' /\ heap'[m].item \in Items
    <3>1. InList(m) \/ m = node[p]
      BY <2>1, <2>8 DEF LinkFacts
    <3>2. CASE InList(m)
      BY <2>1, <2>2, <3>2 DEF LinkFacts, IInv, NodeInv
    <3>3. CASE m = node[p]
      <4>1. heap[node[p]].item = <<p, added[p] + 1>>
        BY <2>1 DEF LinkFacts
      <4>2. node[p] \in allocated /\ heap'[m].item = heap[m].item
        BY <2>1 DEF LinkFacts
      <4> QED BY <2>2, <2>7, <3>3, <4>1, <4>2
    <3> QED BY <3>1, <3>2, <3>3
  <2>9. ~freed
    BY <2>2, <2>3 DEF IInv, NodeInv, Joined
  <2> QED BY <2>2, <2>5, <2>6, <2>8, <2>9 DEF NodeInv
<1>4. ASSUME NEW p \in Producers, SetTail(p)
      PROVE  NodeInv'
  BY <1>4 DEF SetTail, IInv, MutexInv, NodeInv, Joined, Size, InList, Goto,
     memory, history
<1>5. ASSUME NEW p \in Producers, UnlockAdd(p)
      PROVE  NodeInv'
  BY <1>5 DEF UnlockAdd, IInv, TypeOK, NodeInv, Joined, Size, InList, Goto,
     memory, history
<1>6. ASSUME NEW c \in Consumers, LockToDelete(c)
      PROVE  NodeInv'
  BY <1>6 DEF LockToDelete, IInv, NodeInv, Joined, Size, InList, Goto, memory,
     history
<1>7. ASSUME NEW c \in Consumers, FindEmpty(c)
      PROVE  NodeInv'
  BY <1>7 DEF FindEmpty, IInv, MutexInv, NodeInv, Joined, Size, InList, Goto,
     memory, history
<1>8. ASSUME NEW c \in Consumers, UnlinkLast(c)
      PROVE  NodeInv'
  <2>1. UnlinkFacts
    BY <1>8, UnlinkStep DEF UnlinkLast
  <2> QED BY <1>8, <2>1 DEF UnlinkFacts, UnlinkLast, IInv, TypeOK, MutexInv,
             NodeInv, Threads, Goto, memory, Assumptions, NullAssumption
<1>9. ASSUME NEW c \in Consumers, UnlinkFirst(c)
      PROVE  NodeInv'
  <2>1. UnlinkFacts
    BY <1>9, UnlinkStep DEF UnlinkFirst
  <2> QED BY <1>9, <2>1 DEF UnlinkFacts, UnlinkFirst, IInv, TypeOK, MutexInv,
             NodeInv, Threads, Goto, memory
<1>10. ASSUME NEW c \in Consumers, ClearTail(c)
      PROVE  NodeInv'
  BY <1>10 DEF ClearTail, IInv, NodeInv, NothingLeaks, Size, InList, Goto,
     memory, history
<1>11. ASSUME NEW c \in Consumers, TakeItem(c)
      PROVE  NodeInv'
  BY <1>11 DEF TakeItem, IInv, MutexInv, NodeInv, NothingLeaks, Size, InList,
     Goto, memory, history
<1>12. ASSUME NEW c \in Consumers, UnlockDelete(c)
      PROVE  NodeInv'
  BY <1>12 DEF UnlockDelete, IInv, NodeInv, Joined, Size, InList, Goto, memory,
     history
<1>13. ASSUME NEW c \in Consumers, FreeNode(c)
      PROVE  NodeInv'
  BY <1>13 DEF FreeNode, IInv, TypeOK, NodeInv, NothingLeaks, Threads, Joined,
     Size, InList, Goto, history, Assumptions, NullAssumption
<1>14. ASSUME NEW t \in Threads, Stop(t)
      PROVE  NodeInv'
  BY <1>14 DEF Stop, IInv, NodeInv, Joined, Size, InList, Goto, memory, history
<1>15. CASE FreeListNode
  <2>1. UnlinkFacts
    BY <1>15, UnlinkStep DEF FreeListNode
  <2> QED BY <1>15, <2>1 DEF UnlinkFacts, FreeListNode, IInv, NodeInv, Threads,
             Joined
<1>16. CASE FreeList
  BY <1>16 DEF FreeList, IInv, ListInv, NodeInv, NothingLeaks, Threads, Joined,
     Size, InList, history, Assumptions, ThreadsAssumption
<1>17. CASE UNCHANGED vars
  BY <1>17 DEF vars, IInv, NodeInv, Joined, Size, InList, memory, history
<1> QED BY <1>1, <1>2, <1>3, <1>4, <1>5, <1>6, <1>7, <1>8, <1>9, <1>10, <1>11,
           <1>12, <1>13, <1>14, <1>15, <1>16, <1>17 DEF Next, ProducerStep,
   ConsumerStep

(* Every address in use keeps one owner.                                   *)
LEMMA OwnersPreserved ==
  ASSUME Assumptions, IInv, [Next]_vars
  PROVE  NothingLeaks'
<1>1. ASSUME NEW p \in Producers, CreateNode(p)
      PROVE  NothingLeaks'
  <2>1. PICK n \in Nodes \ allocated :
          /\ allocated' = allocated \cup {n}
          /\ node' = [node EXCEPT ![p] = n]
    BY <1>1 DEF CreateNode
  <2>2. pc[p] = "idle" /\ node[p] = NULL /\ UNCHANGED <<linked, freed>>
    BY <1>1 DEF CreateNode, Goto, history, IInv, NodeInv
  <2>3. /\ node \in [Threads -> Pointers] /\ allocated \subseteq Nodes
        /\ \A d \in Consumers : d \in Threads /\ d \notin Producers
        /\ \A q \in Producers : q \in Threads /\ q \notin Consumers
        /\ \A t \in Threads : t \in Producers \/ t \in Consumers
        /\ NULL \notin Nodes
    BY DEF IInv, TypeOK, Threads, Assumptions, ThreadsAssumption, NullAssumption
  <2>4. /\ \A a \in allocated : InList(a) \/ \E t \in Threads : node[t] = a
        /\ \A i, j \in 1 .. Size : linked[i] = linked[j] => i = j
        /\ \A s, t \in Threads : node[s] = node[t] /\ node[s] # NULL => s = t
        /\ \A d \in Consumers : ~InList(node[d])
        /\ freed => allocated = {}
    BY DEF IInv, NothingLeaks
  <2>5. \A m : (\E i \in 1 .. Size' : linked'[i] = m) <=> InList(m)
    BY <2>2 DEF InList, Size
  <2>6. ~InList(n) /\ \A t \in Threads : node[t] # n
    <3>1. ~InList(n)
      BY <2>1 DEF IInv, NodeInv
    <3>2. ASSUME NEW t \in Producers
          PROVE  node[t] # n
      <4>1. CASE pc[t] \in {"set_tail", "unlock"}
        <5>1. linked # <<>> /\ node[t] = linked[Size] /\ linked \in Seq(Nodes)
          BY <4>1 DEF IInv, TypeOK, NodeInv
        <5>2. Size \in 1 .. Size
          BY <5>1, EmptyFacts DEF Size
        <5> QED BY <3>1, <5>1, <5>2 DEF InList
      <4>2. CASE pc[t] \in {"lock", "link"}
        BY <2>1, <4>2 DEF IInv, NodeInv
      <4>3. CASE pc[t] \in {"idle", "ended"}
        BY <2>1, <2>3, <4>3 DEF IInv, NodeInv
      <4> QED BY <2>3, <4>1, <4>2, <4>3 DEF IInv, TypeOK, MutexInv
    <3>3. ASSUME NEW t \in Consumers
          PROVE  node[t] # n
      <4>1. CASE pc[t] \in {"clear_tail", "take", "unlock", "free"}
        BY <2>1, <2>3, <4>1 DEF IInv, NodeInv
      <4>2. CASE pc[t] \in {"idle", "unlink", "ended"}
        BY <2>1, <2>3, <4>2 DEF IInv, NodeInv
      <4> QED BY <2>3, <4>1, <4>2 DEF IInv, TypeOK, MutexInv
    <3> QED BY <2>3, <3>1, <3>2, <3>3
  <2>7. node'[p] = n /\ \A t \in Threads : t # p => node'[t] = node[t]
    BY <2>1, <2>3
  <2>8. ~freed'
    BY <2>2, <2>3 DEF IInv, NodeInv, Joined
  <2>9. \A m \in allocated' : InList(m)' \/ \E t \in Threads : node'[t] = m
    <3>1. ASSUME NEW m \in allocated'
          PROVE  (\E i \in 1 .. Size' : linked'[i] = m) \/ \E t \in Threads : node'[t] = m
      BY <2>1, <2>2, <2>3, <2>4, <2>5, <2>7
    <3> QED BY <3>1 DEF InList
  <2>10. \A s, t \in Threads : node'[s] = node'[t] /\ node'[s] # NULL => s = t
    BY <2>4, <2>6, <2>7
  <2>11. \A c \in Consumers : ~(\E i \in 1 .. Size' : linked'[i] = node'[c])
    BY <2>3, <2>4, <2>5, <2>7
  <2> QED BY <2>2, <2>4, <2>8, <2>9, <2>10, <2>11 DEF NothingLeaks, InList, Size
<1>2. ASSUME NEW p \in Producers, LockToAdd(p)
      PROVE  NothingLeaks'
  BY <1>2 DEF LockToAdd, IInv, NothingLeaks, Size, InList, memory, history
<1>3. ASSUME NEW p \in Producers, Link(p)
      PROVE  NothingLeaks'
  <2>1. LinkFacts(p)
    BY <1>3, LinkStep
  <2>2. UNCHANGED <<allocated, node, freed>> /\ pc[p] = "link"
    BY <1>3 DEF Link, Goto
  <2>3. /\ node \in [Threads -> Pointers] /\ allocated \subseteq Nodes
        /\ \A d \in Consumers : d \in Threads /\ d \notin Producers
        /\ \A q \in Producers : q \in Threads /\ q \notin Consumers
        /\ \A t \in Threads : t \in Producers \/ t \in Consumers
        /\ NULL \notin Nodes
    BY DEF IInv, TypeOK, Threads, Assumptions, ThreadsAssumption, NullAssumption
  <2>4. /\ \A a \in allocated : InList(a) \/ \E t \in Threads : node[t] = a
        /\ \A i, j \in 1 .. Size : linked[i] = linked[j] => i = j
        /\ \A s, t \in Threads : node[s] = node[t] /\ node[s] # NULL => s = t
        /\ \A d \in Consumers : ~InList(node[d])
        /\ freed => allocated = {}
    BY DEF IInv, NothingLeaks
  <2>5. \A m : (\E i \in 1 .. Size' : linked'[i] = m) <=> InList(m) \/ m = node[p]
    BY <2>1 DEF LinkFacts, InList
  <2>6. \A m \in allocated' :
          (\E i \in 1 .. Size' : linked'[i] = m) \/ \E t \in Threads : node'[t] = m
    BY <2>2, <2>4, <2>5
  <2>7. \A c \in Consumers : ~(\E i \in 1 .. Size' : linked'[i] = node'[c])
    <3>1. \A c \in Consumers : node[c] # node[p]
      BY <2>1, <2>3, <2>4 DEF LinkFacts
    <3> QED BY <2>2, <2>4, <2>5, <3>1
  <2>8. \A i, j \in 1 .. Size' : linked'[i] = linked'[j] => i = j
    BY <2>1 DEF LinkFacts
  <2> QED BY <2>2, <2>4, <2>6, <2>7, <2>8 DEF NothingLeaks, InList
<1>4. ASSUME NEW p \in Producers, SetTail(p)
      PROVE  NothingLeaks'
  BY <1>4 DEF SetTail, IInv, NothingLeaks, Size, InList, memory, history
<1>5. ASSUME NEW p \in Producers, UnlockAdd(p)
      PROVE  NothingLeaks'
  <2>1. /\ node' = [node EXCEPT ![p] = NULL] /\ pc[p] = "unlock"
        /\ UNCHANGED <<allocated, linked, freed>>
    BY <1>5 DEF UnlockAdd, Goto, history, memory
  <2>2. InList(node[p])
    <3>1. linked # <<>> /\ node[p] = linked[Size] /\ linked \in Seq(Nodes)
      BY <2>1 DEF IInv, TypeOK, NodeInv
    <3>2. Size \in 1 .. Size
      BY <3>1, EmptyFacts DEF Size
    <3> QED BY <3>1, <3>2 DEF InList
  <2>3. /\ node \in [Threads -> Pointers] /\ allocated \subseteq Nodes
        /\ \A d \in Consumers : d \in Threads /\ d \notin Producers
        /\ \A q \in Producers : q \in Threads /\ q \notin Consumers
        /\ \A t \in Threads : t \in Producers \/ t \in Consumers
        /\ NULL \notin Nodes
    BY DEF IInv, TypeOK, Threads, Assumptions, ThreadsAssumption, NullAssumption
  <2>4. /\ \A a \in allocated : InList(a) \/ \E t \in Threads : node[t] = a
        /\ \A i, j \in 1 .. Size : linked[i] = linked[j] => i = j
        /\ \A s, t \in Threads : node[s] = node[t] /\ node[s] # NULL => s = t
        /\ \A d \in Consumers : ~InList(node[d])
        /\ freed => allocated = {}
    BY DEF IInv, NothingLeaks
  <2>5. \A m : (\E i \in 1 .. Size' : linked'[i] = m) <=> InList(m)
    BY <2>1 DEF InList, Size
  <2>6. node'[p] = NULL /\ \A t \in Threads : t # p => node'[t] = node[t]
    BY <2>1, <2>3
  <2>7. \A m \in allocated' :
          (\E i \in 1 .. Size' : linked'[i] = m) \/ \E t \in Threads : node'[t] = m
    BY <2>1, <2>2, <2>3, <2>4, <2>5, <2>6
  <2>8. \A s, t \in Threads : node'[s] = node'[t] /\ node'[s] # NULL => s = t
    BY <2>4, <2>6
  <2>9. \A c \in Consumers : ~(\E i \in 1 .. Size' : linked'[i] = node'[c])
    BY <2>3, <2>4, <2>5, <2>6
  <2> QED BY <2>1, <2>4, <2>7, <2>8, <2>9 DEF NothingLeaks, InList, Size
<1>6. ASSUME NEW c \in Consumers, LockToDelete(c)
      PROVE  NothingLeaks'
  BY <1>6 DEF LockToDelete, IInv, NothingLeaks, Size, InList, memory, history
<1>7. ASSUME NEW c \in Consumers, FindEmpty(c)
      PROVE  NothingLeaks'
  BY <1>7 DEF FindEmpty, IInv, NothingLeaks, Size, InList, memory, history
<1>8. ASSUME NEW c \in Consumers, UnlinkLast(c)
      PROVE  NothingLeaks'
  <2>1. UnlinkFacts
    BY <1>8, UnlinkStep DEF UnlinkLast
  <2>2. /\ node' = [node EXCEPT ![c] = head] /\ pc[c] = "unlink" /\ node[c] = NULL
        /\ UNCHANGED <<allocated, freed>>
    BY <1>8 DEF UnlinkLast, Goto, memory, IInv, NodeInv
  <2>3. /\ node \in [Threads -> Pointers] /\ allocated \subseteq Nodes
        /\ \A d \in Consumers : d \in Threads /\ d \notin Producers
        /\ \A q \in Producers : q \in Threads /\ q \notin Consumers
        /\ \A t \in Threads : t \in Producers \/ t \in Consumers
        /\ NULL \notin Nodes
    BY DEF IInv, TypeOK, Threads, Assumptions, ThreadsAssumption, NullAssumption
  <2>4. /\ \A a \in allocated : InList(a) \/ \E t \in Threads : node[t] = a
        /\ \A i, j \in 1 .. Size : linked[i] = linked[j] => i = j
        /\ \A s, t \in Threads : node[s] = node[t] /\ node[s] # NULL => s = t
        /\ \A d \in Consumers : ~InList(node[d])
        /\ freed => allocated = {}
    BY DEF IInv, NothingLeaks
  <2>5. \A m : (\E i \in 1 .. Size' : linked'[i] = m) <=> InList(m) /\ m # head
    BY <2>1 DEF UnlinkFacts, InList
  <2>6. node'[c] = head /\ \A t \in Threads : t # c => node'[t] = node[t]
    BY <2>2, <2>3
  <2>7. \A t \in Threads : node[t] # head
    <3>1. mutex = c
      BY <2>2, <2>3 DEF IInv, MutexInv
    <3>2. ASSUME NEW t \in Producers
          PROVE  node[t] # head
      <4>1. pc[t] \in {"idle", "ended", "lock"}
        BY <2>3, <3>1 DEF IInv, MutexInv, TypeOK
      <4>2. InList(head) /\ head # NULL
        BY <2>1, <2>3 DEF UnlinkFacts
      <4> QED BY <4>1, <4>2 DEF IInv, NodeInv
    <3>3. \A t \in Consumers : node[t] # head
      BY <2>1, <2>4 DEF UnlinkFacts
    <3> QED BY <2>3, <3>2, <3>3
  <2>8. \A m \in allocated' :
          (\E i \in 1 .. Size' : linked'[i] = m) \/ \E t \in Threads : node'[t] = m
    BY <2>2, <2>3, <2>4, <2>5, <2>6
  <2>9. \A s, t \in Threads : node'[s] = node'[t] /\ node'[s] # NULL => s = t
    BY <2>4, <2>6, <2>7
  <2>10. \A d \in Consumers : ~(\E i \in 1 .. Size' : linked'[i] = node'[d])
    BY <2>3, <2>4, <2>5, <2>6
  <2>11. \A i, j \in 1 .. Size' : linked'[i] = linked'[j] => i = j
    BY <2>1 DEF UnlinkFacts
  <2> QED BY <2>2, <2>4, <2>8, <2>9, <2>10, <2>11 DEF NothingLeaks, InList
<1>9. ASSUME NEW c \in Consumers, UnlinkFirst(c)
      PROVE  NothingLeaks'
  <2>1. UnlinkFacts
    BY <1>9, UnlinkStep DEF UnlinkFirst
  <2>2. /\ node' = [node EXCEPT ![c] = head] /\ pc[c] = "unlink" /\ node[c] = NULL
        /\ UNCHANGED <<allocated, freed>>
    BY <1>9 DEF UnlinkFirst, Goto, memory, IInv, NodeInv
  <2>3. /\ node \in [Threads -> Pointers] /\ allocated \subseteq Nodes
        /\ \A d \in Consumers : d \in Threads /\ d \notin Producers
        /\ \A q \in Producers : q \in Threads /\ q \notin Consumers
        /\ \A t \in Threads : t \in Producers \/ t \in Consumers
        /\ NULL \notin Nodes
    BY DEF IInv, TypeOK, Threads, Assumptions, ThreadsAssumption, NullAssumption
  <2>4. /\ \A a \in allocated : InList(a) \/ \E t \in Threads : node[t] = a
        /\ \A i, j \in 1 .. Size : linked[i] = linked[j] => i = j
        /\ \A s, t \in Threads : node[s] = node[t] /\ node[s] # NULL => s = t
        /\ \A d \in Consumers : ~InList(node[d])
        /\ freed => allocated = {}
    BY DEF IInv, NothingLeaks
  <2>5. \A m : (\E i \in 1 .. Size' : linked'[i] = m) <=> InList(m) /\ m # head
    BY <2>1 DEF UnlinkFacts, InList
  <2>6. node'[c] = head /\ \A t \in Threads : t # c => node'[t] = node[t]
    BY <2>2, <2>3
  <2>7. \A t \in Threads : node[t] # head
    <3>1. mutex = c
      BY <2>2, <2>3 DEF IInv, MutexInv
    <3>2. ASSUME NEW t \in Producers
          PROVE  node[t] # head
      <4>1. pc[t] \in {"idle", "ended", "lock"}
        BY <2>3, <3>1 DEF IInv, MutexInv, TypeOK
      <4>2. InList(head) /\ head # NULL
        BY <2>1, <2>3 DEF UnlinkFacts
      <4> QED BY <4>1, <4>2 DEF IInv, NodeInv
    <3>3. \A t \in Consumers : node[t] # head
      BY <2>1, <2>4 DEF UnlinkFacts
    <3> QED BY <2>3, <3>2, <3>3
  <2>8. \A m \in allocated' :
          (\E i \in 1 .. Size' : linked'[i] = m) \/ \E t \in Threads : node'[t] = m
    BY <2>2, <2>3, <2>4, <2>5, <2>6
  <2>9. \A s, t \in Threads : node'[s] = node'[t] /\ node'[s] # NULL => s = t
    BY <2>4, <2>6, <2>7
  <2>10. \A d \in Consumers : ~(\E i \in 1 .. Size' : linked'[i] = node'[d])
    BY <2>3, <2>4, <2>5, <2>6
  <2>11. \A i, j \in 1 .. Size' : linked'[i] = linked'[j] => i = j
    BY <2>1 DEF UnlinkFacts
  <2> QED BY <2>2, <2>4, <2>8, <2>9, <2>10, <2>11 DEF NothingLeaks, InList
<1>10. ASSUME NEW c \in Consumers, ClearTail(c)
      PROVE  NothingLeaks'
  BY <1>10 DEF ClearTail, IInv, NothingLeaks, Size, InList, memory, history
<1>11. ASSUME NEW c \in Consumers, TakeItem(c)
      PROVE  NothingLeaks'
  BY <1>11 DEF TakeItem, IInv, NothingLeaks, Size, InList, memory, history
<1>12. ASSUME NEW c \in Consumers, UnlockDelete(c)
      PROVE  NothingLeaks'
  BY <1>12 DEF UnlockDelete, IInv, NothingLeaks, Size, InList, Unlock, memory,
     history
<1>13. ASSUME NEW c \in Consumers, FreeNode(c)
      PROVE  NothingLeaks'
  BY <1>13 DEF FreeNode, IInv, TypeOK, MutexInv, NothingLeaks, Size, InList,
     Goto, history, Assumptions, ThreadsAssumption, NullAssumption
<1>14. ASSUME NEW t \in Threads, Stop(t)
      PROVE  NothingLeaks'
  BY <1>14 DEF Stop, IInv, NothingLeaks, Size, InList, memory, history
<1>15. CASE FreeListNode
  <2>1. UnlinkFacts
    BY <1>15, UnlinkStep DEF FreeListNode
  <2>2. /\ ~freed /\ allocated' = allocated \ {head}
        /\ UNCHANGED <<node, freed>>
    BY <1>15 DEF FreeListNode
  <2>3. /\ node \in [Threads -> Pointers] /\ allocated \subseteq Nodes
        /\ \A d \in Consumers : d \in Threads /\ d \notin Producers
        /\ \A q \in Producers : q \in Threads /\ q \notin Consumers
        /\ \A t \in Threads : t \in Producers \/ t \in Consumers
        /\ NULL \notin Nodes
    BY DEF IInv, TypeOK, Threads, Assumptions, ThreadsAssumption, NullAssumption
  <2>4. /\ \A a \in allocated : InList(a) \/ \E t \in Threads : node[t] = a
        /\ \A i, j \in 1 .. Size : linked[i] = linked[j] => i = j
        /\ \A s, t \in Threads : node[s] = node[t] /\ node[s] # NULL => s = t
        /\ \A d \in Consumers : ~InList(node[d])
        /\ freed => allocated = {}
    BY DEF IInv, NothingLeaks
  <2>5. \A t \in Threads : node[t] = NULL
    BY <1>15 DEF FreeListNode, Joined, Threads, IInv, NodeInv
  <2>6. \A m : (\E i \in 1 .. Size' : linked'[i] = m) <=> InList(m) /\ m # head
    BY <2>1 DEF UnlinkFacts, InList
  <2>7. \A m \in allocated' : \E i \in 1 .. Size' : linked'[i] = m
    BY <2>2, <2>3, <2>4, <2>5, <2>6
  <2>8. \A d \in Consumers : ~(\E i \in 1 .. Size' : linked'[i] = node'[d])
    BY <2>2, <2>4, <2>6
  <2>9. \A i, j \in 1 .. Size' : linked'[i] = linked'[j] => i = j
    BY <2>1 DEF UnlinkFacts
  <2> QED BY <2>2, <2>4, <2>7, <2>8, <2>9 DEF NothingLeaks, InList
<1>16. CASE FreeList
  <2>1. head = NULL /\ UNCHANGED <<allocated, linked, node>>
    BY <1>16 DEF FreeList, memory, history
  <2>2. /\ node \in [Threads -> Pointers] /\ allocated \subseteq Nodes
        /\ \A d \in Consumers : d \in Threads /\ d \notin Producers
        /\ \A q \in Producers : q \in Threads /\ q \notin Consumers
        /\ \A t \in Threads : t \in Producers \/ t \in Consumers
        /\ NULL \notin Nodes
    BY DEF IInv, TypeOK, Threads, Assumptions, ThreadsAssumption, NullAssumption
  <2>3. /\ \A a \in allocated : InList(a) \/ \E t \in Threads : node[t] = a
        /\ \A i, j \in 1 .. Size : linked[i] = linked[j] => i = j
        /\ \A s, t \in Threads : node[s] = node[t] /\ node[s] # NULL => s = t
        /\ \A d \in Consumers : ~InList(node[d])
        /\ freed => allocated = {}
    BY DEF IInv, NothingLeaks
  <2>4. \A t \in Threads : node[t] = NULL
    BY <1>16 DEF FreeList, Joined, Threads, IInv, NodeInv
  <2>5. Size = 0
    <3>1. linked \in Seq(Nodes) /\ head = IF linked = <<>> THEN NULL ELSE linked[1]
      BY DEF IInv, TypeOK, ListInv
    <3>2. Size # 0 => linked # <<>> /\ linked[1] \in Nodes
      BY <3>1, EmptyFacts DEF Size
    <3>3. Size \in Nat
      BY <3>1, EmptyFacts DEF Size
    <3> QED BY <2>1, <2>2, <3>1, <3>2, <3>3
  <2>6. \A m : ~InList(m)
    BY <2>5 DEF InList
  <2>7. allocated = {}
    BY <2>2, <2>3, <2>4, <2>6
  <2>8. Size' = Size
    BY <2>1 DEF Size
  <2>9. \A c \in Consumers : ~InList(node[c])'
    BY <2>1, <2>3, <2>8 DEF InList
  <2> QED BY <2>1, <2>3, <2>7, <2>8, <2>9 DEF NothingLeaks
<1>17. CASE UNCHANGED vars
  BY <1>17 DEF vars, IInv, NothingLeaks, Size, InList, memory, history
<1> QED BY <1>1, <1>2, <1>3, <1>4, <1>5, <1>6, <1>7, <1>8, <1>9, <1>10, <1>11,
           <1>12, <1>13, <1>14, <1>15, <1>16, <1>17 DEF Next, ProducerStep,
   ConsumerStep

-----------------------------------------------------------------------------
(* The empty list of init_batch_list.                                      *)
LEMMA InitInv ==
  ASSUME Assumptions, Init
  PROVE  IInv
<1> USE DEF Init, Assumptions, ThreadsAssumption, NullAssumption,
            MaxItemsAssumption, Threads
<1>1. Size = 0 /\ linked \in Seq(Nodes)
  BY EmptySeq DEF Size
<1>2. TypeOK
  <2>1. heap \in [Nodes -> [item : Items \cup {Nothing}, next : Pointers]]
    BY DEF Pointers
  <2>2. added \in [Producers -> 0 .. MaxItems] /\ result \in [Consumers -> Items \cup {NULL}]
    OBVIOUS
  <2>3. node \in [Threads -> Pointers] /\ pc \in [Threads -> {"idle"}]
    BY DEF Pointers
  <2> QED BY <1>1, <2>1, <2>2, <2>3 DEF TypeOK, Pointers
<1>3. ListInv
  BY <1>1 DEF ListInv
<1>4. MutexInv
  BY DEF MutexInv
<1>5. NodeInv /\ NothingLeaks
  BY <1>1 DEF NodeInv, NothingLeaks, InList
<1> QED BY <1>2, <1>3, <1>4, <1>5 DEF IInv

(* The last node is linked, and so allocated.                              *)
LEMMA LastInList ==
  ASSUME IInv, linked # <<>>
  PROVE  InList(linked[Size]) /\ InList(linked[1])
<1>1. linked \in Seq(Nodes)
  BY DEF IInv, TypeOK
<1>2. 1 \in 1 .. Size /\ Size \in 1 .. Size
  BY <1>1, EmptyFacts DEF Size
<1> QED BY <1>2 DEF InList

(* Whatever a thread is about to touch is allocated.                       *)
LEMMA TouchesAllocated ==
  ASSUME Assumptions, IInv
  PROVE  NoUseAfterFree
<1>1. ASSUME linked # <<>>
      PROVE  linked[1] \in allocated /\ linked[Size] \in allocated
  <2>1. InList(linked[Size]) /\ InList(linked[1])
    BY <1>1, LastInList
  <2>2. linked[1] \in Nodes /\ linked[Size] \in Nodes
    BY <1>1, EmptyFacts, LenProperties DEF IInv, TypeOK, Size
  <2> QED BY <2>1, <2>2 DEF IInv, NodeInv
<1>2. head # NULL => linked # <<>> /\ head = linked[1]
  BY DEF IInv, ListInv
<1>3. ASSUME NEW p \in Producers
      PROVE  /\ pc[p] \in {"lock", "link", "set_tail"} => node[p] \in allocated
             /\ pc[p] = "link" /\ tail # NULL => tail \in allocated
  <2>1. pc[p] \in {"lock", "link", "set_tail"} => node[p] \in allocated
    BY <1>1 DEF IInv, NodeInv
  <2>2. ASSUME pc[p] = "link", tail # NULL
        PROVE  tail \in allocated
    <3>1. \A t \in Threads : pc[t] \notin {"set_tail", "clear_tail"}
      BY <2>2 DEF IInv, MutexInv, Threads
    <3>2. ~Joined
      BY <2>2 DEF Joined, Threads
    <3>3. linked # <<>> /\ tail = linked[Size]
      BY <2>2, <3>1, <3>2 DEF IInv, ListInv
    <3> QED BY <1>1, <3>3
  <2> QED BY <2>1, <2>2
<1>4. ASSUME NEW c \in Consumers
      PROVE  /\ pc[c] \in {"clear_tail", "take"} => node[c] \in allocated
             /\ pc[c] = "free" /\ node[c] # NULL => node[c] \in allocated
  BY DEF IInv, NodeInv
<1> QED BY <1>1, <1>2, <1>3, <1>4 DEF NoUseAfterFree

(* In every reachable state the pointers are those of the list in the      *)
(* order of the additions, no thread touches a freed node, and every       *)
(* address in use has one owner, so that the freed list leaves nothing     *)
(* (batch_list.c, transaction_list.c).                                     *)
THEOREM Invariance == Spec => []QueueInv
<1> Assumptions
  BY QueueAssumptions DEF Assumptions
<1>1. Init => IInv
  BY InitInv
<1>2. IInv /\ [Next]_vars => IInv'
  BY TypePreserved, MutexPreserved, ListPreserved, NodePreserved,
     OwnersPreserved DEF IInv
<1>3. IInv => QueueInv
  BY TouchesAllocated DEF QueueInv
<1> QED BY <1>1, <1>2, <1>3, PTL DEF Spec

-----------------------------------------------------------------------------
(* The items of the list as a sequence.                                    *)
ItemsFacts ==
  /\ items \in Seq(Items) /\ Len(items) = Size /\ Size \in Nat
  /\ \A i \in 1 .. Size : items[i] = heap[linked[i]].item

(* They are one in every state of the invariant.                           *)
LEMMA ItemsSeq == IInv => ItemsFacts
<1> SUFFICES ASSUME IInv
             PROVE  ItemsFacts
  OBVIOUS
<1>1. Size \in Nat /\ \A i \in 1 .. Size : linked[i] \in Nodes
  BY EmptyFacts DEF IInv, TypeOK, Size
<1>2. ASSUME NEW i \in 1 .. Size
      PROVE  heap[linked[i]].item \in Items
  BY <1>1 DEF IInv, NodeInv, InList
<1> QED BY <1>1, <1>2 DEF items, ItemsFacts

(* Steps that neither link nor unlink leave the queue alone.               *)
LEMMA SameItems ==
  ASSUME UNCHANGED linked, \A n : InList(n) => heap'[n].item = heap[n].item
  PROVE  items' = items
<1>1. Size' = Size /\ linked' = linked
  BY DEF Size
<1>2. \A i \in 1 .. Size : heap'[linked[i]].item = heap[linked[i]].item
  BY DEF InList
<1> QED BY <1>1, <1>2 DEF items

(* The first write of add_node is the addition.                            *)
LEMMA LinkAdds ==
  ASSUME Assumptions, IInv, IInv', NEW p \in Producers, Link(p)
  PROVE  items' = Append(items, <<p, added[p] + 1>>)
<1>1. LinkFacts(p)
  BY LinkStep
<1>2. /\ items \in Seq(Items) /\ Len(items) = Size /\ Size \in Nat
      /\ \A i \in 1 .. Size : items[i] = heap[linked[i]].item
  BY ItemsSeq DEF ItemsFacts
<1>3. /\ items' \in Seq(Items) /\ Len(items') = Size'
      /\ \A i \in 1 .. Size' : items'[i] = heap'[linked'[i]].item
  <2>1. ItemsFacts'
    BY ItemsSeq, PTL
  <2> QED BY <2>1 DEF ItemsFacts
<1>4. <<p, added[p] + 1>> \in Items
  <2>1. heap[node[p]].item = <<p, added[p] + 1>> /\ heap'[node[p]].item = heap[node[p]].item
    BY <1>1 DEF LinkFacts
  <2>2. added[p] \in 0 .. MaxItems /\ added[p] < MaxItems
    BY DEF IInv, TypeOK, NodeInv, Link, Goto
  <2> QED BY <2>2 DEF Items, Assumptions, MaxItemsAssumption
<1>5. /\ Append(items, <<p, added[p] + 1>>) \in Seq(Items)
      /\ Len(Append(items, <<p, added[p] + 1>>)) = Size + 1
      /\ \A i \in 1 .. Size : Append(items, <<p, added[p] + 1>>)[i] = items[i]
      /\ Append(items, <<p, added[p] + 1>>)[Size + 1] = <<p, added[p] + 1>>
  BY <1>2, <1>4, AppendFacts
<1>6. ASSUME NEW i \in 1 .. Size + 1
      PROVE  items'[i] = Append(items, <<p, added[p] + 1>>)[i]
  <2>1. items'[i] = heap'[linked'[i]].item
    BY <1>1, <1>3 DEF LinkFacts
  <2>2. CASE i \in 1 .. Size
    BY <1>1, <1>2, <1>5, <2>1, <2>2 DEF LinkFacts
  <2>3. CASE i = Size + 1
    <3>1. heap'[node[p]].item = <<p, added[p] + 1>>
      BY <1>1 DEF LinkFacts
    <3> QED BY <1>1, <1>5, <2>1, <2>3, <3>1 DEF LinkFacts
  <2> QED BY <1>2, <2>2, <2>3
<1>7. Len(items') = Size + 1
  BY <1>1, <1>3 DEF LinkFacts
<1> QED BY <1>3, <1>5, <1>6, <1>7, SeqEqual

(* Moving head is the taking.                                              *)
LEMMA UnlinkTakes ==
  ASSUME IInv, IInv', UnlinkFacts, UNCHANGED heap
  PROVE  items # <<>> /\ Head(items) = heap[head].item /\ items' = Tail(items)
<1>1. /\ items \in Seq(Items) /\ Len(items) = Size /\ Size \in Nat
      /\ \A i \in 1 .. Size : items[i] = heap[linked[i]].item
  BY ItemsSeq DEF ItemsFacts
<1>2. /\ items' \in Seq(Items) /\ Len(items') = Size'
      /\ \A i \in 1 .. Size' : items'[i] = heap'[linked'[i]].item
  <2>1. ItemsFacts'
    BY ItemsSeq, PTL
  <2> QED BY <2>1 DEF ItemsFacts
<1>3. Size \in Nat \ {0} /\ Size' = Size - 1 /\ head = linked[1]
  BY DEF UnlinkFacts
<1>4. items # <<>>
  BY <1>1, <1>3, EmptyFacts
<1>5. Head(items) = heap[head].item
  BY <1>1, <1>3, <1>4
<1>6. /\ Tail(items) \in Seq(Items) /\ Len(Tail(items)) = Size - 1
      /\ \A i \in 1 .. Size - 1 : Tail(items)[i] = items[i + 1]
  BY <1>1, <1>4, TailFacts
<1>7. ASSUME NEW i \in 1 .. Size - 1
      PROVE  items'[i] = Tail(items)[i]
  <2>1. items'[i] = heap[linked'[i]].item /\ linked'[i] = linked[i + 1]
    BY <1>2, <1>3 DEF UnlinkFacts
  <2>2. i + 1 \in 1 .. Size
    BY <1>3
  <2> QED BY <1>1, <1>6, <2>1, <2>2
<1>8. Len(items') = Size - 1
  BY <1>2, <1>3
<1> QED BY <1>2, <1>4, <1>5, <1>6, <1>7, <1>8, SeqEqual

(* The list implements a queue: Link is Add, UnlinkLast and UnlinkFirst     *)
(* are Take, FindEmpty is FindNothing, the last Stop is Close and           *)
(* FreeListNode is Discard; all other steps are not seen.  So each item is *)
(* taken once, in the order of the additions, and a scheduler is told that *)
(* there is none only when there is none.                                  *)
THEOREM Refinement == Spec => ImplementsFifo
<1> Assumptions
  BY QueueAssumptions DEF Assumptions
<1>1. Init => Fifo!Init
  <2> SUFFICES ASSUME Init
               PROVE  Fifo!Init
    OBVIOUS
  <2>1. items = <<>>
    BY EmptySeq DEF Init, items, Size
  <2>2. ~Joined
    BY DEF Init, Joined, Threads, Assumptions, ThreadsAssumption
  <2> QED BY <2>1, <2>2 DEF Init, Fifo!Init, taken, Threads
<1>2. IInv /\ IInv' /\ [Next]_vars => [Fifo!Next]_(Fifo!vars)
  <2> SUFFICES ASSUME IInv, IInv', [Next]_vars
               PROVE  Fifo!Next \/ UNCHANGED <<items, added, taken, Joined>>
    BY DEF Fifo!vars
  <2>0. /\ Producers \subseteq Threads /\ Consumers \subseteq Threads
        /\ Producers \cap Consumers = {} /\ pc = [t \in Threads |-> pc[t]]
        /\ \A c \in Consumers : pc[c] \in {"clear_tail", "take"} => node[c] \in allocated
        /\ \A n : InList(n) => n \in allocated
    <3>1. \A n : InList(n) => n \in Nodes
      BY EmptyFacts DEF IInv, TypeOK, InList, Size
    <3> QED BY <3>1 DEF IInv, TypeOK, NodeInv, Threads, Assumptions,
               ThreadsAssumption
  <2>1. ASSUME NEW t \in Threads, pc[t] # "ended", pc'[t] # "ended"
        PROVE  Joined = FALSE /\ Joined' = FALSE
    BY <2>1 DEF Joined
  <2>2. ASSUME NEW t \in Threads, NEW u, u # "ended", pc[t] # "ended",
               pc' = [pc EXCEPT ![t] = u],
               UNCHANGED <<linked, added, result, heap, node>>,
               pc[t] \in {"clear_tail", "take"} <=> u \in {"clear_tail", "take"}
        PROVE  UNCHANGED <<items, added, taken, Joined>>
    <3>1. items' = items
      BY <2>2, SameItems
    <3>2. taken' = taken
      BY <2>0, <2>2 DEF taken
    <3> QED BY <2>0, <2>1, <2>2, <3>1, <3>2
  <2>3. ASSUME NEW p \in Producers, CreateNode(p)
        PROVE  UNCHANGED <<items, added, taken, Joined>>
    <3>1. PICK n \in Nodes \ allocated :
            /\ node' = [node EXCEPT ![p] = n]
            /\ heap' = [heap EXCEPT ![n] = [item |-> <<p, added[p] + 1>>, next |-> NULL]]
      BY <2>3 DEF CreateNode
    <3>2. /\ pc[p] = "idle" /\ pc' = [pc EXCEPT ![p] = "lock"]
          /\ UNCHANGED <<linked, added, result>>
      BY <2>3 DEF CreateNode, Goto, history
    <3>3. \A m \in allocated : heap'[m] = heap[m]
      BY <3>1 DEF TypeOK
    <3>4. items' = items
      BY <2>0, <3>2, <3>3, SameItems
    <3>5. \A c \in Consumers : pc'[c] = pc[c] /\ node'[c] = node[c]
      BY <2>0, <3>1, <3>2 DEF TypeOK
    <3>6. taken' = taken
      BY <2>0, <3>2, <3>3, <3>5 DEF taken
    <3> QED BY <2>0, <2>1, <3>2, <3>4, <3>6
  <2>4. ASSUME NEW p \in Producers, LockToAdd(p) \/ SetTail(p)
        PROVE  UNCHANGED <<items, added, taken, Joined>>
    <3>1. \E u \in {"link", "unlock"} :
            pc' = [pc EXCEPT ![p] = u] /\ pc[p] \in {"lock", "set_tail"}
      BY <2>4 DEF LockToAdd, SetTail, Goto
    <3>2. UNCHANGED <<linked, added, result, heap, node>>
      BY <2>4 DEF LockToAdd, SetTail, memory, history
    <3> QED BY <2>0, <2>2, <3>1, <3>2
  <2>5. ASSUME NEW p \in Producers, UnlockAdd(p)
        PROVE  UNCHANGED <<items, added, taken, Joined>>
    <3>1. /\ pc[p] = "unlock" /\ pc' = [pc EXCEPT ![p] = "idle"]
          /\ node' = [node EXCEPT ![p] = NULL]
          /\ UNCHANGED <<linked, added, result, heap>>
      BY <2>5 DEF UnlockAdd, Goto, memory, history
    <3>2. items' = items
      BY <3>1, SameItems
    <3>3. \A c \in Consumers : pc'[c] = pc[c] /\ node'[c] = node[c]
      BY <2>0, <3>1 DEF TypeOK
    <3>4. taken' = taken
      BY <3>1, <3>3 DEF taken
    <3> QED BY <2>0, <2>1, <3>1, <3>2, <3>4
  <2>6. ASSUME NEW p \in Producers, Link(p)
        PROVE  Fifo!Add(p)
    <3>1. items' = Append(items, <<p, added[p] + 1>>)
      BY <2>6, LinkAdds
    <3>2. /\ pc[p] = "link" /\ pc' = [pc EXCEPT ![p] = "set_tail"]
          /\ added' = [added EXCEPT ![p] = @ + 1] /\ UNCHANGED <<node, result>>
      BY <2>6 DEF Link, Goto
    <3>3. \A n \in Nodes : heap'[n].item = heap[n].item
      BY <2>6, LinkStep DEF LinkFacts
    <3>4. \A c \in Consumers : pc'[c] = pc[c]
      BY <2>0, <3>2
    <3>5. allocated \subseteq Nodes
      BY DEF IInv, TypeOK
    <3>6. taken' = taken
      BY <2>0, <3>2, <3>3, <3>4, <3>5 DEF taken
    <3>7. Joined = FALSE /\ Joined' = FALSE
      BY <2>0, <2>1, <3>2
    <3> QED BY <3>1, <3>2, <3>6, <3>7 DEF Fifo!Add
  <2>7. ASSUME NEW c \in Consumers,
               LockToDelete(c) \/ ClearTail(c) \/ UnlockDelete(c)
        PROVE  UNCHANGED <<items, added, taken, Joined>>
    <3>1. \/ pc[c] = "idle" /\ pc' = [pc EXCEPT ![c] = "unlink"]
          \/ pc[c] = "clear_tail" /\ pc' = [pc EXCEPT ![c] = "take"]
          \/ pc[c] = "unlock" /\ pc' = [pc EXCEPT ![c] = "free"]
      BY <2>7 DEF LockToDelete, ClearTail, UnlockDelete, Goto
    <3>2. UNCHANGED <<linked, added, result, heap, node>>
      BY <2>7 DEF LockToDelete, ClearTail, UnlockDelete, memory, history
    <3> QED BY <2>0, <2>2, <3>1, <3>2
  <2>8. ASSUME NEW c \in Consumers, FreeNode(c)
        PROVE  UNCHANGED <<items, added, taken, Joined>>
    <3>1. /\ pc[c] = "free" /\ pc' = [pc EXCEPT ![c] = "idle"]
          /\ node' = [node EXCEPT ![c] = NULL]
          /\ UNCHANGED <<linked, added, result, heap>>
      BY <2>8 DEF FreeNode, Goto, history
    <3>2. items' = items
      BY <3>1, SameItems
    <3>3. \A d \in Consumers \ {c} : pc'[d] = pc[d] /\ node'[d] = node[d]
      BY <2>0, <3>1 DEF TypeOK
    <3>4. pc'[c] = "idle"
      BY <2>0, <3>1
    <3>5. taken' = taken
      BY <3>1, <3>3, <3>4 DEF taken
    <3> QED BY <2>0, <2>1, <3>1, <3>2, <3>4, <3>5
  <2>9. ASSUME NEW c \in Consumers, FindEmpty(c)
        PROVE  Fifo!FindNothing(c)
    <3>1. /\ head = NULL /\ pc[c] = "unlink" /\ pc' = [pc EXCEPT ![c] = "unlock"]
          /\ result' = [result EXCEPT ![c] = NULL]
          /\ UNCHANGED <<linked, added, heap, node>>
      BY <2>9 DEF FindEmpty, Goto, memory, history
    <3>2. items = <<>> /\ items' = items
      <4>1. linked = <<>>
        <5>1. linked # <<>> => linked[1] \in Nodes
          BY EmptyFacts, LenProperties DEF IInv, TypeOK
        <5> QED BY <3>1, <5>1 DEF IInv, ListInv, Assumptions, NullAssumption
      <4>2. Size = 0
        BY <4>1, EmptySeq DEF Size
      <4> QED BY <3>1, <4>2, ItemsSeq, EmptyFacts, SameItems DEF ItemsFacts
    <3>3. taken' = [taken EXCEPT ![c] = NULL]
      <4>1. result \in [Consumers -> Items \cup {NULL}]
        BY DEF IInv, TypeOK
      <4>2. pc'[c] = "unlock" /\ \A d \in Consumers \ {c} : pc'[d] = pc[d]
        BY <2>0, <3>1
      <4> QED BY <3>1, <4>1, <4>2 DEF taken
    <3>4. Joined = FALSE /\ Joined' = FALSE
      BY <2>0, <2>1, <3>1
    <3> QED BY <3>1, <3>2, <3>3, <3>4 DEF Fifo!FindNothing
  <2>10. ASSUME NEW c \in Consumers, UnlinkLast(c) \/ UnlinkFirst(c)
         PROVE  Fifo!Take(c)
    <3>1. /\ head # NULL /\ linked' = Tail(linked) /\ pc[c] = "unlink"
          /\ \/ pc' = [pc EXCEPT ![c] = "clear_tail"]
             \/ pc' = [pc EXCEPT ![c] = "take"]
          /\ node' = [node EXCEPT ![c] = head]
          /\ UNCHANGED <<heap, result, added>>
      BY <2>10 DEF UnlinkLast, UnlinkFirst, Goto, memory
    <3>2. items # <<>> /\ Head(items) = heap[head].item /\ items' = Tail(items)
      BY <3>1, UnlinkStep, UnlinkTakes
    <3>3. taken' = [taken EXCEPT ![c] = heap[head].item]
      <4>1. node'[c] = head /\ \A d \in Consumers \ {c} : node'[d] = node[d]
        BY <2>0, <3>1 DEF IInv, TypeOK
      <4>2. /\ pc'[c] \in {"clear_tail", "take"}
            /\ \A d \in Consumers \ {c} : pc'[d] = pc[d]
        BY <2>0, <3>1
      <4>3. \A d \in Consumers \ {c} : taken'[d] = taken[d]
        BY <3>1, <4>1, <4>2 DEF taken
      <4>4. taken'[c] = heap[head].item
        BY <3>1, <4>1, <4>2 DEF taken
      <4>5. /\ taken = [d \in Consumers |-> taken[d]]
            /\ taken' = [d \in Consumers |-> taken'[d]]
        BY DEF taken
      <4> QED BY <4>3, <4>4, <4>5
    <3>4. Joined = FALSE /\ Joined' = FALSE
      BY <2>0, <2>1, <3>1
    <3> QED BY <3>1, <3>2, <3>3, <3>4 DEF Fifo!Take
  <2>11. ASSUME NEW c \in Consumers, TakeItem(c)
         PROVE  UNCHANGED <<items, added, taken, Joined>>
    <3>1. /\ pc[c] = "take" /\ pc' = [pc EXCEPT ![c] = "unlock"]
          /\ result' = [result EXCEPT ![c] = heap[node[c]].item]
          /\ UNCHANGED <<linked, added, heap, node>>
      BY <2>11 DEF TakeItem, Goto, memory, history
    <3>2. items' = items
      BY <3>1, SameItems
    <3>3. pc'[c] = "unlock" /\ \A d \in Consumers \ {c} : pc'[d] = pc[d]
      BY <2>0, <3>1
    <3>4. /\ result'[c] = heap[node[c]].item
          /\ \A d \in Consumers \ {c} : result'[d] = result[d]
      BY <3>1 DEF IInv, TypeOK
    <3>5. taken' = taken
      BY <3>1, <3>3, <3>4 DEF taken
    <3> QED BY <2>0, <2>1, <3>1, <3>2, <3>3, <3>5
  <2>12. ASSUME NEW t \in Threads, Stop(t)
         PROVE  Fifo!Next \/ UNCHANGED <<items, added, taken, Joined>>
    <3>1. /\ pc[t] = "idle" /\ pc' = [pc EXCEPT ![t] = "ended"]
          /\ UNCHANGED <<linked, added, result, heap, node>>
      BY <2>12 DEF Stop, Goto, memory, history
    <3>2. items' = items
      BY <3>1, SameItems
    <3>3. pc'[t] = "ended" /\ \A d \in Threads \ {t} : pc'[d] = pc[d]
      BY <2>0, <3>1
    <3>4. taken' = taken
      BY <2>0, <3>1, <3>3 DEF taken
    <3>5. Joined = FALSE /\ Joined' \in BOOLEAN
      BY <3>1 DEF Joined
    <3>6. CASE Joined'
      BY <3>1, <3>2, <3>4, <3>6 DEF Fifo!Next, Fifo!Close
    <3>7. CASE ~Joined'
      BY <3>1, <3>2, <3>4, <3>5, <3>7
    <3> QED BY <3>6, <3>7
  <2>13. CASE FreeListNode
    <3>1. /\ Joined /\ head # NULL /\ linked' = Tail(linked)
          /\ UNCHANGED <<heap, pc, node, result, added>>
      BY <2>13 DEF FreeListNode
    <3>2. items # <<>> /\ items' = Tail(items)
      BY <3>1, UnlinkStep, UnlinkTakes
    <3>3. taken' = taken /\ Joined'
      BY <3>1 DEF taken, Joined
    <3> QED BY <3>1, <3>2, <3>3 DEF Fifo!Next, Fifo!Discard
  <2>14. CASE FreeList \/ UNCHANGED vars
    <3>1. UNCHANGED <<linked, heap, pc, node, result, added>>
      BY <2>14 DEF FreeList, vars, memory, history
    <3>2. items' = items /\ taken' = taken /\ (Joined' <=> Joined)
      BY <3>1, SameItems DEF taken, Joined
    <3>3. Joined \in BOOLEAN /\ Joined' \in BOOLEAN
      BY DEF Joined
    <3> QED BY <3>1, <3>2, <3>3
  <2> QED BY <2>3, <2>4, <2>5, <2>6, <2>7, <2>8, <2>9, <2>10, <2>11, <2>12,
             <2>13, <2>14 DEF Next, ProducerStep, ConsumerStep, Fifo!Next
<1> QED BY <1>1, <1>2, Invariance, PTL DEF Spec, QueueInv, Fifo!Spec, ImplementsFifo

-----------------------------------------------------------------------------
(* The records of module Storage.                                           *)
HolderInv ==
  \A t \in Callers :
    call_pc[t] \in {"access", "store", "unlock"} => record_mutex[key[t]] = t

LoadedInv ==
  \A w \in Writers : call_pc[w] = "store" => register[w] = value[key[w]]

BeforeInv ==
  \A r \in Readers : call_pc[r] # "idle" => before[r] <= writes[key[r]]

RecordsInv ==
  /\ StorageTypeOK /\ HolderInv /\ LoadedInv /\ BeforeInv
  /\ CountsWrites /\ ReadIsRecent

-----------------------------------------------------------------------------
LEMMA StorageInitInv == StorageInit => RecordsInv
<1> SUFFICES ASSUME StorageInit PROVE RecordsInv
  OBVIOUS
<1>1. StorageTypeOK
  BY HalfAssumption, WritesAssumption DEF StorageInit, StorageTypeOK, Values
<1>2. HolderInv /\ LoadedInv /\ BeforeInv /\ ReadIsRecent
  BY DEF StorageInit, HolderInv, LoadedInv, BeforeInv, ReadIsRecent, Callers
<1>3. CountsWrites
  BY ShortOfZero DEF StorageInit, CountsWrites
<1> QED BY <1>1, <1>2, <1>3 DEF RecordsInv

LEMMA CallWritePreserves ==
  ASSUME RecordsInv, NEW w \in Writers, CallWrite(w) PROVE RecordsInv'
<1> USE DEF RecordsInv, CallWrite, CallGoto, recordHistory
<1> w \in Callers
  BY DEF Callers
<1>1. StorageTypeOK'
  BY WritesAssumption DEF StorageTypeOK
<1>2. HolderInv'
  BY DEF StorageTypeOK, HolderInv
<1>3. LoadedInv'
  BY DEF StorageTypeOK, LoadedInv, Callers
<1>4. BeforeInv' /\ ReadIsRecent'
  BY CallersAssumption DEF StorageTypeOK, BeforeInv, ReadIsRecent, Callers
<1>5. CountsWrites'
  BY DEF CountsWrites
<1> QED BY <1>1, <1>2, <1>3, <1>4, <1>5

LEMMA CallReadPreserves ==
  ASSUME RecordsInv, NEW r \in Readers, CallRead(r) PROVE RecordsInv'
<1> USE DEF RecordsInv, CallRead, CallGoto
<1> r \in Callers
  BY DEF Callers
<1>1. StorageTypeOK'
  BY DEF StorageTypeOK
<1>2. HolderInv'
  BY DEF StorageTypeOK, HolderInv
<1>3. LoadedInv'
  BY CallersAssumption DEF StorageTypeOK, LoadedInv, Callers
<1>4. BeforeInv' /\ ReadIsRecent'
  BY DEF StorageTypeOK, BeforeInv, ReadIsRecent, Callers
<1>5. CountsWrites'
  BY DEF CountsWrites
<1> QED BY <1>1, <1>2, <1>3, <1>4, <1>5

LEMMA LockPreserves ==
  ASSUME RecordsInv, NEW t \in Callers, LockRecord(t) PROVE RecordsInv'
<1> USE DEF RecordsInv, LockRecord, CallGoto, call, recordHistory
<1>1. StorageTypeOK'
  BY DEF StorageTypeOK
<1>2. HolderInv'
  BY CallersAssumption DEF StorageTypeOK, HolderInv
<1>3. LoadedInv' /\ BeforeInv' /\ ReadIsRecent'
  BY DEF StorageTypeOK, LoadedInv, BeforeInv, ReadIsRecent, Callers
<1>4. CountsWrites'
  BY DEF CountsWrites
<1> QED BY <1>1, <1>2, <1>3, <1>4

LEMMA LoadPreserves ==
  ASSUME RecordsInv, NEW t \in Callers, Load(t) PROVE RecordsInv'
<1> USE DEF RecordsInv, Load, CallGoto, call, recordHistory
<1>1. StorageTypeOK'
  BY DEF StorageTypeOK
<1>2. HolderInv'
  BY DEF StorageTypeOK, HolderInv
<1>3. LoadedInv'
  BY DEF StorageTypeOK, LoadedInv, Callers
<1>4. BeforeInv'
  BY DEF StorageTypeOK, BeforeInv, Callers
<1>5. ReadIsRecent'
  <2> SUFFICES ASSUME NEW r \in Readers, call_pc'[r] = "unlock"
               PROVE  (\E n \in before[r] .. writes[key[r]] :
                         register[r] = Short(n))'
    BY DEF ReadIsRecent
  <2>1. CASE r = t
    <3>1. register'[r] = Short(writes[key[r]])
      BY <2>1 DEF StorageTypeOK, CountsWrites
    <3>2. writes[key[r]] \in before[r] .. writes[key[r]]
      BY <2>1 DEF StorageTypeOK, BeforeInv
    <3> QED BY <3>1, <3>2
  <2>2. CASE r # t
    <3>1. r \in Callers /\ call_pc[r] = "unlock" /\ register'[r] = register[r]
      BY <2>2 DEF StorageTypeOK, Callers
    <3> QED BY <3>1 DEF ReadIsRecent
  <2> QED BY <2>1, <2>2
<1>6. CountsWrites'
  BY DEF CountsWrites
<1> QED BY <1>1, <1>2, <1>3, <1>4, <1>5, <1>6

LEMMA StorePreserves ==
  ASSUME RecordsInv, NEW w \in Writers, Store(w) PROVE RecordsInv'
<1> USE DEF RecordsInv, Store, CallGoto, call
<1> w \in Callers /\ key[w] \in Keys
  BY DEF Callers, StorageTypeOK
<1> DEFINE k == key[w]
<1>1. /\ value' = [value EXCEPT ![k] = Short(value[k] + 1)]
      /\ value[k] = Short(writes[k])
      /\ value[k] + 1 \in Int /\ writes[k] \in Nat
  <2>1. register[w] = value[k]
    BY DEF LoadedInv
  <2>2. value[k] \in Int /\ writes[k] \in Nat
    BY HalfAssumption DEF StorageTypeOK, Values
  <2>3. value[k] = Short(writes[k])
    BY DEF CountsWrites
  <2>4. value' = [value EXCEPT ![k] = Short(value[k] + 1)]
    BY <2>1
  <2>5. value[k] + 1 \in Int
    BY <2>2
  <2> HIDE DEF Store, k
  <2> QED BY <2>2, <2>3, <2>4, <2>5
<1>2. StorageTypeOK'
  <2>1. Short(value[k] + 1) \in Values
    BY <1>1, ShortRange
  <2>2. value' \in [Keys -> Values]
    BY <1>1, <2>1 DEF StorageTypeOK
  <2>3. writes' \in [Keys -> Nat]
    BY <1>1 DEF StorageTypeOK
  <2>4. call_pc' \in [Callers -> {"idle", "lock", "access", "store", "unlock"}]
    BY DEF StorageTypeOK
  <2>5. stored' \in [Keys -> Values]
    BY ArgumentsAssumption DEF StorageTypeOK
  <2> QED BY <2>2, <2>3, <2>4, <2>5 DEF StorageTypeOK
<1>3. HolderInv'
  BY DEF StorageTypeOK, HolderInv
<1>4. LoadedInv'
  <2> SUFFICES ASSUME NEW v \in Writers, call_pc'[v] = "store"
               PROVE  register[v] = value'[key[v]]
    BY DEF LoadedInv
  <2>1. v # w /\ call_pc[v] = "store" /\ v \in Callers /\ key[v] \in Keys
    BY DEF StorageTypeOK, Callers
  <2>2. key[v] # k
    BY <2>1 DEF HolderInv
  <2> QED BY <1>1, <2>1, <2>2 DEF StorageTypeOK, LoadedInv
<1>5. \A j \in Keys : /\ writes'[j] \in Nat /\ writes[j] \in Nat
                     /\ writes[j] <= writes'[j]
  BY DEF StorageTypeOK
<1>6. \A r \in Readers : /\ call_pc'[r] = call_pc[r] /\ key[r] \in Keys
                         /\ before[r] \in Nat
  BY CallersAssumption DEF StorageTypeOK, Callers
<1>7. BeforeInv'
  BY <1>5, <1>6 DEF BeforeInv
<1>8. ReadIsRecent'
  <2> SUFFICES ASSUME NEW r \in Readers, call_pc'[r] = "unlock"
               PROVE  \E n \in before[r] .. writes'[key[r]] :
                         register[r] = Short(n)
    BY DEF ReadIsRecent
  <2>1. PICK n \in before[r] .. writes[key[r]] : register[r] = Short(n)
    BY <1>6 DEF ReadIsRecent
  <2>2. n \in before[r] .. writes'[key[r]]
    BY <1>5, <1>6
  <2> QED BY <2>1, <2>2
<1>9. CountsWrites'
  <2> SUFFICES ASSUME NEW j \in Keys PROVE value'[j] = Short(writes'[j])
    BY DEF CountsWrites
  <2>1. CASE j = k
    <3>1. value'[j] = Short(Short(writes[k]) + 1)
      BY <1>1, <2>1 DEF StorageTypeOK
    <3>2. writes'[j] = writes[k] + 1
      BY <2>1 DEF StorageTypeOK
    <3> QED BY <3>1, <3>2, <1>1, ShortOfNext
  <2>2. CASE j # k
    BY <1>1, <2>2 DEF StorageTypeOK, CountsWrites
  <2> QED BY <2>1, <2>2
<1> QED BY <1>2, <1>3, <1>4, <1>7, <1>8, <1>9

LEMMA UnlockPreserves ==
  ASSUME RecordsInv, NEW t \in Callers, UnlockRecord(t) PROVE RecordsInv'
<1> USE DEF RecordsInv, UnlockRecord, CallGoto, call, recordHistory
<1>1. StorageTypeOK'
  BY DEF StorageTypeOK
<1>2. HolderInv'
  BY DEF StorageTypeOK, HolderInv
<1>3. LoadedInv' /\ BeforeInv' /\ ReadIsRecent'
  BY DEF StorageTypeOK, LoadedInv, BeforeInv, ReadIsRecent, Callers
<1>4. CountsWrites'
  BY DEF CountsWrites
<1> QED BY <1>1, <1>2, <1>3, <1>4

LEMMA StorageNextInv == RecordsInv /\ [StorageNext]_storageVars => RecordsInv'
<1> SUFFICES ASSUME RecordsInv, [StorageNext]_storageVars PROVE RecordsInv'
  OBVIOUS
<1>1. CASE UNCHANGED storageVars
  BY <1>1 DEF storageVars, call, recordHistory, RecordsInv, StorageTypeOK, HolderInv,
     LoadedInv, BeforeInv, CountsWrites, ReadIsRecent
<1>2. CASE \E w \in Writers : CallWrite(w)
  BY <1>2, CallWritePreserves
<1>3. CASE \E w \in Writers : Store(w)
  BY <1>3, StorePreserves
<1>4. CASE \E r \in Readers : CallRead(r)
  BY <1>4, CallReadPreserves
<1>5. CASE \E t \in Callers : LockRecord(t)
  BY <1>5, LockPreserves
<1>6. CASE \E t \in Callers : Load(t)
  BY <1>6, LoadPreserves
<1>7. CASE \E t \in Callers : UnlockRecord(t)
  BY <1>7, UnlockPreserves
<1> QED BY <1>1, <1>2, <1>3, <1>4, <1>5, <1>6, <1>7 DEF StorageNext

LEMMA StorageInvariance == StorageSpec => []RecordsInv
<1>1. StorageInit => RecordsInv
  BY StorageInitInv
<1>2. RecordsInv /\ [StorageNext]_storageVars => RecordsInv'
  BY StorageNextInv
<1> QED BY <1>1, <1>2, PTL DEF StorageSpec

(* A read returns the count of the writes at some time during the call,    *)
(* whichever threads write and read at the same time (storage.c:41-53, 66). *)
THEOREM ReadsAreRecent == StorageSpec => []ReadIsRecent
<1>1. RecordsInv => ReadIsRecent
  BY DEF RecordsInv
<1> QED BY <1>1, StorageInvariance, PTL
=============================================================================
