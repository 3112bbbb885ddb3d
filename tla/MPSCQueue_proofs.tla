---------------------------- MODULE MPSCQueue_proofs ----------------------------
(***************************************************************************)
(* Proofs about both queues of MPSCQueue.h, for any numbers of producers,  *)
(* of addresses and of enqueues: whoever is about to write to a node       *)
(* writes to one that is still the queue's, and each atomic operation is a *)
(* step of a first-in first-out queue, or none of its concern.             *)
(*                                                                         *)
(* Both rest on the list the queue is: a sequence of nodes from _tail to   *)
(* _head whose links are in place, or are about to be put in place by the  *)
(* one thread that exchanged the head for the next node.                   *)
(***************************************************************************)
EXTENDS MPSCQueue, Integers, TLAPS

--------------------------------------------------------------------------------
(* Sequences                                                                *)

\* What Append does, index by index.
LEMMA AppendIs ==
    ASSUME NEW S, NEW s \in Seq(S), NEW x \in S
    PROVE  /\ Append(s, x) \in Seq(S) /\ Len(Append(s, x)) = Len(s) + 1
           /\ \A i \in 1..Len(s) : Append(s, x)[i] = s[i]
           /\ Append(s, x)[Len(s) + 1] = x
OBVIOUS

\* What Tail does, index by index.
LEMMA TailIs ==
    ASSUME NEW S, NEW s \in Seq(S), Len(s) > 0
    PROVE  /\ Tail(s) \in Seq(S) /\ Len(Tail(s)) = Len(s) - 1
           /\ \A i \in 1..Len(s) - 1 : Tail(s)[i] = s[i + 1]
OBVIOUS

--------------------------------------------------------------------------------
(* The queue with nodes                                                     *)

\* The list: its first node's value has been handed out, the others carry what is queued.
NodeList(c) ==
    /\ Len(c) = Len(queued) + 1 /\ c[1] = tail /\ c[Len(c)] = head
    /\ \A i, j \in 1..Len(c) : c[i] = c[j] => i = j
    /\ \A i \in 1..Len(c) : c[i] \in live
    /\ \A i \in 1..Len(queued) : queued[i] = data[c[i + 1]] /\ next[c[i]] \in {Null, c[i + 1]}
    /\ next[head] = Null

\* A producer has a node that is not in the list yet, or is about to link its node behind
\* the one that was the head before it.
NodePlaces(c) ==
    \A p \in Producers :
        /\ pc[p] = "idle" => node[p] = Null /\ prev[p] = Null
        /\ pc[p] = "exchange" =>
               /\ node[p] \in live /\ prev[p] = Null /\ next[node[p]] = Null
               /\ \A i \in 1..Len(c) : c[i] # node[p]
        /\ pc[p] = "link" =>
               \E i \in 1..Len(queued) :
                   prev[p] = c[i] /\ node[p] = c[i + 1] /\ next[c[i]] = Null

\* Every producer has a node of its own, and every value is in one node only.
NodesDistinct ==
    /\ \A p, q \in Producers : node[p] = node[q] /\ node[p] # Null => p = q
    /\ \A m \in live \ {tail} : data[m] \in Items
    /\ \A m, n \in live \ {tail} : data[m] = data[n] => m = n

NodeInv ==
    /\ Noded!TypeOK
    /\ NodesDistinct
    /\ \E c \in Seq(Nodes) : NodeList(c) /\ NodePlaces(c)

\* A new queue is its first node.
LEMMA NodeInit == Noded!Init => NodeInv
<1> SUFFICES ASSUME Noded!Init PROVE NodeInv
  OBVIOUS
<1> USE QueueAssumption DEF Noded!Addresses
<1>1. Noded!TypeOK
  BY DEF Noded!Init, Noded!TypeOK
<1>2. NodesDistinct
  BY DEF Noded!Init, NodesDistinct
<1>3. <<FirstNode>> \in Seq(Nodes) /\ Len(<<FirstNode>>) = 1 /\ <<FirstNode>>[1] = FirstNode
  OBVIOUS
<1>4. NodeList(<<FirstNode>>) /\ NodePlaces(<<FirstNode>>)
  BY <1>3 DEF Noded!Init, NodeList, NodePlaces
<1> QED
  BY <1>1, <1>2, <1>3, <1>4 DEF NodeInv

\* Producers put nodes behind the list and link them, the consumer takes the first one off.
LEMMA NodeStep == NodeInv /\ [Noded!Next]_(Noded!vars) => NodeInv'
<1> SUFFICES ASSUME NodeInv, [Noded!Next]_(Noded!vars) PROVE NodeInv'
  OBVIOUS
<1> USE QueueAssumption DEF Noded!Addresses
<1>t. Noded!TypeOK /\ NodesDistinct
  BY DEF NodeInv
<1>q. queued \in Seq(Items) /\ Len(queued) \in Nat
  BY <1>t DEF Noded!TypeOK
<1>c. PICK c \in Seq(Nodes) : NodeList(c) /\ NodePlaces(c)
  BY DEF NodeInv
<1>l. Len(c) \in Nat /\ \A i \in 1..Len(c) : c[i] \in Nodes
  OBVIOUS
<1>1. ASSUME NEW p \in Producers, NEW n \in Nodes, NEW i \in Items, Noded!NewNode(p, n, i)
      PROVE  NodeInv'
  <2>1. Noded!TypeOK'
    BY <1>t, <1>1 DEF Noded!TypeOK, Noded!NewNode
  <2>2. NodesDistinct'
    <3>1. n \notin live /\ tail \in live /\ tail' = tail /\ live' = live \cup {n}
      BY <1>1, <1>c, <1>l, <1>q DEF Noded!NewNode, NodeList
    <3>2. ASSUME NEW r \in Producers PROVE node[r] # n
      <4>1. pc[r] \in {"idle", "exchange", "link"} /\ n # Null
        BY <1>t DEF Noded!TypeOK
      <4>2. CASE pc[r] \in {"idle", "exchange"}
        BY <1>c, <3>1, <4>1, <4>2 DEF NodePlaces
      <4>3. CASE pc[r] = "link"
        <5>1. PICK j \in 1..Len(queued) : node[r] = c[j + 1]
          BY <1>c, <4>3 DEF NodePlaces
        <5>2. j + 1 \in 1..Len(c)
          BY <1>c, <1>l, <1>q DEF NodeList
        <5> QED
          BY <1>c, <3>1, <5>1, <5>2 DEF NodeList
      <4> QED
        BY <4>1, <4>2, <4>3
    <3>3. data'[n] = i /\ \A m \in live : m # n /\ data'[m] = data[m]
      BY <1>t, <1>1, <3>1 DEF Noded!TypeOK, Noded!NewNode
    <3>4. \A m \in live \ {tail} : data[m] # i
      BY <1>1 DEF Noded!NewNode
    <3>5. \A r, q \in Producers : node'[r] = node'[q] /\ node'[r] # Null => r = q
      BY <1>t, <1>1, <3>2 DEF Noded!TypeOK, Noded!NewNode, NodesDistinct
    <3>6. \A m, k \in live' \ {tail'} : data'[m] = data'[k] => m = k
      BY <1>t, <3>1, <3>3, <3>4 DEF NodesDistinct
    <3>7. \A m \in live' \ {tail'} : data'[m] \in Items
      BY <1>t, <3>1, <3>3 DEF NodesDistinct
    <3> QED
      BY <3>5, <3>6, <3>7 DEF NodesDistinct
  <2>3. NodeList(c)'
    BY <1>t, <1>1, <1>c, <1>l, <1>q DEF Noded!TypeOK, Noded!NewNode, NodeList
  <2>4. NodePlaces(c)'
    BY <1>t, <1>1, <1>c, <1>l, <1>q DEF Noded!TypeOK, Noded!NewNode, NodeList, NodePlaces
  <2> QED
    BY <2>1, <2>2, <2>3, <2>4 DEF NodeInv
<1>2. ASSUME NEW p \in Producers, Noded!ExchangeHead(p) PROVE NodeInv'
  <2>1. /\ pc[p] = "exchange" /\ node[p] \in live /\ node[p] \in Nodes /\ node[p] # tail
        /\ data[node[p]] \in Items
    BY <1>t, <1>2, <1>c, <1>l, <1>q
       DEF Noded!TypeOK, Noded!ExchangeHead, NodesDistinct, NodeList, NodePlaces
  <2>2. PICK d \in Seq(Nodes) : d = Append(c, node[p])
    BY <2>1, AppendIs
  <2>3. /\ Len(d) = Len(c) + 1 /\ d[Len(c) + 1] = node[p]
        /\ \A i \in 1..Len(c) : d[i] = c[i]
    BY <2>1, <2>2, AppendIs
  <2>4. /\ queued' \in Seq(Items) /\ Len(queued') = Len(queued) + 1
        /\ queued'[Len(queued) + 1] = data[node[p]]
        /\ \A i \in 1..Len(queued) : queued'[i] = queued[i]
    BY <1>2, <1>q, <2>1, AppendIs DEF Noded!ExchangeHead
  <2>5. Noded!TypeOK'
    BY <1>t, <1>2, <2>1, <2>4 DEF Noded!TypeOK, Noded!ExchangeHead
  <2>6. NodesDistinct'
    BY <1>t, <1>2 DEF Noded!ExchangeHead, NodesDistinct
  <2>e. /\ UNCHANGED <<next, data, live, tail>> /\ head' = node[p] /\ next[node[p]] = Null
        /\ \A i \in 1..Len(c) : c[i] # node[p]
    BY <1>2, <1>c DEF Noded!ExchangeHead, NodePlaces
  <2>7. NodeList(d)'
    <3>1. /\ Len(c) = Len(queued) + 1 /\ c[1] = tail /\ c[Len(c)] = head /\ next[head] = Null
          /\ \A i, j \in 1..Len(c) : c[i] = c[j] => i = j
          /\ \A i \in 1..Len(c) : c[i] \in live
          /\ \A i \in 1..Len(queued) :
                 queued[i] = data[c[i + 1]] /\ next[c[i]] \in {Null, c[i + 1]}
      BY <1>c DEF NodeList
    <3>2. \A i \in 1..Len(d) : i \in 1..Len(c) \/ i = Len(c) + 1
      BY <1>l, <2>3
    <3>3. Len(d) = Len(queued') + 1 /\ d[1] = tail /\ d[Len(d)] = node[p]
      BY <1>l, <1>q, <2>3, <2>4, <3>1
    <3>4. \A i, j \in 1..Len(d) : d[i] = d[j] => i = j
      BY <2>3, <2>e, <3>1, <3>2
    <3>5. \A i \in 1..Len(d) : d[i] \in live
      BY <2>1, <2>3, <3>1, <3>2
    <3>6. ASSUME NEW i \in 1..Len(queued')
          PROVE  queued'[i] = data[d[i + 1]] /\ next[d[i]] \in {Null, d[i + 1]}
      <4>1. CASE i = Len(queued) + 1
        BY <1>l, <1>q, <2>3, <2>4, <3>1, <4>1
      <4>2. CASE i # Len(queued) + 1
        <5>1. i \in 1..Len(queued) /\ i \in 1..Len(c) /\ i + 1 \in 1..Len(c)
          BY <1>l, <1>q, <2>4, <3>1, <4>2
        <5> QED
          BY <2>3, <2>4, <3>1, <5>1
      <4> QED
        BY <4>1, <4>2
    <3> QED
      BY <2>e, <3>3, <3>4, <3>5, <3>6 DEF NodeList
  <2>8. NodePlaces(d)'
    <3>1. ASSUME NEW r \in Producers, r # p PROVE pc'[r] = pc[r] /\ node'[r] = node[r] /\ prev'[r] = prev[r]
      BY <1>t, <1>2, <3>1 DEF Noded!TypeOK, Noded!ExchangeHead
    <3>2. pc'[p] = "link" /\ node'[p] = node[p] /\ prev'[p] = c[Len(c)] /\ next' = next
      BY <1>t, <1>2, <1>c DEF Noded!TypeOK, Noded!ExchangeHead, NodeList
    <3>3. \A i \in 1..Len(d) : i \in 1..Len(c) \/ i = Len(c) + 1
      BY <1>l, <2>3
    <3>4. ASSUME NEW r \in Producers, r # p, pc[r] = "exchange"
          PROVE  node[r] \in live /\ \A i \in 1..Len(d) : d[i] # node[r]
      BY <1>c, <1>t, <2>1, <2>3, <3>3, <3>4, <1>q
         DEF NodePlaces, NodesDistinct, Noded!TypeOK
    <3>5. ASSUME NEW r \in Producers, pc[r] = "link"
          PROVE  \E i \in 1..Len(queued') :
                     prev[r] = d[i] /\ node[r] = d[i + 1] /\ next[d[i]] = Null
      <4>1. PICK i \in 1..Len(queued) :
                prev[r] = c[i] /\ node[r] = c[i + 1] /\ next[c[i]] = Null
        BY <1>c, <3>5 DEF NodePlaces
      <4>2. /\ i \in 1..Len(queued') /\ i \in 1..Len(c) /\ i + 1 \in 1..Len(c)
        BY <1>c, <1>l, <1>q, <2>4 DEF NodeList
      <4> QED
        BY <2>3, <4>1, <4>2
    <3>6. \E i \in 1..Len(queued') :
              prev'[p] = d[i] /\ node[p] = d[i + 1] /\ next[d[i]] = Null
      <4>1. /\ Len(c) = Len(queued) + 1 /\ Len(c) \in 1..Len(queued') /\ Len(c) \in 1..Len(c)
            /\ next[c[Len(c)]] = Null
        BY <1>c, <1>l, <1>q, <2>4 DEF NodeList
      <4> QED
        BY <2>3, <3>2, <4>1
    <3> QED
      BY <1>c, <2>e, <3>1, <3>2, <3>4, <3>5, <3>6 DEF NodePlaces
  <2> QED
    BY <2>5, <2>6, <2>7, <2>8 DEF NodeInv
<1>3. ASSUME NEW p \in Producers, Noded!LinkPrevious(p) PROVE NodeInv'
  <2>1. PICK k \in 1..Len(queued) :
            prev[p] = c[k] /\ node[p] = c[k + 1] /\ next[c[k]] = Null
    BY <1>3, <1>c DEF Noded!LinkPrevious, NodePlaces
  <2>2. /\ k \in 1..Len(c) /\ k + 1 \in 1..Len(c) /\ c[k] \in Nodes /\ c[k + 1] \in Nodes
        /\ next' = [next EXCEPT ![c[k]] = c[k + 1]]
    BY <1>3, <1>c, <1>l, <1>q, <2>1 DEF Noded!LinkPrevious, NodeList
  <2>3. Noded!TypeOK'
    BY <1>t, <1>3, <2>2 DEF Noded!TypeOK, Noded!LinkPrevious
  <2>4. NodesDistinct'
    BY <1>t, <1>3 DEF Noded!TypeOK, Noded!LinkPrevious, NodesDistinct
  <2>5. NodeList(c)'
    BY <1>t, <1>3, <1>c, <1>l, <1>q, <2>2 DEF Noded!TypeOK, Noded!LinkPrevious, NodeList
  <2>6. NodePlaces(c)'
    <3>1. ASSUME NEW r \in Producers, r # p
          PROVE  /\ pc'[r] = pc[r] /\ node'[r] = node[r] /\ prev'[r] = prev[r]
                 /\ node[r] # c[k + 1]
      BY <1>t, <1>3, <2>1, <2>2, <3>1 DEF Noded!TypeOK, Noded!LinkPrevious, NodesDistinct
    <3>2. pc'[p] = "idle" /\ node'[p] = Null /\ prev'[p] = Null
      BY <1>t, <1>3 DEF Noded!TypeOK, Noded!LinkPrevious
    <3>3. \A i \in 1..Len(c) : i # k => c[i] # c[k] /\ next'[c[i]] = next[c[i]]
      BY <1>t, <1>c, <1>l, <2>2 DEF Noded!TypeOK, NodeList
    <3>4. ASSUME NEW r \in Producers, pc[r] = "exchange"
          PROVE  next'[node[r]] = next[node[r]]
      BY <1>t, <1>c, <1>l, <2>2, <3>4 DEF Noded!TypeOK, NodePlaces
    <3>5. ASSUME NEW r \in Producers, pc[r] = "link", r # p
          PROVE  \E i \in 1..Len(queued) :
                     prev[r] = c[i] /\ node[r] = c[i + 1] /\ next'[c[i]] = Null
      <4>1. PICK i \in 1..Len(queued) :
                prev[r] = c[i] /\ node[r] = c[i + 1] /\ next[c[i]] = Null
        BY <1>c, <3>5 DEF NodePlaces
      <4>2. i # k /\ i \in 1..Len(c)
        BY <1>c, <1>l, <1>q, <3>1, <3>5, <4>1 DEF NodeList
      <4> QED
        BY <3>3, <4>1, <4>2
    <3> QED
      BY <1>3, <1>c, <3>1, <3>2, <3>4, <3>5 DEF Noded!LinkPrevious, NodePlaces
  <2> QED
    BY <2>3, <2>4, <2>5, <2>6 DEF NodeInv
<1>4. CASE Noded!Dequeue
  <2>1. /\ Len(queued) > 0 /\ Len(c) > 1 /\ next[tail] = c[2] /\ tail = c[1] /\ c[2] \in Nodes
    BY <1>4, <1>c, <1>l, <1>q DEF Noded!Dequeue, NodeList
  <2>t. Tail(c) \in Seq(Nodes)
    BY <1>l, <2>1
  <2>2. PICK d \in Seq(Nodes) : d = Tail(c)
    BY <2>t
  <2>3. Len(d) = Len(c) - 1 /\ \A i \in 1..Len(c) - 1 : d[i] = c[i + 1]
    BY <1>l, <2>1, <2>2, TailIs
  <2>4. /\ queued' \in Seq(Items) /\ Len(queued') = Len(queued) - 1
        /\ \A i \in 1..Len(queued) - 1 : queued'[i] = queued[i + 1]
    BY <1>4, <1>q, <2>1, TailIs DEF Noded!Dequeue
  <2>5. Noded!TypeOK'
    BY <1>t, <1>4, <2>1, <2>4 DEF Noded!TypeOK, Noded!Dequeue
  <2>6. NodesDistinct'
    BY <1>t, <1>4 DEF Noded!Dequeue, NodesDistinct
  <2>7. NodeList(d)'
    <3>1. /\ Len(c) = Len(queued) + 1 /\ c[1] = tail /\ c[Len(c)] = head /\ next[head] = Null
          /\ \A i, j \in 1..Len(c) : c[i] = c[j] => i = j
          /\ \A i \in 1..Len(c) : c[i] \in live
          /\ \A i \in 1..Len(queued) :
                 queued[i] = data[c[i + 1]] /\ next[c[i]] \in {Null, c[i + 1]}
      BY <1>c DEF NodeList
    <3>2. /\ UNCHANGED <<next, data, head>> /\ tail' = c[2] /\ live' = live \ {c[1]}
      BY <1>4, <2>1 DEF Noded!Dequeue
    <3>3. Len(d) = Len(queued') + 1 /\ d[1] = c[2] /\ d[Len(d)] = head
      BY <1>l, <1>q, <2>1, <2>3, <2>4, <3>1
    <3>4. \A i \in 1..Len(d) : i + 1 \in 1..Len(c) /\ i + 1 # 1 /\ d[i] = c[i + 1] /\ 1 \in 1..Len(c)
      BY <1>l, <2>1, <2>3
    <3>5. \A i, j \in 1..Len(d) : d[i] = d[j] => i = j
      BY <3>1, <3>4
    <3>6. \A i \in 1..Len(d) : d[i] \in live \ {c[1]}
      BY <3>1, <3>4
    <3>7. ASSUME NEW i \in 1..Len(queued')
          PROVE  queued'[i] = data[d[i + 1]] /\ next[d[i]] \in {Null, d[i + 1]}
      <4>1. i + 1 \in 1..Len(queued) /\ i \in 1..Len(d) /\ i + 1 \in 1..Len(d)
        BY <1>l, <1>q, <2>1, <2>3, <2>4, <3>1
      <4> QED
        BY <1>q, <2>4, <3>1, <3>4, <4>1
    <3> QED
      BY <3>1, <3>2, <3>3, <3>5, <3>6, <3>7 DEF NodeList
  <2>8. NodePlaces(d)'
    <3>1. UNCHANGED <<next, pc, node, prev>> /\ live' = live \ {tail}
      BY <1>4 DEF Noded!Dequeue
    <3>2. ASSUME NEW r \in Producers, pc[r] = "exchange" PROVE node[r] # tail
      BY <1>c, <1>l, <2>1, <3>2 DEF NodePlaces
    <3>3. ASSUME NEW r \in Producers, pc[r] = "link"
          PROVE  \E i \in 1..Len(queued') :
                     prev[r] = d[i] /\ node[r] = d[i + 1] /\ next[d[i]] = Null
      <4>1. PICK i \in 1..Len(queued) :
                prev[r] = c[i] /\ node[r] = c[i + 1] /\ next[c[i]] = Null
        BY <1>c, <3>3 DEF NodePlaces
      <4>2. i # 1
        BY <2>1, <1>l, <4>1, <1>4 DEF Noded!Dequeue
      <4>3. i - 1 \in 1..Len(queued') /\ d[i - 1] = c[i] /\ d[(i - 1) + 1] = c[i + 1]
        BY <1>c, <1>l, <1>q, <2>3, <2>4, <4>1, <4>2 DEF NodeList
      <4> QED
        BY <4>1, <4>3
    <3> QED
      BY <1>c, <1>l, <2>1, <2>3, <3>1, <3>2, <3>3 DEF NodePlaces
  <2> QED
    BY <2>5, <2>6, <2>7, <2>8 DEF NodeInv
<1>5. CASE UNCHANGED Noded!vars
  <2>1. Noded!TypeOK' /\ NodesDistinct'
    BY <1>t, <1>5 DEF Noded!TypeOK, NodesDistinct, Noded!vars
  <2>2. NodeList(c)' /\ NodePlaces(c)'
    BY <1>c, <1>5 DEF NodeList, NodePlaces, Noded!vars
  <2> QED
    BY <2>1, <2>2 DEF NodeInv
<1> QED
  BY <1>1, <1>2, <1>3, <1>4, <1>5 DEF Noded!Next, Noded!Enqueue

\* The list and the producers' nodes are allocated.
LEMMA NodeSafe == NodeInv => Noded!NoUseAfterFree
<1> SUFFICES ASSUME NodeInv PROVE Noded!NoUseAfterFree
  OBVIOUS
<1>t. Noded!TypeOK /\ NodesDistinct
  BY DEF NodeInv
<1>c. PICK c \in Seq(Nodes) : NodeList(c) /\ NodePlaces(c)
  BY DEF NodeInv
<1>q. Len(queued) \in Nat /\ Len(c) \in Nat
  BY <1>t DEF Noded!TypeOK
<1>1. head \in live /\ tail \in live
  BY <1>c, <1>q DEF NodeList
<1>2. ASSUME NEW p \in Producers
      PROVE  (node[p] # Null => node[p] \in live) /\ (prev[p] # Null => prev[p] \in live)
  <2>1. pc[p] \in {"idle", "exchange", "link"}
    BY <1>t DEF Noded!TypeOK
  <2>2. CASE pc[p] = "link"
    <3>1. PICK i \in 1..Len(queued) : prev[p] = c[i] /\ node[p] = c[i + 1]
      BY <1>c, <2>2 DEF NodePlaces
    <3>2. i \in 1..Len(c) /\ i + 1 \in 1..Len(c)
      BY <1>c, <1>q DEF NodeList
    <3> QED
      BY <1>c, <3>1, <3>2 DEF NodeList
  <2>3. CASE pc[p] \in {"idle", "exchange"}
    BY <1>c, <2>3 DEF NodePlaces
  <2> QED
    BY <2>1, <2>2, <2>3
<1> QED
  BY <1>t, <1>1, <1>2 DEF Noded!TypeOK, Noded!NoUseAfterFree, Noded!Range

\* The exchange puts the value in, freeing the old tail takes one out.
LEMMA NodeFifo ==
    NodeInv /\ [Noded!Next]_(Noded!vars) => Fifo!Next \/ UNCHANGED <<queued, result>>
<1> SUFFICES ASSUME NodeInv, [Noded!Next]_(Noded!vars) PROVE Fifo!Next \/ UNCHANGED <<queued, result>>
  OBVIOUS
<1>t. Noded!TypeOK /\ NodesDistinct
  BY DEF NodeInv
<1>c. PICK c \in Seq(Nodes) : NodeList(c) /\ NodePlaces(c)
  BY DEF NodeInv
<1>q. queued \in Seq(Items) /\ Len(queued) \in Nat /\ Len(c) \in Nat
  BY <1>t DEF Noded!TypeOK
<1>1. ASSUME NEW p \in Producers, Noded!ExchangeHead(p) PROVE Fifo!Next
  <2>1. /\ node[p] \in live \ {tail} /\ queued' = Append(queued, data[node[p]])
        /\ result' = result
        /\ \A i \in 1..Len(c) : c[i] # node[p]
    BY <1>1, <1>c, <1>q DEF Noded!ExchangeHead, NodeList, NodePlaces
  <2>2. data[node[p]] \in Items
    BY <1>t, <2>1 DEF NodesDistinct
  <2>3. ASSUME NEW i \in 1..Len(queued) PROVE queued[i] # data[node[p]]
    <3>1. /\ i + 1 \in 1..Len(c) /\ 1 \in 1..Len(c) /\ i + 1 # 1
          /\ queued[i] = data[c[i + 1]]
      BY <1>c, <1>q DEF NodeList
    <3>2. c[i + 1] \in live \ {tail}
      BY <1>c, <3>1 DEF NodeList
    <3> QED
      BY <1>t, <2>1, <3>1, <3>2 DEF NodesDistinct
  <2>4. data[node[p]] \notin Fifo!Range(queued)
    BY <1>q, <2>3 DEF Fifo!Range
  <2>5. Fifo!Put(data[node[p]])
    BY <2>1, <2>4 DEF Fifo!Put
  <2> QED
    BY <2>2, <2>5 DEF Fifo!Next
<1>2. CASE Noded!Dequeue
  <2>1. queued # <<>> /\ next[tail] = c[2] /\ queued[1] = data[c[2]]
    BY <1>2, <1>c, <1>q DEF Noded!Dequeue, NodeList
  <2>2. result' = queued[1] /\ queued[1] = Head(queued)
    BY <1>2, <1>q, <2>1 DEF Noded!Dequeue
  <2> QED
    BY <1>2, <2>1, <2>2 DEF Noded!Dequeue, Fifo!Get, Fifo!Next
<1>3. ASSUME NEW p \in Producers, Noded!LinkPrevious(p) PROVE UNCHANGED <<queued, result>>
  BY <1>3 DEF Noded!LinkPrevious
<1>4. ASSUME NEW p \in Producers, NEW n \in Nodes, NEW i \in Items, Noded!NewNode(p, n, i)
      PROVE  UNCHANGED <<queued, result>>
  BY <1>4 DEF Noded!NewNode
<1> QED
  BY <1>1, <1>2, <1>3, <1>4 DEF Noded!Next, Noded!Enqueue, Noded!vars

--------------------------------------------------------------------------------
(* The queue without nodes                                                  *)

\* The list: its links are in place, or about to be.
ItemList(c) ==
    /\ Len(c) > 0 /\ c[1] = tail /\ c[Len(c)] = head
    /\ \A i, j \in 1..Len(c) : c[i] = c[j] => i = j
    /\ \A i \in 1..Len(c) - 1 : link[c[i]] \in {Null, c[i + 1]}
    /\ link[head] = Null

\* It is the queued objects, with the dummy at its place k among them, or held back by the
\* consumer (k is then beyond the end).
ItemOrder(c, k) ==
    /\ \/ k \in 1..Len(queued) + 1 /\ Len(c) = Len(queued) + 1
       \/ k = Len(queued) + 2 /\ Len(c) = Len(queued)
    /\ \A i \in 1..Len(c) :
           c[i] = IF i < k THEN queued[i] ELSE IF i = k THEN Dummy ELSE queued[i - 1]

\* A producer has an object that is not in the list yet, or is about to link its object
\* behind the one that was the head before it.
ItemPlace(c, p) ==
    /\ pc[p] = "idle" => item[p] = Null /\ prev[p] = Null
    /\ pc[p] = "exchange" =>
           /\ item[p] \in Items /\ prev[p] = Null /\ link[item[p]] = Null
           /\ \A i \in 1..Len(c) : c[i] # item[p]
    /\ pc[p] = "link" =>
           /\ item[p] \in Items
           /\ \E i \in 1..Len(c) - 1 :
                  prev[p] = c[i] /\ item[p] = c[i + 1] /\ link[c[i]] = Null

ItemPlaces(c) == \A p \in Producers : ItemPlace(c, p)

\* Every producer has an object of its own.
ItemsDistinct == \A p, q \in Producers : item[p] = item[q] /\ item[p] # Null => p = q

\* Where the consumer is in Dequeue: past the dummy, holding it, or about to link it.
DummyPlace(c, k) ==
    /\ cpc # "idle" => tail # Dummy
    /\ cpc \in {"second", "clear", "exchange"} => k = Len(queued) + 2
    /\ cpc = "exchange" => link[Dummy] = Null
    /\ cpc # "link" => cprev = Null
    /\ cpc = "link" => k \in 2..Len(c) /\ cprev = c[k - 1] /\ link[cprev] = Null

ListInv(c, k) == ItemList(c) /\ ItemOrder(c, k) /\ ItemPlaces(c) /\ DummyPlace(c, k)

ItemInv ==
    /\ Linked!TypeOK
    /\ ItemsDistinct
    /\ \E c \in Seq(Linked!Linkable), k \in Nat : ListInv(c, k)

\* A new queue is the dummy.
LEMMA ItemInit == Linked!Init => ItemInv
<1> SUFFICES ASSUME Linked!Init PROVE ItemInv
  OBVIOUS
<1> USE QueueAssumption DEF Linked!Addresses, Linked!Linkable
<1>1. Linked!TypeOK /\ ItemsDistinct
  BY DEF Linked!Init, Linked!TypeOK, ItemsDistinct
<1>2. /\ <<Dummy>> \in Seq(Linked!Linkable) /\ Len(<<Dummy>>) = 1 /\ <<Dummy>>[1] = Dummy
      /\ queued = <<>> /\ Len(queued) = 0
  BY DEF Linked!Init
<1>3. ItemList(<<Dummy>>) /\ ItemPlaces(<<Dummy>>)
  BY <1>2 DEF Linked!Init, ItemList, ItemPlaces, ItemPlace
<1>4. ItemOrder(<<Dummy>>, 1) /\ DummyPlace(<<Dummy>>, 1)
  BY <1>2 DEF Linked!Init, ItemOrder, DummyPlace
<1> QED
  BY <1>1, <1>2, <1>3, <1>4 DEF ItemInv, ListInv

\* The list as a set: the queued objects, and the dummy unless it is held back.
LEMMA ListContents ==
    ASSUME Linked!TypeOK, NEW c \in Seq(Linked!Linkable), NEW k \in Nat, ItemOrder(c, k)
    PROVE  /\ \A i \in 1..Len(c) : c[i] = Dummy <=> i = k
           /\ \A i \in 1..Len(c) : c[i] # Dummy => \E j \in 1..Len(queued) : c[i] = queued[j]
           /\ \A j \in 1..Len(queued) : \E i \in 1..Len(c) : c[i] = queued[j]
<1> USE QueueAssumption DEF Linked!Addresses, Linked!Linkable
<1>q. Len(queued) \in Nat /\ Len(c) \in Nat /\ \A j \in 1..Len(queued) : queued[j] \in Items
  BY DEF Linked!TypeOK
<1>1. ASSUME NEW i \in 1..Len(c)
      PROVE  /\ c[i] = Dummy <=> i = k
             /\ c[i] # Dummy => \E j \in 1..Len(queued) : c[i] = queued[j]
  <2>1. CASE i < k
    <3>1. i \in 1..Len(queued) /\ c[i] = queued[i]
      BY <1>q, <2>1 DEF ItemOrder
    <3> QED
      BY <1>q, <2>1, <3>1
  <2>2. CASE i = k
    BY <2>2 DEF ItemOrder
  <2>3. CASE i > k
    <3>1. i - 1 \in 1..Len(queued) /\ c[i] = queued[i - 1]
      BY <1>q, <2>3 DEF ItemOrder
    <3> QED
      BY <1>q, <2>3, <3>1
  <2> QED
    BY <1>q, <2>1, <2>2, <2>3
<1>2. ASSUME NEW j \in 1..Len(queued) PROVE \E i \in 1..Len(c) : c[i] = queued[j]
  <2>1. CASE j < k
    BY <1>q, <2>1 DEF ItemOrder
  <2>2. CASE j >= k
    <3>1. j + 1 \in 1..Len(c) /\ c[j + 1] = queued[j]
      BY <1>q, <2>2 DEF ItemOrder
    <3> QED
      BY <3>1
  <2> QED
    BY <1>q, <2>1, <2>2
<1> QED
  BY <1>1, <1>2


\* Exchanging the head puts a node behind the list.
LEMMA ListExchange ==
    ASSUME Linked!TypeOK, NEW c \in Seq(Linked!Linkable), ItemList(c),
           NEW x \in Linked!Linkable, link[x] = Null, \A i \in 1..Len(c) : c[i] # x,
           UNCHANGED <<link, tail>>, head' = x
    PROVE  ItemList(Append(c, x))'
<1> PICK d \in Seq(Linked!Linkable) : d = Append(c, x)
  BY AppendIs
<1>1. /\ Len(c) \in Nat /\ Len(d) = Len(c) + 1 /\ d[Len(c) + 1] = x
      /\ \A i \in 1..Len(c) : d[i] = c[i]
      /\ \A i \in 1..Len(d) : i \in 1..Len(c) \/ i = Len(c) + 1
  BY AppendIs
<1>2. /\ Len(c) > 0 /\ c[1] = tail /\ c[Len(c)] = head /\ link[head] = Null
      /\ \A i, j \in 1..Len(c) : c[i] = c[j] => i = j
      /\ \A i \in 1..Len(c) - 1 : link[c[i]] \in {Null, c[i + 1]}
  BY DEF ItemList
<1>3. Len(d) > 0 /\ d[1] = tail /\ d[Len(d)] = x
  BY <1>1, <1>2
<1>4. \A i, j \in 1..Len(d) : d[i] = d[j] => i = j
  BY <1>1, <1>2
<1>5. ASSUME NEW i \in 1..Len(d) - 1 PROVE link[d[i]] \in {Null, d[i + 1]}
  <2>1. i \in 1..Len(c) /\ (i = Len(c) \/ (i \in 1..Len(c) - 1 /\ i + 1 \in 1..Len(c)))
    BY <1>1
  <2> QED
    BY <1>1, <1>2, <2>1
<1>6. ItemList(d)'
  BY <1>3, <1>4, <1>5 DEF ItemList
<1> QED
  BY <1>6

\* Following the tail's link takes a node off the list.
LEMMA ListAdvance ==
    ASSUME Linked!TypeOK, NEW c \in Seq(Linked!Linkable), ItemList(c),
           link[tail] # Null, tail' = link[tail], UNCHANGED <<link, head>>
    PROVE  /\ Len(c) > 1 /\ tail' = c[2] /\ Tail(c) \in Seq(Linked!Linkable)
           /\ ItemList(Tail(c))'
<1>l. Len(c) \in Nat
  OBVIOUS
<1>1. /\ Len(c) > 0 /\ c[1] = tail /\ c[Len(c)] = head /\ link[head] = Null
      /\ \A i, j \in 1..Len(c) : c[i] = c[j] => i = j
      /\ \A i \in 1..Len(c) - 1 : link[c[i]] \in {Null, c[i + 1]}
  BY DEF ItemList
<1>2. Len(c) > 1 /\ tail' = c[2]
  BY <1>l, <1>1
<1>3. Tail(c) \in Seq(Linked!Linkable)
  BY <1>l, <1>1
<1> PICK d \in Seq(Linked!Linkable) : d = Tail(c)
  BY <1>3
<1>4. Len(d) = Len(c) - 1 /\ \A i \in 1..Len(c) - 1 : d[i] = c[i + 1]
  BY <1>1, TailIs
<1>5. \A i \in 1..Len(d) : i + 1 \in 1..Len(c) /\ d[i] = c[i + 1]
  BY <1>l, <1>4
<1>6. Len(d) > 0 /\ d[1] = c[2] /\ d[Len(d)] = head
  BY <1>l, <1>1, <1>2, <1>4
<1>7. \A i, j \in 1..Len(d) : d[i] = d[j] => i = j
  BY <1>1, <1>5
<1>8. \A i \in 1..Len(d) - 1 : link[d[i]] \in {Null, d[i + 1]}
  BY <1>l, <1>1, <1>4, <1>5
<1>9. ItemList(d)'
  BY <1>1, <1>2, <1>6, <1>7, <1>8 DEF ItemList
<1> QED
  BY <1>2, <1>3, <1>9

\* Linking a node to its successor.
LEMMA ListLink ==
    ASSUME Linked!TypeOK, NEW c \in Seq(Linked!Linkable), ItemList(c),
           NEW j \in 1..Len(c) - 1, link' = [link EXCEPT ![c[j]] = c[j + 1]],
           UNCHANGED <<head, tail>>
    PROVE  ItemList(c)'
<1>1. Len(c) \in Nat /\ j \in 1..Len(c) /\ \A i \in 1..Len(c) - 1 : i \in 1..Len(c)
  OBVIOUS
<1>2. \A i \in 1..Len(c) : link'[c[i]] = IF i = j THEN c[j + 1] ELSE link[c[i]]
  BY <1>1 DEF ItemList, Linked!TypeOK
<1>3. /\ Len(c) > 0 /\ c[1] = tail /\ c[Len(c)] = head /\ link'[head] = Null
      /\ \A i, n \in 1..Len(c) : c[i] = c[n] => i = n
  BY <1>1, <1>2 DEF ItemList
<1>4. \A i \in 1..Len(c) - 1 : link'[c[i]] \in {Null, c[i + 1]}
  BY <1>1, <1>2 DEF ItemList
<1> QED
  BY <1>3, <1>4 DEF ItemList

\* A producer that takes no step keeps its place when another node is put behind the list,
LEMMA PlaceExchange ==
    ASSUME NEW c \in Seq(Linked!Linkable), NEW x \in Linked!Linkable,
           NEW p \in Producers, ItemPlace(c, p), item[p] # x, link' = link,
           pc'[p] = pc[p], item'[p] = item[p], prev'[p] = prev[p]
    PROVE  ItemPlace(Append(c, x), p)'
<1> PICK d \in Seq(Linked!Linkable) : d = Append(c, x)
  BY AppendIs
<1>1. /\ Len(c) \in Nat /\ Len(d) = Len(c) + 1 /\ d[Len(c) + 1] = x
      /\ \A i \in 1..Len(c) : d[i] = c[i]
      /\ \A i \in 1..Len(d) : i \in 1..Len(c) \/ i = Len(c) + 1
  BY AppendIs
<1>2. ASSUME pc[p] = "link"
      PROVE  \E i \in 1..Len(d) - 1 : prev[p] = d[i] /\ item[p] = d[i + 1] /\ link[d[i]] = Null
  <2>1. PICK i \in 1..Len(c) - 1 : prev[p] = c[i] /\ item[p] = c[i + 1] /\ link[c[i]] = Null
    BY <1>2 DEF ItemPlace
  <2>2. i \in 1..Len(d) - 1 /\ d[i] = c[i] /\ d[i + 1] = c[i + 1]
    BY <1>1
  <2> QED
    BY <2>1, <2>2
<1>3. pc[p] = "exchange" => \A i \in 1..Len(d) : d[i] # item[p]
  BY <1>1 DEF ItemPlace
<1>4. ItemPlace(d, p)'
  BY <1>2, <1>3 DEF ItemPlace
<1> QED
  BY <1>4

\* when the first node, which is linked, is taken off the list,
LEMMA PlaceAdvance ==
    ASSUME NEW c \in Seq(Linked!Linkable), Len(c) > 0, link[c[1]] # Null,
           NEW p \in Producers, ItemPlace(c, p), link' = link,
           pc'[p] = pc[p], item'[p] = item[p], prev'[p] = prev[p]
    PROVE  ItemPlace(Tail(c), p)'
<1>t. Tail(c) \in Seq(Linked!Linkable)
  OBVIOUS
<1> PICK d \in Seq(Linked!Linkable) : d = Tail(c)
  BY <1>t
<1>1. /\ Len(c) \in Nat /\ Len(d) = Len(c) - 1
      /\ \A i \in 1..Len(d) : i + 1 \in 1..Len(c) /\ d[i] = c[i + 1]
  BY TailIs
<1>2. ASSUME pc[p] = "link"
      PROVE  \E i \in 1..Len(d) - 1 : prev[p] = d[i] /\ item[p] = d[i + 1] /\ link[d[i]] = Null
  <2>1. PICK i \in 1..Len(c) - 1 : prev[p] = c[i] /\ item[p] = c[i + 1] /\ link[c[i]] = Null
    BY <1>2 DEF ItemPlace
  <2>2. i - 1 \in 1..Len(d) - 1 /\ d[i - 1] = c[i] /\ d[(i - 1) + 1] = c[i + 1]
    BY <1>1, <2>1
  <2> QED
    BY <2>1, <2>2
<1>3. pc[p] = "exchange" => \A i \in 1..Len(d) : d[i] # item[p]
  BY <1>1 DEF ItemPlace
<1>4. ItemPlace(d, p)'
  BY <1>2, <1>3 DEF ItemPlace
<1> QED
  BY <1>4

\* and when a node is linked that is not its own.
LEMMA PlaceLink ==
    ASSUME Linked!TypeOK, NEW c \in Seq(Linked!Linkable), ItemList(c),
           NEW j \in 1..Len(c) - 1, link' = [link EXCEPT ![c[j]] = c[j + 1]],
           NEW p \in Producers, ItemPlace(c, p), item[p] # c[j + 1],
           pc'[p] = pc[p], item'[p] = item[p], prev'[p] = prev[p]
    PROVE  ItemPlace(c, p)'
<1>1. Len(c) \in Nat /\ j \in 1..Len(c) /\ \A i \in 1..Len(c) - 1 : i \in 1..Len(c)
  OBVIOUS
<1>2. \A i \in 1..Len(c) : i # j => link'[c[i]] = link[c[i]]
  BY <1>1 DEF ItemList, Linked!TypeOK
<1>3. pc[p] = "exchange" => link'[item[p]] = link[item[p]]
  BY <1>1 DEF ItemPlace, Linked!TypeOK, Linked!Linkable
<1>4. ASSUME pc[p] = "link"
      PROVE  \E i \in 1..Len(c) - 1 : prev[p] = c[i] /\ item[p] = c[i + 1] /\ link'[c[i]] = Null
  <2>1. PICK i \in 1..Len(c) - 1 : prev[p] = c[i] /\ item[p] = c[i + 1] /\ link[c[i]] = Null
    BY <1>4 DEF ItemPlace
  <2> QED
    BY <1>1, <1>2, <2>1
<1> QED
  BY <1>3, <1>4 DEF ItemPlace


\* An object that comes out is the one at the tail, and the dummy is further behind.
LEMMA ItemDelivery ==
    ASSUME ItemInv, tail # Dummy, link[tail] # Null, Linked!Deliver(link[tail]),
           UNCHANGED <<link, head, pc, item, prev, cprev, count>>, cpc # "link"
    PROVE  ItemInv' /\ queued # <<>> /\ result' = Head(queued)
<1> USE QueueAssumption DEF Linked!Addresses, Linked!Linkable
<1>t. Linked!TypeOK /\ ItemsDistinct
  BY DEF ItemInv
<1>c. PICK c \in Seq(Linked!Linkable), k \in Nat : ListInv(c, k)
  BY DEF ItemInv
<1>d. ItemList(c) /\ ItemOrder(c, k) /\ ItemPlaces(c) /\ DummyPlace(c, k)
  BY <1>c DEF ListInv
<1>q. queued \in Seq(Items) /\ Len(queued) \in Nat /\ Len(c) \in Nat
  BY <1>t DEF Linked!TypeOK
<1>a. tail' = link[tail] /\ result' = tail /\ queued' = Tail(queued) /\ cpc' = "idle"
  BY DEF Linked!Deliver
<1>1. Len(c) > 1 /\ tail' = c[2] /\ Tail(c) \in Seq(Linked!Linkable) /\ ItemList(Tail(c))'
  BY <1>t, <1>d, <1>a, ListAdvance
<1>2. c[1] # Dummy /\ k > 1 /\ Len(queued) > 0
  BY <1>d, <1>q, <1>1, ListContents, <1>t DEF ItemOrder, ItemList
<1>h. result' \in Items /\ result' = Head(queued)
  <2>1. 1 \in 1..Len(c) /\ c[1] = tail /\ 1 \in 1..Len(queued)
    BY <1>d, <1>q, <1>1, <1>2 DEF ItemList
  <2>2. c[1] = queued[1]
    BY <1>d, <1>2, <2>1 DEF ItemOrder
  <2>3. queued[1] \in Items /\ queued[1] = Head(queued)
    BY <1>q, <2>1
  <2> QED
    BY <1>a, <2>1, <2>2, <2>3
<1> PICK d \in Seq(Linked!Linkable) : d = Tail(c)
  BY <1>1
<1>3. Len(d) = Len(c) - 1 /\ \A i \in 1..Len(c) - 1 : d[i] = c[i + 1]
  BY <1>1, TailIs
<1>4. /\ queued' \in Seq(Items) /\ Len(queued') = Len(queued) - 1
      /\ \A i \in 1..Len(queued) - 1 : queued'[i] = queued[i + 1]
  BY <1>a, <1>q, <1>2, TailIs
<1>5. ItemOrder(d, k - 1)'
  <2>0. \/ k \in 1..Len(queued) + 1 /\ Len(c) = Len(queued) + 1
        \/ k = Len(queued) + 2 /\ Len(c) = Len(queued)
    BY <1>d DEF ItemOrder
  <2>1. \/ k - 1 \in 1..Len(queued') + 1 /\ Len(d) = Len(queued') + 1
        \/ k - 1 = Len(queued') + 2 /\ Len(d) = Len(queued')
    <3> DEFINE m == Len(queued)
               n == Len(c)
    <3>1. Len(queued') = m - 1 /\ Len(d) = n - 1 /\ m \in Nat /\ n \in Nat
      BY <1>q, <1>3, <1>4
    <3>2. (k \in 1..m + 1 /\ n = m + 1) \/ (k = m + 2 /\ n = m)
      BY <2>0
    <3> HIDE DEF m, n
    <3> QED
      BY <1>2, <3>1, <3>2
  <2>2. ASSUME NEW i \in 1..Len(d)
        PROVE  d[i] = IF i < k - 1 THEN queued'[i] ELSE IF i = k - 1 THEN Dummy ELSE queued'[i - 1]
    <3>0. i \in Nat /\ i + 1 \in 1..Len(c) /\ d[i] = c[i + 1] /\ (i + 1) - 1 = i
      BY <1>q, <1>3
    <3>1. d[i] = IF i + 1 < k THEN queued[i + 1] ELSE IF i + 1 = k THEN Dummy ELSE queued[i]
      <4>1. c[i + 1] = IF i + 1 < k THEN queued[i + 1]
                       ELSE IF i + 1 = k THEN Dummy ELSE queued[(i + 1) - 1]
        BY <1>d, <3>0 DEF ItemOrder
      <4> QED
        BY <3>0, <4>1
    <3>2. CASE i + 1 < k
      <4>1. i \in 1..Len(queued) - 1 /\ i < k - 1
        BY <1>q, <2>0, <3>0, <3>2
      <4> QED
        BY <1>4, <3>1, <3>2, <4>1
    <3>3. CASE i + 1 = k
      BY <3>0, <3>1, <3>3
    <3>4. CASE i + 1 > k
      <4>1. i - 1 \in 1..Len(queued) - 1 /\ (i - 1) + 1 = i /\ ~(i < k - 1) /\ i # k - 1
        BY <1>q, <1>2, <2>0, <3>0, <3>4
      <4> QED
        BY <1>4, <3>1, <3>0, <3>4, <4>1
    <3> QED
      BY <3>0, <3>2, <3>3, <3>4
  <2> QED
    BY <2>1, <2>2 DEF ItemOrder
<1>6. ItemPlaces(d)'
  BY <1>d, <1>1, PlaceAdvance DEF ItemPlaces, ItemList
<1>7. DummyPlace(d, k - 1)'
  BY <1>d, <1>a DEF DummyPlace
<1>8. Linked!TypeOK' /\ ItemsDistinct'
  BY <1>t, <1>a, <1>h, <1>1, <1>4 DEF Linked!TypeOK, ItemsDistinct
<1>9. k - 1 \in Nat /\ queued # <<>> /\ ItemList(d)'
  BY <1>1, <1>2
<1>10. ListInv(d, k - 1)'
  BY <1>5, <1>6, <1>7, <1>9 DEF ListInv
<1> QED
  BY <1>h, <1>8, <1>9, <1>10 DEF ItemInv

\* A producer's steps keep the list a list.
LEMMA ItemProducerStep ==
    ASSUME ItemInv, NEW p \in Producers,
           Linked!Enqueue(p) \/ \E i \in Items : Linked!ClearLink(p, i)
    PROVE  ItemInv'
<1> USE QueueAssumption DEF Linked!Addresses, Linked!Linkable
<1>t. Linked!TypeOK /\ ItemsDistinct
  BY DEF ItemInv
<1>c. PICK c \in Seq(Linked!Linkable), k \in Nat : ListInv(c, k)
  BY DEF ItemInv
<1>d. ItemList(c) /\ ItemOrder(c, k) /\ ItemPlaces(c) /\ DummyPlace(c, k)
  BY <1>c DEF ListInv
<1>q. queued \in Seq(Items) /\ Len(queued) \in Nat /\ Len(c) \in Nat
  BY <1>t DEF Linked!TypeOK
<1>1. ASSUME NEW i \in Items, Linked!ClearLink(p, i) PROVE ItemInv'
  <2>1. /\ pc[p] = "idle" /\ \A j \in 1..Len(queued) : queued[j] # i
        /\ \A r \in Producers : item[r] # i
        /\ link' = [link EXCEPT ![i] = Null]
        /\ UNCHANGED <<head, tail, cpc, cprev, result, queued, prev>>
        /\ item' = [item EXCEPT ![p] = i] /\ pc' = [pc EXCEPT ![p] = "exchange"]
    BY <1>1, <1>t DEF Linked!ClearLink, Linked!TypeOK, Linked!Range, Linked!consumerVars
  <2>2. /\ \A j \in 1..Len(c) : c[j] # i /\ link'[c[j]] = link[c[j]]
        /\ link'[i] = Null /\ link'[Dummy] = link[Dummy]
        /\ \A j \in 1..Len(c) - 1 : j \in 1..Len(c)
    <3>1. \A j \in 1..Len(c) : c[j] # i /\ c[j] \in Linked!Linkable
      <4>1. i # Dummy
        OBVIOUS
      <4>2. \A j \in 1..Len(c) : c[j] # Dummy => \E m \in 1..Len(queued) : c[j] = queued[m]
        BY <1>t, <1>d, ListContents
      <4> QED
        BY <2>1, <4>1, <4>2
    <3> QED
      BY <1>t, <1>q, <2>1, <3>1 DEF Linked!TypeOK
  <2>3. Linked!TypeOK'
    BY <1>t, <1>1, <2>1 DEF Linked!TypeOK, Linked!ClearLink
  <2>4. ItemsDistinct'
    BY <1>t, <2>1 DEF Linked!TypeOK, ItemsDistinct
  <2>5. ItemList(c)'
    <3>1. Len(c) \in 1..Len(c) /\ head = c[Len(c)]
      BY <1>d, <1>q DEF ItemList
    <3> QED
      BY <1>d, <1>q, <2>1, <2>2, <3>1 DEF ItemList
  <2>6. ItemOrder(c, k)'
    BY <1>d, <2>1 DEF ItemOrder
  <2>7. ASSUME NEW r \in Producers PROVE ItemPlace(c, r)'
    <3>1. CASE r = p
      <4>1. pc'[p] = "exchange" /\ item'[p] = i /\ prev'[p] = Null
        BY <1>t, <1>d, <2>1 DEF Linked!TypeOK, ItemPlaces, ItemPlace
      <4> QED
        BY <2>2, <3>1, <4>1 DEF ItemPlace
    <3>2. CASE r # p
      <4>1. pc'[r] = pc[r] /\ item'[r] = item[r] /\ prev'[r] = prev[r] /\ item[r] # i
        BY <1>t, <2>1, <3>2 DEF Linked!TypeOK
      <4>2. pc[r] = "exchange" => link'[item[r]] = link[item[r]]
        BY <1>t, <1>d, <2>1, <4>1 DEF Linked!TypeOK, ItemPlaces, ItemPlace
      <4> QED
        BY <1>d, <2>2, <4>1, <4>2 DEF ItemPlaces, ItemPlace
    <3> QED
      BY <3>1, <3>2
  <2>8. DummyPlace(c, k)'
    <3>1. k \in 2..Len(c) => k - 1 \in 1..Len(c)
      BY <1>q
    <3> QED
      BY <1>d, <2>1, <2>2, <3>1 DEF DummyPlace
  <2> QED
    BY <2>3, <2>4, <2>5, <2>6, <2>7, <2>8 DEF ItemInv, ListInv, ItemPlaces
<1>2. CASE Linked!ExchangeHead(p)
  <2>1. /\ pc[p] = "exchange" /\ head' = item[p] /\ queued' = Append(queued, item[p])
        /\ prev' = [prev EXCEPT ![p] = head] /\ pc' = [pc EXCEPT ![p] = "link"]
        /\ UNCHANGED <<link, item, tail, cpc, cprev, result, count>>
    BY <1>2 DEF Linked!ExchangeHead, Linked!consumerVars
  <2>2. item[p] \in Items /\ link[item[p]] = Null /\ \A i \in 1..Len(c) : c[i] # item[p]
    BY <1>d, <2>1 DEF ItemPlaces, ItemPlace
  <2> PICK d \in Seq(Linked!Linkable) : d = Append(c, item[p])
    BY <2>2, AppendIs
  <2>3. /\ Len(d) = Len(c) + 1 /\ d[Len(c) + 1] = item[p]
        /\ \A i \in 1..Len(c) : d[i] = c[i]
    BY <2>2, AppendIs
  <2>4. /\ queued' \in Seq(Items) /\ Len(queued') = Len(queued) + 1
        /\ queued'[Len(queued) + 1] = item[p]
        /\ \A i \in 1..Len(queued) : queued'[i] = queued[i]
    BY <1>q, <2>1, <2>2, AppendIs
  <2>5. Linked!TypeOK'
    BY <1>t, <2>1, <2>2, <2>4 DEF Linked!TypeOK
  <2>6. ItemsDistinct'
    BY <1>t, <2>1 DEF ItemsDistinct
  <2>7. ItemList(d)'
    BY <1>t, <1>d, <2>1, <2>2, ListExchange
  <2>8. ASSUME NEW r \in Producers PROVE ItemPlace(d, r)'
    <3>1. CASE r = p
      <4>1. pc'[p] = "link" /\ item'[p] = item[p] /\ prev'[p] = c[Len(c)] /\ link'[c[Len(c)]] = Null
        BY <1>t, <1>d, <2>1 DEF Linked!TypeOK, ItemList
      <4>2. Len(c) \in 1..Len(d) - 1 /\ Len(c) \in 1..Len(c)
        BY <1>d, <1>q, <2>3 DEF ItemList
      <4> QED
        BY <2>2, <2>3, <3>1, <4>1, <4>2 DEF ItemPlace
    <3>2. CASE r # p
      <4>1. pc'[r] = pc[r] /\ item'[r] = item[r] /\ prev'[r] = prev[r]
        BY <1>t, <2>1, <3>2 DEF Linked!TypeOK
      <4>2. item[r] # item[p]
        BY <1>t, <2>2, <3>2 DEF ItemsDistinct
      <4> QED
        BY <1>d, <2>1, <2>2, <4>1, <4>2, PlaceExchange DEF ItemPlaces
    <3> QED
      BY <3>1, <3>2
  <2>9. CASE k \in 1..Len(queued) + 1 /\ Len(c) = Len(queued) + 1
    <3>1. ItemOrder(d, k)'
      <4>1. ASSUME NEW i \in 1..Len(d)
            PROVE  d[i] = IF i < k THEN queued'[i] ELSE IF i = k THEN Dummy ELSE queued'[i - 1]
        <5>1. CASE i = Len(c) + 1
          BY <1>q, <2>3, <2>4, <2>9, <5>1
        <5>2. CASE i # Len(c) + 1
          <6>1. /\ i \in 1..Len(c)
                /\ i < k => i \in 1..Len(queued)
                /\ ~(i < k) /\ i # k => i - 1 \in 1..Len(queued)
            BY <1>q, <2>3, <2>9, <5>2
          <6>2. d[i] = IF i < k THEN queued[i] ELSE IF i = k THEN Dummy ELSE queued[i - 1]
            BY <1>d, <2>3, <6>1 DEF ItemOrder
          <6> QED
            BY <2>4, <6>1, <6>2
        <5> QED
          BY <5>1, <5>2
      <4> QED
        BY <1>q, <2>3, <2>4, <2>9, <4>1 DEF ItemOrder
    <3>2. DummyPlace(d, k)'
      <4>1. k \in 2..Len(c) => k - 1 \in 1..Len(c) /\ k \in 2..Len(d)
        BY <1>q, <2>3
      <4> QED
        BY <1>d, <1>q, <2>1, <2>3, <2>9, <4>1 DEF DummyPlace
    <3> QED
      BY <2>5, <2>6, <2>7, <2>8, <3>1, <3>2 DEF ItemInv, ListInv, ItemPlaces
  <2>10. CASE k = Len(queued) + 2 /\ Len(c) = Len(queued)
    <3>1. ItemOrder(d, k + 1)'
      <4>1. ASSUME NEW i \in 1..Len(d)
            PROVE  i < k + 1 /\ d[i] = queued'[i]
        <5>1. CASE i = Len(c) + 1
          BY <1>q, <2>3, <2>4, <2>10, <5>1
        <5>2. CASE i # Len(c) + 1
          <6>1. i \in 1..Len(c) /\ i < k /\ i \in 1..Len(queued)
            BY <1>q, <2>3, <2>10, <5>2
          <6>2. d[i] = queued[i]
            BY <1>d, <2>3, <6>1 DEF ItemOrder
          <6> QED
            BY <2>4, <6>1, <6>2
        <5> QED
          BY <5>1, <5>2
      <4> QED
        BY <1>q, <2>3, <2>4, <2>10, <4>1 DEF ItemOrder
    <3>2. DummyPlace(d, k + 1)'
      BY <1>d, <1>q, <2>1, <2>3, <2>4, <2>10 DEF DummyPlace
    <3>3. ListInv(d, k + 1)' /\ k + 1 \in Nat
      BY <2>7, <2>8, <3>1, <3>2 DEF ListInv, ItemPlaces
    <3> QED
      BY <2>5, <2>6, <3>3 DEF ItemInv
  <2> QED
    BY <1>d, <2>9, <2>10 DEF ItemOrder
<1>3. CASE Linked!LinkPrevious(p)
  <2>1. /\ pc[p] = "link" /\ link' = [link EXCEPT ![prev[p]] = item[p]]
        /\ pc' = [pc EXCEPT ![p] = "idle"] /\ item' = [item EXCEPT ![p] = Null]
        /\ prev' = [prev EXCEPT ![p] = Null]
        /\ UNCHANGED <<head, tail, cpc, cprev, result, queued, count>>
    BY <1>3 DEF Linked!LinkPrevious, Linked!consumerVars
  <2>2. PICK j \in 1..Len(c) - 1 : prev[p] = c[j] /\ item[p] = c[j + 1] /\ link[c[j]] = Null
    BY <1>d, <2>1 DEF ItemPlaces, ItemPlace
  <2>3. /\ item[p] \in Items /\ j \in 1..Len(c) /\ c[j] \in Linked!Linkable
        /\ link' = [link EXCEPT ![c[j]] = c[j + 1]]
    BY <1>d, <1>q, <2>1, <2>2 DEF ItemPlaces, ItemPlace
  <2>4. Linked!TypeOK'
    BY <1>t, <2>1, <2>2, <2>3 DEF Linked!TypeOK
  <2>5. ItemsDistinct'
    BY <1>t, <2>1 DEF Linked!TypeOK, ItemsDistinct
  <2>6. ItemList(c)'
    BY <1>t, <1>d, <2>1, <2>2, <2>3, ListLink
  <2>7. ItemOrder(c, k)'
    BY <1>d, <2>1 DEF ItemOrder
  <2>8. ASSUME NEW r \in Producers PROVE ItemPlace(c, r)'
    <3>1. CASE r = p
      <4>1. pc'[p] = "idle" /\ item'[p] = Null /\ prev'[p] = Null
        BY <1>t, <2>1 DEF Linked!TypeOK
      <4> QED
        BY <3>1, <4>1 DEF ItemPlace
    <3>2. CASE r # p
      <4>1. pc'[r] = pc[r] /\ item'[r] = item[r] /\ prev'[r] = prev[r]
        BY <1>t, <2>1, <3>2 DEF Linked!TypeOK
      <4>2. item[r] # c[j + 1]
        BY <1>t, <2>2, <2>3, <3>2 DEF ItemsDistinct
      <4> QED
        BY <1>t, <1>d, <2>3, <4>1, <4>2, PlaceLink DEF ItemPlaces
    <3> QED
      BY <3>1, <3>2
  <2>9. DummyPlace(c, k)'
    <3>1. ASSUME cpc = "link" PROVE k \in 2..Len(c) /\ c[k] = Dummy /\ cprev = c[k - 1] /\ k - 1 # j
      BY <1>t, <1>d, <1>q, <2>2, <2>3, <3>1, ListContents DEF DummyPlace
    <3>2. ASSUME cpc = "link" PROVE link'[cprev] = link[cprev]
      <4>1. k - 1 \in 1..Len(c) /\ c[k - 1] # c[j] /\ c[k - 1] \in Linked!Linkable
        BY <1>d, <1>q, <2>3, <3>1, <3>2 DEF ItemList
      <4> QED
        BY <1>t, <2>3, <3>1, <3>2, <4>1 DEF Linked!TypeOK
    <3>3. ASSUME cpc = "exchange" PROVE link'[Dummy] = link[Dummy]
      <4>1. c[j] # Dummy
        BY <1>t, <1>d, <1>q, <2>3, <3>3, ListContents DEF DummyPlace, ItemOrder
      <4> QED
        BY <1>t, <2>3, <4>1 DEF Linked!TypeOK
    <3> QED
      BY <1>d, <2>1, <3>1, <3>2, <3>3 DEF DummyPlace
  <2> QED
    BY <2>4, <2>5, <2>6, <2>7, <2>8, <2>9 DEF ItemInv, ListInv, ItemPlaces
<1> QED
  BY <1>1, <1>2, <1>3 DEF Linked!Enqueue


\* So do the consumer's.
LEMMA ItemConsumerStep == ItemInv /\ Linked!Dequeue => ItemInv'
<1> SUFFICES ASSUME ItemInv, Linked!Dequeue PROVE ItemInv'
  OBVIOUS
<1> USE QueueAssumption DEF Linked!Addresses, Linked!Linkable, Linked!producerVars
<1>t. Linked!TypeOK /\ ItemsDistinct
  BY DEF ItemInv
<1>c. PICK c \in Seq(Linked!Linkable), k \in Nat : ListInv(c, k)
  BY DEF ItemInv
<1>d. ItemList(c) /\ ItemOrder(c, k) /\ ItemPlaces(c) /\ DummyPlace(c, k)
  BY <1>c DEF ListInv
<1>q. queued \in Seq(Items) /\ Len(queued) \in Nat /\ Len(c) \in Nat
  BY <1>t DEF Linked!TypeOK
\* The list stays; the consumer goes from one place to another.
<1>1. ASSUME UNCHANGED <<link, head, tail, pc, item, prev, result, queued, count>>,
             cpc' \in {"idle", "second", "head", "clear", "exchange", "link", "again"},
             cprev' = cprev, DummyPlace(c, k)'
      PROVE  ItemInv'
  <2>1. Linked!TypeOK' /\ ItemsDistinct'
    BY <1>t, <1>1 DEF Linked!TypeOK, ItemsDistinct
  <2>2. ItemList(c)' /\ ItemOrder(c, k)' /\ ItemPlaces(c)'
    BY <1>d, <1>1 DEF ItemList, ItemOrder, ItemPlaces, ItemPlace
  <2> QED
    BY <1>1, <2>1, <2>2 DEF ItemInv, ListInv
<1>2. CASE Linked!LoadNext
  <2>1. cpc = "idle" /\ UNCHANGED <<link, head, pc, item, prev, cprev, count>>
    BY <1>2 DEF Linked!LoadNext
  <2>2. CASE tail # Dummy /\ link[tail] # Null /\ Linked!Deliver(link[tail])
    BY <2>1, <2>2, ItemDelivery
  <2>3. CASE \/ tail # Dummy /\ Linked!ConsumerAt("head")
             \/ tail = Dummy /\ Linked!ConsumerAt("idle")
    BY <1>1, <1>d, <2>1, <2>3 DEF Linked!ConsumerAt, DummyPlace
  <2>4. CASE /\ tail = Dummy /\ link[tail] # Null
             /\ tail' = link[tail] /\ cpc' = "second" /\ UNCHANGED <<result, queued>>
    <3>1. /\ Len(c) > 1 /\ tail' = c[2] /\ Tail(c) \in Seq(Linked!Linkable)
          /\ ItemList(Tail(c))'
      BY <1>t, <1>d, <2>1, <2>4, ListAdvance
    <3> PICK d \in Seq(Linked!Linkable) : d = Tail(c)
      BY <3>1
    <3>2. Len(d) = Len(c) - 1 /\ \A i \in 1..Len(c) - 1 : d[i] = c[i + 1]
      BY <3>1, TailIs
    <3>3. k = 1 /\ Len(c) = Len(queued) + 1
      <4>1. 1 \in 1..Len(c) /\ c[1] = Dummy
        BY <1>d, <1>q, <2>4, <3>1 DEF ItemList
      <4>2. k = 1
        BY <1>t, <1>d, <4>1, ListContents
      <4> QED
        BY <1>d, <1>q, <4>2 DEF ItemOrder
    <3>4. \A i \in 1..Len(d) : d[i] = queued[i] /\ i < Len(queued) + 2
      <4>1. ASSUME NEW i \in 1..Len(d) PROVE d[i] = queued[(i + 1) - 1]
        <5>1. i + 1 \in 1..Len(c) /\ ~(i + 1 < k) /\ i + 1 # k /\ d[i] = c[i + 1]
          BY <1>q, <3>2, <3>3
        <5> QED
          BY <1>d, <5>1 DEF ItemOrder
      <4> QED
        BY <1>q, <3>2, <3>3, <4>1
    <3>5. ItemOrder(d, Len(queued) + 2)'
      BY <1>q, <2>4, <3>2, <3>3, <3>4 DEF ItemOrder
    <3>6. ItemList(d)' /\ ItemPlaces(d)'
      BY <1>d, <2>1, <2>4, <3>1, PlaceAdvance DEF ItemPlaces, ItemList
    <3>7. tail' # Dummy /\ tail' \in Linked!Linkable
      <4>1. 2 \in 1..Len(c) /\ 2 # k
        BY <1>q, <3>1, <3>3
      <4> QED
        BY <1>t, <1>d, <3>1, <4>1, ListContents
    <3>8. DummyPlace(d, Len(queued) + 2)'
      BY <1>d, <2>1, <2>4, <3>7 DEF DummyPlace
    <3>9. Linked!TypeOK' /\ ItemsDistinct'
      BY <1>t, <2>1, <2>4, <3>7 DEF Linked!TypeOK, ItemsDistinct
    <3>10. ListInv(d, Len(queued) + 2)' /\ Len(queued) + 2 \in Nat
      BY <1>q, <3>5, <3>6, <3>8 DEF ListInv
    <3>11. PICK m \in Nat : m = Len(queued) + 2
      BY <3>10
    <3>12. ListInv(d, m)'
      BY <3>10, <3>11, <2>4
    <3> QED
      BY <3>9, <3>12 DEF ItemInv
  <2> QED
    BY <1>2, <2>2, <2>3, <2>4 DEF Linked!LoadNext
<1>3. CASE Linked!LoadSecond \/ Linked!LoadAgain
  <2>1. /\ cpc \in {"second", "again"} /\ tail # Dummy
        /\ UNCHANGED <<link, head, pc, item, prev, cprev, count>>
    BY <1>3, <1>d DEF Linked!LoadSecond, Linked!LoadAgain, DummyPlace
  <2>2. CASE link[tail] # Null /\ Linked!Deliver(link[tail])
    BY <2>1, <2>2, ItemDelivery
  <2>3. CASE Linked!ConsumerAt("head") \/ Linked!ConsumerAt("idle")
    BY <1>1, <1>d, <2>1, <2>3 DEF Linked!ConsumerAt, DummyPlace
  <2> QED
    BY <1>3, <2>2, <2>3 DEF Linked!LoadSecond, Linked!LoadAgain
<1>4. CASE Linked!LoadHead
  <2>1. /\ cpc = "head" /\ tail # Dummy
        /\ UNCHANGED <<link, head, tail, pc, item, prev, result, queued, cprev, count>>
        /\ cpc' = IF head = tail THEN "clear" ELSE "idle"
    BY <1>4, <1>d DEF Linked!LoadHead, Linked!ConsumerAt, Linked!AtHead, DummyPlace
  \* The last object is alone: the dummy is held back.
  <2>2. head = tail => k = Len(queued) + 2
    <3> SUFFICES ASSUME head = tail PROVE k = Len(queued) + 2
      OBVIOUS
    <3>1. Len(c) = 1
      <4>1. 1 \in 1..Len(c) /\ Len(c) \in 1..Len(c) /\ c[1] = c[Len(c)]
        BY <1>d, <1>q DEF ItemList
      <4> QED
        BY <1>d, <4>1 DEF ItemList
    <3>2. 1 # k
      BY <1>t, <1>d, <2>1, <3>1, ListContents DEF ItemList
    <3> QED
      BY <1>d, <1>q, <3>1, <3>2 DEF ItemOrder
  <2>3. DummyPlace(c, k)'
    BY <1>d, <2>1, <2>2 DEF DummyPlace
  <2> QED
    BY <1>1, <2>1, <2>3
<1>5. CASE Linked!ClearDummyLink
  <2>1. /\ cpc = "clear" /\ cpc' = "exchange" /\ link' = [link EXCEPT ![Dummy] = Null]
        /\ UNCHANGED <<head, tail, pc, item, prev, result, queued, cprev, count>>
    BY <1>5 DEF Linked!ClearDummyLink, Linked!ConsumerAt
  <2>2. k = Len(queued) + 2 /\ tail # Dummy
    BY <1>d, <2>1 DEF DummyPlace
  <2>3. \A i \in 1..Len(c) : c[i] # Dummy /\ link'[c[i]] = link[c[i]]
    <3>1. \A i \in 1..Len(c) : i # k
      BY <1>d, <1>q, <2>2 DEF ItemOrder
    <3> QED
      BY <1>t, <1>d, <2>1, <3>1, ListContents DEF Linked!TypeOK
  <2>4. \A i \in Items : link'[i] = link[i]
    BY <1>t, <2>1 DEF Linked!TypeOK
  <2>5. \A i \in 1..Len(c) - 1 : i \in 1..Len(c)
    BY <1>q
  <2>6. ItemList(c)'
    <3>1. Len(c) \in 1..Len(c) /\ head = c[Len(c)]
      BY <1>d, <1>q DEF ItemList
    <3> QED
      BY <1>d, <2>1, <2>3, <2>5, <3>1 DEF ItemList
  <2>7. ItemOrder(c, k)'
    BY <1>d, <2>1 DEF ItemOrder
  <2>8. ItemPlaces(c)'
    BY <1>d, <2>1, <2>3, <2>4, <2>5 DEF ItemPlaces, ItemPlace
  <2>9. DummyPlace(c, k)'
    BY <1>t, <1>d, <2>1, <2>2 DEF DummyPlace, Linked!TypeOK
  <2>10. Linked!TypeOK' /\ ItemsDistinct'
    BY <1>t, <2>1 DEF Linked!TypeOK, ItemsDistinct
  <2> QED
    BY <2>6, <2>7, <2>8, <2>9, <2>10 DEF ItemInv, ListInv
<1>6. CASE Linked!ExchangeDummy
  <2>1. /\ cpc = "exchange" /\ cpc' = "link" /\ cprev' = head /\ head' = Dummy
        /\ UNCHANGED <<link, tail, pc, item, prev, result, queued, count>>
    BY <1>6 DEF Linked!ExchangeDummy, Linked!ConsumerAt
  <2>2. k = Len(queued) + 2 /\ tail # Dummy /\ link[Dummy] = Null /\ Len(c) = Len(queued)
    BY <1>d, <1>q, <2>1 DEF DummyPlace, ItemOrder
  <2>3. \A i \in 1..Len(c) : c[i] # Dummy /\ c[i] = queued[i] /\ i < Len(queued) + 1
    <3>1. \A i \in 1..Len(c) : i # k /\ i < k
      BY <1>q, <2>2
    <3> QED
      BY <1>t, <1>d, <1>q, <2>2, <3>1, ListContents DEF ItemOrder
  <2> PICK d \in Seq(Linked!Linkable) : d = Append(c, Dummy)
    BY AppendIs
  <2>4. /\ Len(d) = Len(c) + 1 /\ d[Len(c) + 1] = Dummy
        /\ \A i \in 1..Len(c) : d[i] = c[i]
        /\ \A i \in 1..Len(d) : i \in 1..Len(c) \/ i = Len(c) + 1
    BY <1>q, AppendIs
  <2>5. ItemList(d)'
    BY <1>t, <1>d, <2>1, <2>2, <2>3, ListExchange
  <2>6. ASSUME NEW m \in Nat, m = Len(queued) + 1 PROVE ItemOrder(d, m)' /\ DummyPlace(d, m)'
    <3>1. \A i \in 1..Len(d) :
              d[i] = IF i < m THEN queued[i] ELSE IF i = m THEN Dummy ELSE queued[i - 1]
      BY <2>2, <2>3, <2>4, <2>6
    <3>2. ItemOrder(d, m)'
      BY <1>q, <2>1, <2>2, <2>4, <2>6, <3>1 DEF ItemOrder
    <3>3. m \in 2..Len(d) /\ d[m - 1] = head /\ link[head] = Null
      <4>1. Len(c) > 0 /\ c[Len(c)] = head /\ link[head] = Null
        BY <1>d DEF ItemList
      <4>2. m \in 2..Len(d) /\ m - 1 = Len(c) /\ Len(c) \in 1..Len(c)
        BY <1>q, <2>2, <2>4, <2>6, <4>1
      <4> QED
        BY <2>4, <4>1, <4>2
    <3> QED
      BY <2>1, <2>2, <3>2, <3>3 DEF DummyPlace
  <2>7. ItemPlaces(d)'
    <3>1. ASSUME NEW r \in Producers PROVE item[r] # Dummy
      BY <1>t DEF Linked!TypeOK
    <3> QED
      BY <1>d, <2>1, <3>1, PlaceExchange DEF ItemPlaces
  <2>8. Linked!TypeOK' /\ ItemsDistinct'
    BY <1>t, <2>1 DEF Linked!TypeOK, ItemsDistinct
  <2>9. PICK m \in Nat : m = Len(queued) + 1
    BY <1>q
  <2>10. ListInv(d, m)'
    BY <2>5, <2>6, <2>7, <2>9 DEF ListInv
  <2> QED
    BY <2>8, <2>10 DEF ItemInv
<1>7. CASE Linked!LinkDummy
  <2>1. /\ cpc = "link" /\ cpc' = "again" /\ link' = [link EXCEPT ![cprev] = Dummy]
        /\ cprev' = Null /\ UNCHANGED <<head, tail, pc, item, prev, result, queued, count>>
    BY <1>7 DEF Linked!LinkDummy, Linked!ConsumerAt
  <2>2. k \in 2..Len(c) /\ cprev = c[k - 1] /\ tail # Dummy
    BY <1>d, <2>1 DEF DummyPlace
  <2>3. PICK j \in 1..Len(c) - 1 : j = k - 1 /\ j + 1 = k
    BY <1>q, <2>2
  <2>4. c[j + 1] = Dummy /\ link' = [link EXCEPT ![c[j]] = c[j + 1]] /\ c[j] \in Linked!Linkable
    <3>1. k \in 1..Len(c) /\ j \in 1..Len(c)
      BY <1>q, <2>2, <2>3
    <3>2. c[k] = Dummy
      BY <1>t, <1>d, <3>1, ListContents
    <3>3. c[j + 1] = Dummy /\ c[j] = cprev
      BY <2>2, <2>3, <3>2
    <3>4. c[j] \in Linked!Linkable
      BY <3>1
    <3> QED
      BY <2>1, <3>3, <3>4
  <2>5. ItemList(c)'
    BY <1>t, <1>d, <2>1, <2>4, ListLink
  <2>6. ItemOrder(c, k)'
    BY <1>d, <2>1 DEF ItemOrder
  <2>7. ItemPlaces(c)'
    <3>1. ASSUME NEW r \in Producers PROVE ItemPlace(c, r)'
      <4>1. item[r] # Dummy
        BY <1>t DEF Linked!TypeOK
      <4>2. ItemPlace(c, r) /\ item[r] # c[j + 1]
        BY <1>d, <2>4, <4>1 DEF ItemPlaces
      <4>3. pc'[r] = pc[r] /\ item'[r] = item[r] /\ prev'[r] = prev[r]
        BY <2>1
      <4> QED
        BY <1>t, <1>d, <2>4, <4>2, <4>3, PlaceLink
    <3> QED
      BY <3>1 DEF ItemPlaces
  <2>8. DummyPlace(c, k)'
    BY <2>1, <2>2 DEF DummyPlace
  <2>9. Linked!TypeOK' /\ ItemsDistinct'
    BY <1>t, <2>1, <2>2, <2>4 DEF Linked!TypeOK, ItemsDistinct
  <2> QED
    BY <2>5, <2>6, <2>7, <2>8, <2>9 DEF ItemInv, ListInv
<1> QED
  BY <1>2, <1>3, <1>4, <1>5, <1>6, <1>7 DEF Linked!Dequeue

\* Hence every step.
LEMMA ItemStep == ItemInv /\ [Linked!Next]_(Linked!vars) => ItemInv'
<1> SUFFICES ASSUME ItemInv, [Linked!Next]_(Linked!vars) PROVE ItemInv'
  OBVIOUS
<1>1. CASE UNCHANGED Linked!vars
  <2>1. Linked!TypeOK' /\ ItemsDistinct'
    BY <1>1 DEF ItemInv, Linked!TypeOK, ItemsDistinct, Linked!vars, Linked!producerVars,
                Linked!consumerVars
  <2>2. ASSUME NEW c, NEW k, ListInv(c, k) PROVE ListInv(c, k)'
    BY <1>1, <2>2 DEF ListInv, ItemList, ItemOrder, ItemPlaces, ItemPlace, DummyPlace,
                      Linked!vars, Linked!producerVars, Linked!consumerVars
  <2> QED
    BY <2>1, <2>2 DEF ItemInv
<1> QED
  BY <1>1, ItemProducerStep, ItemConsumerStep DEF Linked!Next

\* Where a producer or the consumer is about to write is in the list.
LEMMA ItemSafe == ItemInv => Linked!NoWriteAfterDelivery
<1> SUFFICES ASSUME ItemInv PROVE Linked!NoWriteAfterDelivery
  OBVIOUS
<1>t. Linked!TypeOK
  BY DEF ItemInv
<1>c. PICK c \in Seq(Linked!Linkable), k \in Nat : ListInv(c, k)
  BY DEF ItemInv
<1>d. ItemList(c) /\ ItemOrder(c, k) /\ ItemPlaces(c) /\ DummyPlace(c, k)
  BY <1>c DEF ListInv
<1>q. queued \in Seq(Items) /\ Len(queued) \in Nat /\ Len(c) \in Nat
  BY <1>t DEF Linked!TypeOK
<1>1. \A i \in 1..Len(c) : c[i] \in Linked!Range(queued) \cup {Dummy}
  <2>1. \A i \in 1..Len(c) : c[i] # Dummy => \E j \in 1..Len(queued) : c[i] = queued[j]
    BY <1>t, <1>d, ListContents
  <2> QED
    BY <1>q, <2>1 DEF Linked!Range
<1>2. ASSUME NEW p \in Producers, prev[p] # Null
      PROVE  prev[p] \in Linked!Range(queued) \cup {Dummy}
  <2>1. pc[p] = "link"
    BY <1>t, <1>d, <1>2 DEF Linked!TypeOK, ItemPlaces, ItemPlace
  <2>2. PICK i \in 1..Len(c) - 1 : prev[p] = c[i]
    BY <1>d, <2>1 DEF ItemPlaces, ItemPlace
  <2> QED
    BY <1>q, <1>1, <2>2
<1>3. cprev # Null => cprev \in Linked!Range(queued) \cup {Dummy}
  <2> SUFFICES ASSUME cprev # Null PROVE cprev \in Linked!Range(queued) \cup {Dummy}
    OBVIOUS
  <2>1. k \in 2..Len(c) /\ cprev = c[k - 1]
    BY <1>d DEF DummyPlace
  <2>2. k - 1 \in 1..Len(c)
    BY <1>q, <2>1
  <2> QED
    BY <1>1, <2>1, <2>2
<1> QED
  BY <1>t, <1>2, <1>3 DEF Linked!NoWriteAfterDelivery, Linked!Range, Linked!TypeOK

\* A producer's exchange puts its object in, a delivery takes one out, and the dummy comes
\* and goes unseen.
LEMMA ItemFifo ==
    ItemInv /\ [Linked!Next]_(Linked!vars) => Fifo!Next \/ UNCHANGED <<queued, result>>
<1> SUFFICES ASSUME ItemInv, [Linked!Next]_(Linked!vars) PROVE Fifo!Next \/ UNCHANGED <<queued, result>>
  OBVIOUS
<1>t. Linked!TypeOK
  BY DEF ItemInv
<1>c. PICK c \in Seq(Linked!Linkable), k \in Nat : ListInv(c, k)
  BY DEF ItemInv
<1>d. ItemList(c) /\ ItemOrder(c, k) /\ ItemPlaces(c) /\ DummyPlace(c, k)
  BY <1>c DEF ListInv
<1>q. queued \in Seq(Items) /\ Len(queued) \in Nat
  BY <1>t DEF Linked!TypeOK
<1>1. ASSUME NEW p \in Producers, Linked!ExchangeHead(p) PROVE Fifo!Next
  <2>1. /\ item[p] \in Items /\ queued' = Append(queued, item[p]) /\ result' = result
        /\ \A i \in 1..Len(c) : c[i] # item[p]
    BY <1>1, <1>d DEF Linked!ExchangeHead, Linked!consumerVars, ItemPlaces, ItemPlace
  <2>2. \A j \in 1..Len(queued) : \E i \in 1..Len(c) : c[i] = queued[j]
    BY <1>t, <1>d, ListContents
  <2>3. item[p] \notin Fifo!Range(queued)
    <3>1. \A j \in 1..Len(queued) : queued[j] # item[p]
      BY <2>1, <2>2
    <3> QED
      BY <1>q, <3>1 DEF Fifo!Range
  <2> QED
    BY <2>1, <2>3 DEF Fifo!Put, Fifo!Next
<1>2. ASSUME tail # Dummy, link[tail] # Null, Linked!Deliver(link[tail]),
             UNCHANGED <<link, head, pc, item, prev, cprev, count>>, cpc # "link"
      PROVE  Fifo!Next
  BY <1>2, ItemDelivery DEF Linked!Deliver, Fifo!Get, Fifo!Next
<1>3. CASE Linked!LoadNext
  <2>1. CASE tail # Dummy /\ link[tail] # Null /\ Linked!Deliver(link[tail])
    BY <1>2, <1>3, <2>1 DEF Linked!LoadNext, Linked!producerVars
  <2> QED
    BY <1>3, <2>1 DEF Linked!LoadNext, Linked!ConsumerAt
<1>4. CASE Linked!LoadSecond \/ Linked!LoadAgain
  <2>1. cpc # "link" /\ tail # Dummy /\ UNCHANGED <<link, head, pc, item, prev, cprev, count>>
    BY <1>4, <1>d DEF Linked!LoadSecond, Linked!LoadAgain, Linked!producerVars, DummyPlace
  <2>2. CASE link[tail] # Null /\ Linked!Deliver(link[tail])
    BY <1>2, <2>1, <2>2
  <2> QED
    BY <1>4, <2>2 DEF Linked!LoadSecond, Linked!LoadAgain, Linked!ConsumerAt
<1>5. CASE Linked!LoadHead \/ Linked!ClearDummyLink \/ Linked!ExchangeDummy \/ Linked!LinkDummy
  BY <1>5 DEF Linked!LoadHead, Linked!ClearDummyLink, Linked!ExchangeDummy, Linked!LinkDummy,
              Linked!ConsumerAt
<1>6. ASSUME NEW p \in Producers, NEW i \in Items, Linked!ClearLink(p, i)
      PROVE  UNCHANGED <<queued, result>>
  BY <1>6 DEF Linked!ClearLink, Linked!consumerVars
<1>7. ASSUME NEW p \in Producers, Linked!LinkPrevious(p) PROVE UNCHANGED <<queued, result>>
  BY <1>7 DEF Linked!LinkPrevious, Linked!consumerVars
<1> QED
  BY <1>1, <1>3, <1>4, <1>5, <1>6, <1>7
     DEF Linked!Next, Linked!Enqueue, Linked!Dequeue, Linked!vars

--------------------------------------------------------------------------------
(* Either queue                                                             *)

\* The list of the queue that was chosen, for good, when the type was defined.
ListInvariant == intrusive \in BOOLEAN /\ IF intrusive THEN ItemInv ELSE NodeInv

\* Either queue starts as a list of one node.
LEMMA ListInvariantInit == Init => ListInvariant
BY ItemInit, NodeInit DEF Init, ListInvariant

\* A step of the queue is a step of the one that was chosen.
LEMMA ChosenStep ==
    ASSUME ListInvariant, [Next]_vars
    PROVE  /\ intrusive' = intrusive
           /\ intrusive => [Linked!Next]_(Linked!vars)
           /\ ~intrusive => [Noded!Next]_(Noded!vars)
<1>1. CASE Next
  BY <1>1 DEF Next, Chosen, linkVars, nodeVars
<1>2. CASE UNCHANGED vars
  BY <1>2 DEF vars, linkVars, nodeVars, Linked!vars, Linked!producerVars,
              Linked!consumerVars, Noded!vars
<1> QED
  BY <1>1, <1>2

\* And either stays a list.
LEMMA ListInvariantStep == ListInvariant /\ [Next]_vars => ListInvariant'
<1> SUFFICES ASSUME ListInvariant, [Next]_vars PROVE ListInvariant'
  OBVIOUS
<1>1. CASE intrusive = TRUE
  BY <1>1, ChosenStep, ItemStep DEF ListInvariant
<1>2. CASE intrusive = FALSE
  BY <1>2, ChosenStep, NodeStep DEF ListInvariant
<1> QED
  BY <1>1, <1>2 DEF ListInvariant

\* Between the atomic operations of any number of producers and of the consumer, the queue
\* is a list from _tail to _head, with or without the allocation of nodes.
THEOREM QueueIsAList == Spec => []ListInvariant
<1>1. Init => ListInvariant
  BY ListInvariantInit
<1>2. ListInvariant /\ [Next]_vars => ListInvariant'
  BY ListInvariantStep
<1> QED
  BY <1>1, <1>2, PTL DEF Spec

\* The links, the heads and tails and the threads' own variables keep their types.
THEOREM QueueTypes == Spec => []TypeOK
<1>1. ListInvariant => TypeOK
  BY DEF ListInvariant, ItemInv, NodeInv, TypeOK
<1> QED
  BY <1>1, QueueIsAList, PTL

\* No producer and no Dequeue writes a link into an object that has been handed out, or a
\* node that has been freed, although each does so some time after its exchange.
THEOREM NobodyWritesAfterRelease == Spec => []NoWriteAfterRelease
<1>1. ListInvariant => NoWriteAfterRelease
  BY ItemSafe, NodeSafe DEF ListInvariant, NoWriteAfterRelease
<1> QED
  BY <1>1, QueueIsAList, PTL

\* Every atomic operation of either queue is a step of a first-in first-out queue, or none
\* of its concern: the value that a successful Dequeue reads from the list, the object at
\* _tail or the Data of the node behind it, is the one that has been inside for longest.
THEOREM QueueIsFifo == Spec => Fifo!Init /\ [][Fifo!Next]_<<queued, result>>
<1>1. Init => Fifo!Init
  BY DEF Init, Linked!Init, Noded!Init, Fifo!Init
<1>2. ListInvariant /\ [Next]_vars => [Fifo!Next]_<<queued, result>>
  <2> SUFFICES ASSUME ListInvariant, [Next]_vars PROVE Fifo!Next \/ UNCHANGED <<queued, result>>
    OBVIOUS
  <2>1. CASE intrusive = TRUE
    BY <2>1, ChosenStep, ItemFifo DEF ListInvariant
  <2>2. CASE intrusive = FALSE
    BY <2>2, ChosenStep, NodeFifo DEF ListInvariant
  <2> QED
    BY <2>1, <2>2 DEF ListInvariant
<1> QED
  BY <1>1, <1>2, QueueIsAList, PTL DEF Spec
================================================================================
