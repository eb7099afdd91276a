--------------------------- MODULE RendezvousProofs ---------------------------
(***************************************************************************)
(* What LocalRendezvous keeps, for any number of keys, calls and managers:  *)
(* the queues of the table, one call of done per request, and the           *)
(* reference count.                                                         *)
(*                                                                         *)
(* The parts of the invariant take the state as arguments, so that they can *)
(* also be stated of what an action has computed on its way.                *)
(***************************************************************************)
EXTENDS LocalRendezvous, FiniteSetTheorems, SequenceTheorems, WellFoundedInduction, TLAPS

Items == Sends \cup Recvs

AllIn(queue, S) == \A i \in 1 .. Len(queue) : queue[i] \in S

(* The table t fits the requests q: a queue has one kind of item, and holds *)
(* a request exactly while it waits, once and under its key.                *)
TableOK(t, q) ==
    /\ t \in [Keys -> Seq(Items)]
    /\ \A k \in Keys : AllIn(t[k], Sends) \/ AllIn(t[k], Recvs)
    /\ \A k \in Keys : \A i \in 1 .. Len(t[k]) :
          t[k][i] \in Recvs => q[t[k][i]].pc = "queued" /\ q[t[k][i]].key = k
    /\ \A k \in Keys : \A i, j \in 1 .. Len(t[k]) :
          t[k][i] \in Recvs /\ t[k][i] = t[k][j] => i = j
    /\ \A r \in Recvs : q[r].pc = "queued" =>
          q[r].key \in Keys /\ \E i \in 1 .. Len(t[q[r].key]) : t[q[r].key][i] = r

(* The request x, its cancel callback b and the managers c fit together.    *)
RequestOK(x, b, c) ==
    /\ x.called = IF x.pc = "done" THEN 1 ELSE 0
    /\ x.result = "none" <=> x.pc \in {"idle", "queued"}
    /\ x.pc \in {"idle", "refused"} => b = "none"
    /\ x.pc = "unref" => b = "deregistered"
    /\ x.pc \in {"queued", "taken"} /\ x.cm # NoCM => b \notin {"none", "deregistered"}
    /\ x.pc = "taken" => x.cm # NoCM
    /\ x.cm = NoCM => b = "none" /\ x.token = kInvalidToken
    /\ b = "registered" => c[x.cm] = "live"
    /\ b \in {"to_run", "waiter", "unref", "ran"} => c[x.cm] # "live"
    /\ b # "none" => x.token >= 0

RequestInv == \A r \in Recvs : RequestOK(req[r], cb[r], cm)

(* Who holds a reference that RecvAsync took.                               *)
Holds(x, b) == x.pc \in {"refused", "unref"} \/ b \in {"registered", "to_run", "waiter", "unref"}
Holders(q, b) == {r \in Recvs : Holds(q[r], b[r])}

CountInv ==
    /\ IsFiniteSet(Holders(req, cb))
    /\ rc = Cardinality(Holders(req, cb)) + (IF client THEN 1 ELSE 0)
    /\ deleted <=> rc = 0
    /\ deleted => \A r \in Recvs : req[r].pc # "queued"

(* Of the messages s that were sent, d have been received, and the ones in  *)
(* the queue are those that have not.                                       *)
MessagesOK(queue, s, d) ==
    \/ /\ AllIn(queue, Sends)
       /\ Len(s) = Len(d) + Len(queue)
       /\ \A i \in 1 .. Len(queue) : s[Len(d) + i] = queue[i]
    \/ AllIn(queue, Recvs) /\ Len(s) = Len(d)

MessagesInv ==
    status = "OK" /\ ~deleted => \A k \in Keys : MessagesOK(table[k], sent[k], received[k])

RendezvousInv == TableOK(table, req) /\ RequestInv /\ CountInv /\ MessagesInv

-----------------------------------------------------------------------------
(* Operations on a queue.                                                   *)

LEMMA AppendItem ==
    ASSUME NEW S, NEW queue \in Seq(S), NEW item \in S
    PROVE  /\ Append(queue, item) \in Seq(S)
           /\ Len(Append(queue, item)) = Len(queue) + 1
           /\ \A i \in 1 .. Len(queue) + 1 :
                 Append(queue, item)[i] = IF i <= Len(queue) THEN queue[i] ELSE item
  <1>1. Len(queue) \in Nat
    BY LenProperties
  <1> QED BY <1>1, AppendProperties

(* What is left of a queue without its item i.                              *)
Without(u, queue, i) ==
    /\ Len(u) = Len(queue) - 1
    /\ \A j \in 1 .. Len(u) : u[j] = IF j < i THEN queue[j] ELSE queue[j + 1]

LEMMA TailItem ==
    ASSUME NEW queue \in Seq(Items), queue # <<>>
    PROVE  /\ Tail(queue) \in Seq(Items) /\ Without(Tail(queue), queue, 1)
           /\ 1 \in 1 .. Len(queue) /\ Head(queue) = queue[1]
  <1>1. Len(queue) \in Nat \ {0}
    BY LenProperties, EmptySeq
  <1>2. Tail(queue) \in Seq(Items) /\ Len(Tail(queue)) = Len(queue) - 1
    BY HeadTailProperties
  <1>3. \A i \in 1 .. Len(Tail(queue)) : Tail(queue)[i] = queue[i + 1]
    BY HeadTailProperties
  <1>4. Head(queue) = queue[1]
    BY <1>1
  <1> QED BY <1>1, <1>2, <1>3, <1>4 DEF Without

LEMMA RemoveItem ==
    ASSUME NEW queue \in Seq(Items), NEW i \in 1 .. Len(queue)
    PROVE  RemoveAt(queue, i) \in Seq(Items) /\ Without(RemoveAt(queue, i), queue, i)
  <1>1. Len(queue) \in Nat /\ i \in Nat /\ \A j \in 1 .. Len(queue) : queue[j] \in Items
    BY LenProperties, ElementOfSeq
  <1> DEFINE a == SubSeq(queue, 1, i - 1)
             b == SubSeq(queue, i + 1, Len(queue))
  <1>2. /\ a \in Seq(Items) /\ Len(a) = i - 1
        /\ \A j \in 1 .. i - 1 : a[j] = queue[j]
    <2>1. \A j \in 1 .. i - 1 : queue[j] \in Items
      BY <1>1
    <2>2. /\ a \in Seq(Items) /\ Len(a) = IF 1 <= i - 1 THEN (i - 1) - 1 + 1 ELSE 0
          /\ \A j \in 1 .. (i - 1) - 1 + 1 : a[j] = queue[1 + j - 1]
      BY <1>1, <2>1, SubSeqProperties
    <2> HIDE DEF a
    <2> QED BY <1>1, <2>2
  <1>3. /\ b \in Seq(Items) /\ Len(b) = Len(queue) - i
        /\ \A j \in 1 .. Len(queue) - i : b[j] = queue[i + j]
    <2>1. \A j \in i + 1 .. Len(queue) : queue[j] \in Items
      BY <1>1
    <2>2. /\ b \in Seq(Items)
          /\ Len(b) = IF i + 1 <= Len(queue) THEN Len(queue) - (i + 1) + 1 ELSE 0
          /\ \A j \in 1 .. Len(queue) - (i + 1) + 1 : b[j] = queue[(i + 1) + j - 1]
      BY <1>1, <2>1, SubSeqProperties
    <2> HIDE DEF b
    <2> QED BY <1>1, <2>2
  <1>4. PICK w : w = RemoveAt(queue, i)
    OBVIOUS
  <1>5. w = a \o b
    BY <1>4 DEF RemoveAt
  <1> HIDE DEF a, b
  <1>6. /\ w \in Seq(Items) /\ Len(w) = Len(a) + Len(b)
        /\ \A j \in 1 .. Len(a) + Len(b) : w[j] = IF j <= Len(a) THEN a[j] ELSE b[j - Len(a)]
    BY <1>2, <1>3, <1>5, ConcatProperties
  <1>7. ASSUME NEW j \in 1 .. Len(queue) - 1
        PROVE  w[j] = IF j < i THEN queue[j] ELSE queue[j + 1]
    <2>1. CASE j < i
      BY <1>1, <1>2, <1>3, <1>6, <2>1
    <2>2. CASE ~(j < i)
      <3>1. j - (i - 1) \in 1 .. Len(queue) - i /\ i + (j - (i - 1)) = j + 1
        BY <1>1, <2>2
      <3>2. b[j - (i - 1)] = queue[j + 1]
        BY <1>3, <3>1
      <3>3. w[j] = b[j - (i - 1)]
        <4>1. j \in 1 .. Len(a) + Len(b) /\ ~(j <= Len(a)) /\ Len(a) = i - 1
          BY <1>1, <1>2, <1>3, <2>2
        <4>2. w[j] = b[j - Len(a)]
          BY <1>6, <4>1
        <4> QED BY <4>1, <4>2
      <3> QED BY <2>2, <3>2, <3>3
    <2> QED BY <2>1, <2>2
  <1>8. Len(w) = Len(queue) - 1
    BY <1>1, <1>2, <1>3, <1>6
  <1>9. Without(w, queue, i)
    BY <1>7, <1>8 DEF Without
  <1> QED BY <1>4, <1>6, <1>9

-----------------------------------------------------------------------------
(* Operations on the table.                                                 *)

(* Requests move, but not into or out of the table.                         *)
LEMMA TableSame ==
    ASSUME NEW t, NEW q, NEW q2, TableOK(t, q),
           \A r \in Recvs : /\ q2[r].pc = "queued" <=> q[r].pc = "queued"
                            /\ q[r].pc = "queued" => q2[r].key = q[r].key
    PROVE  TableOK(t, q2)
  BY DEF TableOK

(* A message is queued.                                                     *)
LEMMA TablePushSend ==
    ASSUME NEW t, NEW q, TableOK(t, q), NEW k \in Keys, NEW v \in Sends, AllIn(t[k], Sends)
    PROVE  TableOK([t EXCEPT ![k] = Append(@, v)], q)
  <1> DEFINE u == Append(t[k], v)
             t2 == [t EXCEPT ![k] = Append(@, v)]
  <1>1. t[k] \in Seq(Items) /\ Len(t[k]) \in Nat /\ v \in Items /\ v \notin Recvs
    BY LenProperties, DisjointAssumption DEF TableOK, Items
  <1>2. /\ u \in Seq(Items) /\ Len(u) = Len(t[k]) + 1
        /\ \A i \in 1 .. Len(t[k]) + 1 : u[i] = IF i <= Len(t[k]) THEN t[k][i] ELSE v
    BY <1>1, AppendItem
  <1>3. /\ t2 \in [Keys -> Seq(Items)] /\ t2[k] = u
        /\ \A l \in Keys \ {k} : t2[l] = t[l]
    BY <1>2 DEF TableOK
  <1> HIDE DEF u, t2
  <1>4. AllIn(t2[k], Sends)
    BY <1>1, <1>2, <1>3 DEF AllIn
  <1>5. \A i \in 1 .. Len(t2[k]) : t2[k][i] \notin Recvs
    BY <1>4, DisjointAssumption DEF AllIn
  <1>6. \A i \in 1 .. Len(t[k]) : t[k][i] \notin Recvs
    BY DisjointAssumption DEF AllIn
  <1>7. TableOK(t2, q)
    <2>1. \A l \in Keys : AllIn(t2[l], Sends) \/ AllIn(t2[l], Recvs)
      BY <1>3, <1>4 DEF TableOK
    <2>2. \A l \in Keys : \A i \in 1 .. Len(t2[l]) :
              t2[l][i] \in Recvs => q[t2[l][i]].pc = "queued" /\ q[t2[l][i]].key = l
      BY <1>3, <1>5 DEF TableOK
    <2>3. \A l \in Keys : \A i, j \in 1 .. Len(t2[l]) :
              t2[l][i] \in Recvs /\ t2[l][i] = t2[l][j] => i = j
      BY <1>3, <1>5 DEF TableOK
    <2>4. ASSUME NEW r \in Recvs, q[r].pc = "queued"
          PROVE  q[r].key \in Keys /\ \E i \in 1 .. Len(t2[q[r].key]) : t2[q[r].key][i] = r
      <3>1. PICK i \in 1 .. Len(t[q[r].key]) : q[r].key \in Keys /\ t[q[r].key][i] = r
        BY <2>4 DEF TableOK
      <3>2. q[r].key # k
        BY <1>6, <3>1
      <3> QED BY <1>3, <3>1, <3>2
    <2> QED BY <1>3, <2>1, <2>2, <2>3, <2>4 DEF TableOK
  <1> QED BY <1>7 DEF t2

(* A request is queued.                                                     *)
LEMMA TablePushRecv ==
    ASSUME NEW t, NEW q, NEW q2, TableOK(t, q), NEW k \in Keys, NEW x \in Recvs, AllIn(t[k], Recvs),
           q[x].pc # "queued", q2[x].pc = "queued", q2[x].key = k,
           \A r \in Recvs \ {x} : q2[r] = q[r],
           NEW t2, t2 = [t EXCEPT ![k] = Append(@, x)]
    PROVE  TableOK(t2, q2)
  <1> DEFINE u == Append(t[k], x)
  <1>1. t[k] \in Seq(Items) /\ Len(t[k]) \in Nat /\ x \in Items
    BY LenProperties DEF TableOK, Items
  <1>2. /\ u \in Seq(Items) /\ Len(u) = Len(t[k]) + 1
        /\ \A i \in 1 .. Len(t[k]) + 1 : u[i] = IF i <= Len(t[k]) THEN t[k][i] ELSE x
    BY <1>1, AppendItem
  <1>3. /\ t2 \in [Keys -> Seq(Items)] /\ t2[k] = u
        /\ \A l \in Keys \ {k} : t2[l] = t[l]
    BY <1>2 DEF TableOK
  <1> HIDE DEF u
  <1>4. AllIn(t2[k], Recvs)
    BY <1>1, <1>2, <1>3 DEF AllIn
  <1>5. \A l \in Keys : \A i \in 1 .. Len(t[l]) : t[l][i] # x
    BY DEF TableOK
  <1>6. \A l \in Keys : AllIn(t2[l], Sends) \/ AllIn(t2[l], Recvs)
    BY <1>3, <1>4 DEF TableOK
  <1>7. ASSUME NEW l \in Keys, NEW i \in 1 .. Len(t2[l]), t2[l][i] \in Recvs
        PROVE  q2[t2[l][i]].pc = "queued" /\ q2[t2[l][i]].key = l
    <2>1. CASE t2[l][i] = x
      <3>1. l = k
        BY <1>3, <1>5, <2>1
      <3> QED BY <2>1, <3>1
    <2>2. CASE t2[l][i] # x
      <3>1. i \in 1 .. Len(t[l]) /\ t2[l][i] = t[l][i]
        BY <1>1, <1>2, <1>3, <2>2
      <3> QED BY <1>7, <2>2, <3>1 DEF TableOK
    <2> QED BY <2>1, <2>2
  <1>8. ASSUME NEW l \in Keys, NEW i \in 1 .. Len(t2[l]), NEW j \in 1 .. Len(t2[l]),
               t2[l][i] \in Recvs, t2[l][i] = t2[l][j]
        PROVE  i = j
    <2>1. CASE l # k
      BY <1>3, <1>8, <2>1 DEF TableOK
    <2>2. CASE l = k
      <3>1. /\ i = Len(t[k]) + 1 \/ (i \in 1 .. Len(t[k]) /\ u[i] = t[k][i])
            /\ j = Len(t[k]) + 1 \/ (j \in 1 .. Len(t[k]) /\ u[j] = t[k][j])
            /\ u[Len(t[k]) + 1] = x
        BY <1>1, <1>2, <1>3, <2>2
      <3> QED BY <1>3, <1>5, <1>8, <2>2, <3>1 DEF TableOK
    <2> QED BY <2>1, <2>2
  <1>9. ASSUME NEW r \in Recvs, q2[r].pc = "queued"
        PROVE  q2[r].key \in Keys /\ \E i \in 1 .. Len(t2[q2[r].key]) : t2[q2[r].key][i] = r
    <2>1. CASE r = x
      <3>1. Len(t[k]) + 1 \in 1 .. Len(t2[k]) /\ t2[k][Len(t[k]) + 1] = x
        BY <1>1, <1>2, <1>3
      <3> QED BY <2>1, <3>1
    <2>2. CASE r # x
      <3>1. PICK l \in Keys : l = q2[r].key /\ q[r] = q2[r]
        BY <1>9, <2>2 DEF TableOK
      <3>2. PICK i \in 1 .. Len(t[l]) : t[l][i] = r
        BY <1>9, <3>1 DEF TableOK
      <3>3. i \in 1 .. Len(t2[l]) /\ t2[l][i] = r
        BY <1>1, <1>2, <1>3, <3>2
      <3> QED BY <3>1, <3>3
    <2> QED BY <2>1, <2>2
  <1> QED BY <1>3, <1>6, <1>7, <1>8, <1>9 DEF TableOK

(* An item leaves the queue of k; a request that does waits no more.        *)
LEMMA TableTake ==
    ASSUME NEW t, NEW q, NEW q2, TableOK(t, q), NEW k \in Keys, NEW i \in 1 .. Len(t[k]),
           NEW t2 \in [Keys -> Seq(Items)], Without(t2[k], t[k], i),
           \A l \in Keys \ {k} : t2[l] = t[l],
           \A r \in Recvs : r = t[k][i] => q2[r].pc # "queued",
           \A r \in Recvs : r # t[k][i] => q2[r] = q[r]
    PROVE  TableOK(t2, q2)
  <1>1. PICK u \in Seq(Items) : u = t2[k] /\ Without(u, t[k], i)
    OBVIOUS
  <1>2. t[k] \in Seq(Items) /\ Len(t[k]) \in Nat /\ i \in Nat /\ Len(u) \in Nat
    BY LenProperties DEF TableOK
  <1>3. ASSUME NEW j \in 1 .. Len(u)
        PROVE  \E n \in 1 .. Len(t[k]) : n # i /\ u[j] = t[k][n] /\ n = IF j < i THEN j ELSE j + 1
    <2>1. CASE j < i
      <3>1. j \in 1 .. Len(t[k]) /\ j # i
        BY <1>1, <1>2, <2>1 DEF Without
      <3> QED BY <1>1, <2>1, <3>1 DEF Without
    <2>2. CASE ~(j < i)
      <3>1. j + 1 \in 1 .. Len(t[k]) /\ j + 1 # i
        BY <1>1, <1>2, <2>2 DEF Without
      <3> QED BY <1>1, <2>2, <3>1 DEF Without
    <2> QED BY <2>1, <2>2
  <1>4. ASSUME NEW n \in 1 .. Len(t[k]), n # i PROVE \E j \in 1 .. Len(u) : u[j] = t[k][n]
    <2>1. CASE n < i
      <3>1. n \in 1 .. Len(u)
        BY <1>1, <1>2, <2>1 DEF Without
      <3> QED BY <1>1, <2>1, <3>1 DEF Without
    <2>2. CASE n > i
      <3>1. n - 1 \in 1 .. Len(u) /\ ~(n - 1 < i) /\ (n - 1) + 1 = n
        BY <1>1, <1>2, <2>2 DEF Without
      <3> QED BY <1>1, <3>1 DEF Without
    <2> QED BY <1>2, <1>4, <2>1, <2>2
  <1>5. \A l \in Keys : AllIn(t2[l], Sends) \/ AllIn(t2[l], Recvs)
    <2>1. ASSUME NEW S, AllIn(t[k], S) PROVE AllIn(u, S)
      BY <1>3, <2>1 DEF AllIn
    <2> QED BY <1>1, <2>1 DEF TableOK
  <1>6. ASSUME NEW l \in Keys, NEW j \in 1 .. Len(t2[l]), t2[l][j] \in Recvs
        PROVE  q2[t2[l][j]].pc = "queued" /\ q2[t2[l][j]].key = l
    <2>1. PICK n \in 1 .. Len(t[l]) : t2[l][j] = t[l][n] /\ (l = k => n # i)
      <3>1. CASE l = k
        BY <1>1, <1>3, <3>1
      <3>2. CASE l # k
        BY <3>2
      <3> QED BY <3>1, <3>2
    <2>2. q[t[l][n]].pc = "queued" /\ q[t[l][n]].key = l
      BY <1>6, <2>1 DEF TableOK
    <2>3. t[l][n] # t[k][i]
      <3>1. CASE l = k
        BY <1>6, <2>1, <3>1 DEF TableOK
      <3>2. CASE l # k
        BY <1>6, <2>1, <2>2, <3>2 DEF TableOK
      <3> QED BY <3>1, <3>2
    <2> QED BY <1>6, <2>1, <2>2, <2>3
  <1>7. ASSUME NEW l \in Keys, NEW j \in 1 .. Len(t2[l]), NEW m \in 1 .. Len(t2[l]),
               t2[l][j] \in Recvs, t2[l][j] = t2[l][m]
        PROVE  j = m
    <2>1. CASE l # k
      BY <1>7, <2>1 DEF TableOK
    <2>2. CASE l = k
      <3>1. PICK n \in 1 .. Len(t[k]) : u[j] = t[k][n] /\ n = IF j < i THEN j ELSE j + 1
        BY <1>1, <1>3, <2>2
      <3>2. PICK o \in 1 .. Len(t[k]) : u[m] = t[k][o] /\ o = IF m < i THEN m ELSE m + 1
        BY <1>1, <1>3, <2>2
      <3>3. n = o
        BY <1>1, <1>7, <2>2, <3>1, <3>2 DEF TableOK
      <3> QED BY <1>1, <1>2, <2>2, <3>1, <3>2, <3>3
    <2> QED BY <2>1, <2>2
  <1>8. ASSUME NEW r \in Recvs, q2[r].pc = "queued"
        PROVE  q2[r].key \in Keys /\ \E j \in 1 .. Len(t2[q2[r].key]) : t2[q2[r].key][j] = r
    <2>1. q2[r] = q[r] /\ r # t[k][i]
      BY <1>8
    <2>2. PICK l \in Keys : l = q2[r].key
      BY <1>8, <2>1 DEF TableOK
    <2>3. PICK n \in 1 .. Len(t[l]) : t[l][n] = r
      BY <1>8, <2>1, <2>2 DEF TableOK
    <2>4. \E j \in 1 .. Len(t2[l]) : t2[l][j] = r
      <3>1. CASE l = k
        <4>1. n \in 1 .. Len(t[k]) /\ n # i
          BY <2>1, <2>3, <3>1
        <4> QED BY <1>1, <1>4, <2>3, <3>1, <4>1
      <3>2. CASE l # k
        BY <2>3, <3>2
      <3> QED BY <3>1, <3>2
    <2> QED BY <2>2, <2>4
  <1> QED BY <1>5, <1>6, <1>7, <1>8 DEF TableOK

(* The table is emptied.                                                    *)
LEMMA TableEmpty ==
    ASSUME NEW q, \A r \in Recvs : q[r].pc # "queued"
    PROVE  TableOK([k \in Keys |-> <<>>], q)
  <1> DEFINE t == [k \in Keys |-> <<>>]
  <1>1. t \in [Keys -> Seq(Items)] /\ \A k \in Keys : Len(t[k]) = 0
    OBVIOUS
  <1> HIDE DEF t
  <1>2. TableOK(t, q)
    BY <1>1 DEF TableOK, AllIn
  <1> QED BY <1>2 DEF t

-----------------------------------------------------------------------------
(* The messages in the table.                                               *)

(* A queue whose head is not of one kind is of the other.                   *)
LEMMA Uniform ==
    ASSUME NEW t, NEW q, TableOK(t, q), NEW k \in Keys
    PROVE  /\ ~(t[k] # <<>> /\ Head(t[k]) \in Recvs) => AllIn(t[k], Sends)
           /\ ~(t[k] # <<>> /\ Head(t[k]) \in Sends) => AllIn(t[k], Recvs)
           /\ t[k] # <<>> /\ Head(t[k]) \in Recvs => AllIn(t[k], Recvs)
           /\ t[k] # <<>> /\ Head(t[k]) \in Sends => AllIn(t[k], Sends)
  <1>1. t[k] \in Seq(Items) /\ (AllIn(t[k], Sends) \/ AllIn(t[k], Recvs))
    BY DEF TableOK
  <1>2. CASE t[k] = <<>>
    BY <1>2 DEF AllIn
  <1>3. CASE t[k] # <<>>
    <2>1. 1 \in 1 .. Len(t[k]) /\ Head(t[k]) = t[k][1]
      BY <1>1, <1>3, TailItem
    <2> QED BY <1>1, <1>3, <2>1, DisjointAssumption DEF AllIn
  <1> QED BY <1>2, <1>3

LEMMA OfBoth ==
    ASSUME NEW queue \in Seq(Items), AllIn(queue, Sends), AllIn(queue, Recvs)
    PROVE  Len(queue) = 0
  <1>1. Len(queue) \in Nat
    BY LenProperties
  <1>2. ASSUME Len(queue) # 0 PROVE FALSE
    BY <1>1, <1>2, DisjointAssumption DEF AllIn
  <1> QED BY <1>2

LEMMA AllLeft ==
    ASSUME NEW queue \in Seq(Items), NEW i \in 1 .. Len(queue), NEW u, Without(u, queue, i),
           NEW S, AllIn(queue, S)
    PROVE  AllIn(u, S)
  <1>1. Len(queue) \in Nat /\ Len(u) = Len(queue) - 1
    BY LenProperties DEF Without
  <1>2. ASSUME NEW j \in 1 .. Len(u) PROVE u[j] \in S
    <2>1. j \in 1 .. Len(queue) /\ j + 1 \in 1 .. Len(queue)
      BY <1>1
    <2> QED BY <2>1 DEF AllIn, Without
  <1> QED BY <1>2 DEF AllIn

LEMMA MessageQueued ==
    ASSUME NEW queue \in Seq(Items), NEW s \in Seq(Sends), NEW d \in Seq(Sends),
           MessagesOK(queue, s, d), NEW v \in Sends, AllIn(queue, Sends)
    PROVE  MessagesOK(Append(queue, v), Append(s, v), d)
  <1> DEFINE u == Append(queue, v)
             w == Append(s, v)
  <1>1. Len(queue) \in Nat /\ Len(s) \in Nat /\ Len(d) \in Nat /\ v \in Items
    BY LenProperties DEF Items
  <1>2. /\ Len(u) = Len(queue) + 1
        /\ \A i \in 1 .. Len(queue) + 1 : u[i] = IF i <= Len(queue) THEN queue[i] ELSE v
    BY <1>1, AppendItem
  <1>3. /\ Len(w) = Len(s) + 1
        /\ \A i \in 1 .. Len(s) + 1 : w[i] = IF i <= Len(s) THEN s[i] ELSE v
    BY <1>1, AppendItem
  <1> HIDE DEF u, w
  <1>4. /\ Len(s) = Len(d) + Len(queue)
        /\ \A i \in 1 .. Len(queue) : s[Len(d) + i] = queue[i]
    <2>1. CASE AllIn(queue, Recvs) /\ Len(s) = Len(d)
      BY <1>1, <2>1, OfBoth
    <2> QED BY <2>1 DEF MessagesOK
  <1>5. AllIn(u, Sends)
    BY <1>1, <1>2 DEF AllIn
  <1>6. Len(w) = Len(d) + Len(u)
    BY <1>1, <1>2, <1>3, <1>4
  <1>7. ASSUME NEW i \in 1 .. Len(u) PROVE w[Len(d) + i] = u[i]
    <2>1. CASE i <= Len(queue)
      <3>1. i \in 1 .. Len(queue) /\ Len(d) + i \in 1 .. Len(s) + 1 /\ Len(d) + i <= Len(s)
        BY <1>1, <1>2, <1>4, <2>1
      <3> QED BY <1>2, <1>3, <1>4, <2>1, <3>1
    <2>2. CASE i = Len(queue) + 1
      <3>1. Len(d) + i \in 1 .. Len(s) + 1 /\ ~(Len(d) + i <= Len(s)) /\ ~(i <= Len(queue))
        BY <1>1, <1>2, <1>4, <2>2
      <3> QED BY <1>2, <1>3, <3>1
    <2> QED BY <1>1, <1>2, <2>1, <2>2
  <1>8. MessagesOK(u, w, d)
    BY <1>5, <1>6, <1>7 DEF MessagesOK
  <1> QED BY <1>8 DEF u, w

(* A message that a request waits for.                                      *)
LEMMA MessagePassed ==
    ASSUME NEW queue \in Seq(Items), NEW s \in Seq(Sends), NEW d \in Seq(Sends),
           MessagesOK(queue, s, d), NEW v \in Sends, AllIn(queue, Recvs), queue # <<>>
    PROVE  /\ MessagesOK(Tail(queue), Append(s, v), Append(d, v))
           /\ Len(d) < Len(Append(s, v)) /\ Append(s, v)[Len(d) + 1] = v
  <1> DEFINE u == Tail(queue)
             w == Append(s, v)
             e == Append(d, v)
  <1>1. Len(queue) \in Nat \ {0} /\ Len(s) \in Nat /\ Len(d) \in Nat
    BY LenProperties, EmptySeq
  <1>2. Len(w) = Len(s) + 1 /\ w[Len(s) + 1] = v /\ Len(e) = Len(d) + 1
    BY AppendProperties
  <1>3. AllIn(u, Recvs)
    BY TailItem, AllLeft
  <1> HIDE DEF u, w, e
  <1>4. Len(s) = Len(d)
    BY <1>1, OfBoth DEF MessagesOK
  <1>5. MessagesOK(u, w, e)
    BY <1>2, <1>3, <1>4 DEF MessagesOK
  <1>6. Len(d) < Len(w) /\ w[Len(d) + 1] = v
    BY <1>1, <1>2, <1>4
  <1> QED BY <1>5, <1>6 DEF u, w, e

(* A message that is in the table when the request comes.                   *)
LEMMA MessageTaken ==
    ASSUME NEW queue \in Seq(Items), NEW s \in Seq(Sends), NEW d \in Seq(Sends),
           MessagesOK(queue, s, d), AllIn(queue, Sends), queue # <<>>
    PROVE  /\ MessagesOK(Tail(queue), s, Append(d, Head(queue)))
           /\ Len(d) < Len(s) /\ s[Len(d) + 1] = Head(queue) /\ Head(queue) \in Sends
  <1> DEFINE u == Tail(queue)
             v == Head(queue)
             e == Append(d, v)
  <1>1. Len(queue) \in Nat \ {0} /\ Len(s) \in Nat /\ Len(d) \in Nat
    BY LenProperties, EmptySeq
  <1>2. Without(u, queue, 1) /\ v = queue[1] /\ 1 \in 1 .. Len(queue)
    BY TailItem
  <1>3. v \in Sends
    BY <1>2 DEF AllIn
  <1>4. Len(e) = Len(d) + 1
    BY <1>3, AppendProperties
  <1> HIDE DEF u, v, e
  <1>5. AllIn(u, Sends)
    BY <1>2, AllLeft
  <1>6. /\ Len(s) = Len(d) + Len(queue)
        /\ \A i \in 1 .. Len(queue) : s[Len(d) + i] = queue[i]
    <2>1. CASE AllIn(queue, Recvs) /\ Len(s) = Len(d)
      BY <1>1, <2>1, OfBoth
    <2> QED BY <2>1 DEF MessagesOK
  <1>7. Len(u) = Len(queue) - 1 /\ Len(s) = Len(e) + Len(u)
    BY <1>1, <1>2, <1>4, <1>6 DEF Without
  <1>8. ASSUME NEW i \in 1 .. Len(u) PROVE s[Len(e) + i] = u[i]
    <2>1. i + 1 \in 1 .. Len(queue) /\ Len(e) + i = Len(d) + (i + 1) /\ ~(i < 1)
      BY <1>1, <1>4, <1>7
    <2>2. u[i] = queue[i + 1]
      BY <1>2, <2>1 DEF Without
    <2>3. s[Len(d) + (i + 1)] = queue[i + 1]
      BY <1>6, <2>1
    <2> QED BY <2>1, <2>2, <2>3
  <1>9. MessagesOK(u, s, e)
    BY <1>5, <1>7, <1>8 DEF MessagesOK
  <1>10. Len(d) < Len(s) /\ s[Len(d) + 1] = v
    BY <1>1, <1>2, <1>6
  <1> QED BY <1>3, <1>9, <1>10 DEF u, v, e

(* Requests come and go in a queue.                                         *)
LEMMA MessagesStay ==
    ASSUME NEW queue \in Seq(Items), NEW u, NEW s \in Seq(Sends), NEW d \in Seq(Sends),
           MessagesOK(queue, s, d), AllIn(queue, Recvs), AllIn(u, Recvs)
    PROVE  MessagesOK(u, s, d)
  <1>1. Len(s) \in Nat /\ Len(d) \in Nat
    BY LenProperties
  <1>2. Len(s) = Len(d)
    <2>1. CASE AllIn(queue, Sends) /\ Len(s) = Len(d) + Len(queue)
      BY <1>1, <2>1, OfBoth
    <2> QED BY <2>1 DEF MessagesOK
  <1> QED BY <1>2 DEF MessagesOK

-----------------------------------------------------------------------------
(* Requests and references.                                                 *)

Results == Sends \cup {"CANCELLED", "ABORTED"}

(* A request that leaves the table.                                         *)
LEMMA CompletedOK ==
    ASSUME NEW x \in Request, NEW b, NEW c, RequestOK(x, b, c), x.pc = "queued",
           NEW result \in Results
    PROVE  /\ Completed(x, result) \in Request /\ RequestOK(Completed(x, result), b, c)
           /\ Completed(x, result).pc \in {"call_done", "taken"}
           /\ Completed(x, result).result = result
           /\ Completed(x, result).key = x.key /\ Completed(x, result).cm = x.cm
           /\ Holds(Completed(x, result), b) <=> Holds(x, b)
  <1> DEFINE y == Completed(x, result)
  <1>1. result # "none" /\ result \in {"none", "CANCELLED", "ABORTED"} \cup Sends
    BY DisjointAssumption DEF Results
  <1>2. y \in Request
    BY <1>1 DEF Completed, Request
  <1>3. /\ y.pc = IF x.cm = NoCM THEN "call_done" ELSE "taken"
        /\ y.result = result /\ y.key = x.key /\ y.cm = x.cm /\ y.token = x.token
        /\ y.called = x.called
    BY DEF Completed, Request
  <1> HIDE DEF y
  <1>4. RequestOK(y, b, c)
    BY <1>1, <1>3 DEF RequestOK
  <1>5. Holds(y, b) <=> Holds(x, b)
    BY <1>3 DEF Holds
  <1> QED BY <1>2, <1>3, <1>4, <1>5 DEF y

LEMMA AbortTableOK ==
    ASSUME NEW q \in [Recvs -> Request], NEW b, NEW c, \A r \in Recvs : RequestOK(q[r], b[r], c)
    PROVE  /\ AbortTable(q) \in [Recvs -> Request]
           /\ \A r \in Recvs : /\ RequestOK(AbortTable(q)[r], b[r], c)
                               /\ AbortTable(q)[r].pc # "queued"
                               /\ q[r].pc # "queued" => AbortTable(q)[r] = q[r]
                               /\ q[r].pc = "queued" =>
                                     AbortTable(q)[r] = Completed(q[r], "ABORTED")
           /\ Holders(AbortTable(q), b) = Holders(q, b)
  <1> DEFINE a == AbortTable(q)
  <1>1. \A r \in Recvs : a[r] = IF q[r].pc = "queued" THEN Completed(q[r], "ABORTED") ELSE q[r]
    BY DEF AbortTable
  <1>2. a = [r \in Recvs |-> a[r]]
    BY DEF AbortTable
  <1> HIDE DEF a
  <1>3. ASSUME NEW r \in Recvs
        PROVE  /\ a[r] \in Request /\ RequestOK(a[r], b[r], c) /\ a[r].pc # "queued"
               /\ Holds(a[r], b[r]) <=> Holds(q[r], b[r])
    <2>1. "ABORTED" \in Results /\ q[r] \in Request
      BY DEF Results
    <2>2. CASE q[r].pc = "queued"
      <3>1. /\ Completed(q[r], "ABORTED") \in Request /\ RequestOK(Completed(q[r], "ABORTED"), b[r], c)
            /\ Completed(q[r], "ABORTED").pc \in {"call_done", "taken"}
            /\ Holds(Completed(q[r], "ABORTED"), b[r]) <=> Holds(q[r], b[r])
        BY <2>1, <2>2, CompletedOK
      <3> QED BY <1>1, <2>2, <3>1
    <2>3. CASE q[r].pc # "queued"
      BY <1>1, <2>1, <2>3
    <2> QED BY <2>2, <2>3
  <1>4. a \in [Recvs -> Request]
    BY <1>2, <1>3
  <1>5. Holders(a, b) = Holders(q, b)
    BY <1>3 DEF Holders
  <1> QED BY <1>1, <1>3, <1>4, <1>5 DEF a

(* One reference more or less.                                              *)
LEMMA HolderGone ==
    ASSUME NEW q, NEW b, NEW q2, NEW b2, NEW r \in Recvs, IsFiniteSet(Holders(q, b)),
           Holds(q[r], b[r]), ~Holds(q2[r], b2[r]),
           \A x \in Recvs \ {r} : q2[x] = q[x] /\ b2[x] = b[x]
    PROVE  /\ IsFiniteSet(Holders(q2, b2)) /\ Cardinality(Holders(q2, b2)) \in Nat
           /\ Cardinality(Holders(q, b)) = Cardinality(Holders(q2, b2)) + 1
  <1>1. Holders(q2, b2) = Holders(q, b) \ {r} /\ r \in Holders(q, b)
    BY DEF Holders
  <1>2. /\ IsFiniteSet(Holders(q2, b2))
        /\ Cardinality(Holders(q2, b2)) = Cardinality(Holders(q, b)) - 1
    BY <1>1, FS_RemoveElement
  <1>3. Cardinality(Holders(q, b)) \in Nat /\ Cardinality(Holders(q2, b2)) \in Nat
    BY <1>2, FS_CardinalityType
  <1> QED BY <1>2, <1>3

LEMMA HolderNew ==
    ASSUME NEW q, NEW b, NEW q2, NEW b2, NEW r \in Recvs, IsFiniteSet(Holders(q, b)),
           ~Holds(q[r], b[r]), Holds(q2[r], b2[r]),
           \A x \in Recvs \ {r} : q2[x] = q[x] /\ b2[x] = b[x]
    PROVE  /\ IsFiniteSet(Holders(q2, b2)) /\ Cardinality(Holders(q, b)) \in Nat
           /\ Cardinality(Holders(q2, b2)) = Cardinality(Holders(q, b)) + 1
  <1>1. Holders(q2, b2) = Holders(q, b) \cup {r} /\ r \notin Holders(q, b)
    BY DEF Holders
  <1>2. Cardinality(Holders(q, b)) \in Nat
    BY FS_CardinalityType
  <1> QED BY <1>1, <1>2, FS_AddElement

LEMMA SameHolders ==
    ASSUME NEW q, NEW b, NEW q2, NEW b2,
           \A r \in Recvs : Holds(q2[r], b2[r]) <=> Holds(q[r], b[r])
    PROVE  Holders(q2, b2) = Holders(q, b)
  BY DEF Holders

(* The owner's reference is there, so the rendezvous is.                    *)
LEMMA ClientHolds ==
    ASSUME CountInv, client
    PROVE  ~deleted /\ rc \in Nat \ {0}
  <1>1. Cardinality(Holders(req, cb)) \in Nat
    BY FS_CardinalityType DEF CountInv
  <1> QED BY <1>1 DEF CountInv

(* rc_owner_->Unref() by a thread that had a reference and leaves the       *)
(* requests in q: the last one aborts what is left in the table.            *)
LEMMA UnrefInv ==
    ASSUME TypeOK, MessagesInv, NEW q \in [Recvs -> Request], Unref(q), TableOK(table, q),
           \A r \in Recvs : RequestOK(q[r], cb'[r], cm'),
           IsFiniteSet(Holders(q, cb')), client' \in BOOLEAN,
           rc = Cardinality(Holders(q, cb')) + (IF client' THEN 1 ELSE 0) + 1,
           ~deleted, UNCHANGED <<sent, received>>
    PROVE  /\ status' \in {"OK", "ABORTED"} /\ table' \in [Keys -> Seq(Sends \cup Recvs)]
           /\ req' \in [Recvs -> Request] /\ rc' \in Nat /\ deleted' \in BOOLEAN
           /\ RendezvousInv'
  <1>1. Cardinality(Holders(q, cb')) \in Nat
    BY FS_CardinalityType
  <1>2. rc' = Cardinality(Holders(q, cb')) + (IF client' THEN 1 ELSE 0) /\ rc' \in Nat
    BY <1>1 DEF Unref, TypeOK
  <1>3. CASE rc = 1
    <2>1. /\ deleted' = TRUE /\ table' = [k \in Keys |-> <<>>] /\ req' = AbortTable(q)
          /\ status' \in {"OK", "ABORTED"}
      BY <1>3 DEF Unref, TypeOK
    <2>2. /\ req' \in [Recvs -> Request] /\ Holders(req', cb') = Holders(q, cb')
          /\ \A r \in Recvs : RequestOK(req'[r], cb'[r], cm') /\ req'[r].pc # "queued"
      BY <2>1, AbortTableOK
    <2>3. TableOK(table', req')
      BY <2>1, <2>2, TableEmpty
    <2>4. rc' = 0
      BY <1>3 DEF Unref
    <2>5. CountInv'
      BY <1>2, <2>1, <2>2, <2>4 DEF CountInv
    <2>6. MessagesInv'
      BY <2>1 DEF MessagesInv
    <2>7. RequestInv'
      BY <2>2 DEF RequestInv
    <2>8. table' \in [Keys -> Seq(Sends \cup Recvs)]
      BY <2>3 DEF TableOK, Items
    <2> QED BY <1>2, <2>1, <2>2, <2>3, <2>5, <2>6, <2>7, <2>8 DEF RendezvousInv
  <1>4. CASE rc # 1
    <2>1. req' = q /\ UNCHANGED <<deleted, table, status>>
      BY <1>4 DEF Unref
    <2>2. rc' # 0
      BY <1>1, <1>4 DEF Unref, TypeOK
    <2>3. CountInv'
      BY <1>2, <2>1, <2>2 DEF CountInv
    <2>4. MessagesInv'
      BY <2>1 DEF MessagesInv
    <2>5. RequestInv'
      BY <2>1 DEF RequestInv
    <2> QED BY <1>2, <2>1, <2>3, <2>4, <2>5 DEF RendezvousInv, TypeOK
  <1> QED BY <1>3, <1>4

-----------------------------------------------------------------------------
(* The actions that leave the table alone.                                  *)

LEMMA QuietInv ==
    ASSUME TypeOK, RendezvousInv, req' \in [Recvs -> Request],
           UNCHANGED <<status, table, rc, client, deleted, sent, received>>,
           \A r \in Recvs : /\ RequestOK(req'[r], cb'[r], cm')
                            /\ Holds(req'[r], cb'[r]) <=> Holds(req[r], cb[r])
                            /\ req'[r].pc = "queued" <=> req[r].pc = "queued"
                            /\ req[r].pc = "queued" => req'[r].key = req[r].key
    PROVE  RendezvousInv'
  <1>1. TableOK(table', req')
    BY TableSame DEF RendezvousInv
  <1>2. Holders(req', cb') = Holders(req, cb)
    BY SameHolders
  <1>3. CountInv'
    BY <1>2 DEF RendezvousInv, CountInv
  <1>4. MessagesInv'
    BY DEF RendezvousInv, MessagesInv
  <1> QED BY <1>1, <1>3, <1>4 DEF RendezvousInv, RequestInv

LEMMA WaiterDeregistersInv ==
    ASSUME TypeOK, RendezvousInv, NEW r \in Recvs, WaiterDeregisters(r)
    PROVE  TypeOK' /\ RendezvousInv'
  <1>1. /\ req[r].pc = "taken" /\ req[r] \in Request /\ RequestOK(req[r], cb[r], cm)
        /\ UNCHANGED <<status, table, send, found, rc, client, deleted, cm, next_token, sent, received>>
        /\ cb[r] \in {"none", "registered", "to_run", "waiter", "unref", "ran", "deregistered"}
    BY DEF WaiterDeregisters, TypeOK, RendezvousInv, RequestInv
  <1>2. PICK pc \in {"unref", "call_done"} :
           /\ req' = [req EXCEPT ![r].pc = pc]
           /\ pc = "unref" => cm[req[r].cm] = "live" /\ cb' = [cb EXCEPT ![r] = "deregistered"]
           /\ pc = "call_done" => cm[req[r].cm] # "live" /\ cb' = cb
    BY DEF WaiterDeregisters, TryDeregisterCallback
  <1>3. /\ req' \in [Recvs -> Request] /\ req'[r].pc = pc /\ \A x \in Recvs \ {r} : req'[x] = req[x]
        /\ req'[r].key = req[r].key /\ req'[r].cm = req[r].cm /\ req'[r].token = req[r].token
        /\ req'[r].called = req[r].called /\ req'[r].result = req[r].result
    BY <1>1, <1>2 DEF TypeOK, Request
  <1>4. \A x \in Recvs \ {r} : cb'[x] = cb[x]
    BY <1>2 DEF TypeOK
  <1>5. cb'[r] = IF pc = "unref" THEN "deregistered" ELSE cb[r]
    BY <1>2 DEF TypeOK
  <1>6. RequestOK(req'[r], cb'[r], cm')
    BY <1>1, <1>2, <1>3, <1>5 DEF RequestOK
  <1>7. Holds(req'[r], cb'[r]) <=> Holds(req[r], cb[r])
    BY <1>1, <1>2, <1>3, <1>5 DEF RequestOK, Holds
  <1>8. RendezvousInv'
    <2>1. \A x \in Recvs : /\ RequestOK(req'[x], cb'[x], cm')
                           /\ Holds(req'[x], cb'[x]) <=> Holds(req[x], cb[x])
                           /\ req'[x].pc = "queued" <=> req[x].pc = "queued"
                           /\ req'[x].key = req[x].key
      BY <1>1, <1>3, <1>4, <1>6, <1>7 DEF RendezvousInv, RequestInv
    <2> QED BY <1>1, <1>3, <2>1, QuietInv
  <1>9. cb' \in [Recvs -> {"none", "registered", "to_run", "waiter", "unref", "ran", "deregistered"}]
    BY <1>2 DEF TypeOK
  <1> QED BY <1>1, <1>3, <1>8, <1>9 DEF TypeOK

(* done is called, or a synchronous caller returns.                         *)
LEMMA CallerInv ==
    ASSUME TypeOK, RendezvousInv, NEW r \in Recvs, CallDone(r) \/ RecvReturns(r) \/ RecvTimesOut(r)
    PROVE  TypeOK' /\ RendezvousInv'
  <1>1. /\ req[r] \in Request /\ RequestOK(req[r], cb[r], cm)
        /\ UNCHANGED <<status, table, send, cb, found, rc, client, deleted, cm, next_token, sent, received>>
    BY DEF CallDone, RecvReturns, RecvTimesOut, TypeOK, RendezvousInv, RequestInv
  <1>2. PICK x : /\ x \in Request /\ req' = [req EXCEPT ![r] = x] /\ x.key = req[r].key /\ x.cm = req[r].cm
                 /\ x.token = req[r].token /\ x.result = req[r].result
                 /\ \/ req[r].pc = "call_done" /\ x.pc = "done" /\ x.called = req[r].called + 1
                    \/ x.pc = req[r].pc /\ x.called = req[r].called
    <2>1. CASE CallDone(r)
      <3> DEFINE x == [req[r] EXCEPT !.pc = "done", !.called = @ + 1]
      <3>1. req[r].pc = "call_done" /\ req' = [req EXCEPT ![r] = x]
        BY <2>1 DEF CallDone
      <3>2. req[r].called = 0
        BY <1>1, <3>1 DEF RequestOK
      <3>3. x \in Request
        <4>1. x = [req[r] EXCEPT !.pc = "done", !.called = 1] /\ 1 \in 0 .. 2
          BY <3>2
        <4> HIDE DEF x
        <4> QED BY <1>1, <4>1 DEF Request
      <3>4. /\ x.pc = "done" /\ x.key = req[r].key /\ x.cm = req[r].cm /\ x.token = req[r].token
            /\ x.result = req[r].result /\ x.called = req[r].called + 1
        BY <1>1 DEF Request
      <3> HIDE DEF x
      <3> QED BY <3>1, <3>3, <3>4
    <2>2. ASSUME NEW caller \in {"returned", "gone"}, req' = [req EXCEPT ![r].caller = caller]
          PROVE  \E x : /\ x \in Request /\ req' = [req EXCEPT ![r] = x] /\ x.key = req[r].key
                        /\ x.cm = req[r].cm /\ x.token = req[r].token /\ x.result = req[r].result
                        /\ x.pc = req[r].pc /\ x.called = req[r].called
      <3> DEFINE x == [req[r] EXCEPT !.caller = caller]
      <3>1. x \in Request /\ req' = [req EXCEPT ![r] = x]
        BY <1>1, <2>2 DEF Request
      <3>2. /\ x.pc = req[r].pc /\ x.key = req[r].key /\ x.cm = req[r].cm /\ x.token = req[r].token
            /\ x.result = req[r].result /\ x.called = req[r].called
        BY <1>1 DEF Request
      <3> HIDE DEF x
      <3> QED BY <3>1, <3>2
    <2>3. CASE RecvReturns(r) \/ RecvTimesOut(r)
      <3>1. \E caller \in {"returned", "gone"} : req' = [req EXCEPT ![r].caller = caller]
        BY <2>3 DEF RecvReturns, RecvTimesOut
      <3> QED BY <2>2, <3>1
    <2> QED BY <2>1, <2>3
  <1>3. req' \in [Recvs -> Request] /\ req'[r] = x /\ \A y \in Recvs \ {r} : req'[y] = req[y]
    BY <1>2 DEF TypeOK
  <1>4. RequestOK(x, cb[r], cm)
    BY <1>1, <1>2 DEF RequestOK
  <1>5. Holds(x, cb[r]) <=> Holds(req[r], cb[r])
    BY <1>2 DEF Holds
  <1>6. x.pc = "queued" <=> req[r].pc = "queued"
    BY <1>2
  <1>7. RendezvousInv'
    <2>1. \A y \in Recvs : /\ RequestOK(req'[y], cb'[y], cm')
                           /\ Holds(req'[y], cb'[y]) <=> Holds(req[y], cb[y])
                           /\ req'[y].pc = "queued" <=> req[y].pc = "queued"
                           /\ req'[y].key = req[y].key
      BY <1>1, <1>2, <1>3, <1>4, <1>5, <1>6 DEF RendezvousInv, RequestInv
    <2> QED BY <1>1, <1>3, <2>1, QuietInv
  <1> QED BY <1>1, <1>3, <1>7 DEF TypeOK

(* The manager: StartCancel, the callbacks that have found nothing or have  *)
(* completed their request, and the end of StartCancel.                     *)
LEMMA ManagerInv ==
    ASSUME TypeOK, RendezvousInv,
           \/ \E c \in Managers : StartCancel(c) \/ CancelDone(c)
           \/ \E r \in Recvs : CancelRecvDone(r)
    PROVE  TypeOK' /\ RendezvousInv'
  <1>1. /\ req' = req /\ UNCHANGED <<status, table, send, found, rc, client, deleted, next_token,
                                     sent, received>>
    BY DEF StartCancel, CancelDone, CancelRecvDone
  <1> DEFINE States == {"none", "registered", "to_run", "waiter", "unref", "ran", "deregistered"}
  <1>2. /\ cm' \in [Managers -> {"live", "cancelling", "cancelled"}] /\ cb' \in [Recvs -> States]
        /\ \A r \in Recvs : /\ RequestOK(req[r], cb'[r], cm')
                            /\ Holds(req[r], cb'[r]) <=> Holds(req[r], cb[r])
    <2>1. \A r \in Recvs : /\ RequestOK(req[r], cb[r], cm) /\ req[r].cm \in Managers \cup {NoCM}
                           /\ cb[r] \in States
      BY DEF TypeOK, RendezvousInv, RequestInv, Request, CMs
    <2>2. ASSUME NEW c \in Managers, StartCancel(c)
          PROVE  /\ cm' \in [Managers -> {"live", "cancelling", "cancelled"}] /\ cb' \in [Recvs -> States]
                 /\ \A r \in Recvs : /\ RequestOK(req[r], cb'[r], cm')
                                     /\ Holds(req[r], cb'[r]) <=> Holds(req[r], cb[r])
      <3>1. /\ cm' \in [Managers -> {"live", "cancelling", "cancelled"}] /\ cm'[c] = "cancelling"
            /\ \A d \in Managers \ {c} : cm'[d] = cm[d]
        BY <2>2 DEF StartCancel, TypeOK
      <3>2. /\ cb' = [r \in Recvs |-> IF cb[r] = "registered" /\ req[r].cm = c THEN "to_run" ELSE cb[r]]
            /\ cm[c] = "live"
        BY <2>2 DEF StartCancel
      <3>3. cb' \in [Recvs -> States]
        BY <2>1, <3>2
      <3>4. ASSUME NEW r \in Recvs
            PROVE  /\ RequestOK(req[r], cb'[r], cm')
                   /\ Holds(req[r], cb'[r]) <=> Holds(req[r], cb[r])
        <4>1. /\ cb'[r] = IF cb[r] = "registered" /\ req[r].cm = c THEN "to_run" ELSE cb[r]
              /\ RequestOK(req[r], cb[r], cm) /\ req[r].cm \in Managers \cup {NoCM}
          BY <2>1, <3>2
        <4>2. req[r].cm = NoCM => cb[r] = "none"
          BY <4>1 DEF RequestOK
        <4>3. RequestOK(req[r], cb'[r], cm')
          BY <3>1, <3>2, <4>1, <4>2, DisjointAssumption DEF RequestOK
        <4> QED BY <4>1, <4>3 DEF Holds
      <3> QED BY <3>1, <3>3, <3>4
    <2>3. ASSUME NEW c \in Managers, CancelDone(c)
          PROVE  /\ cm' \in [Managers -> {"live", "cancelling", "cancelled"}] /\ cb' \in [Recvs -> States]
                 /\ \A r \in Recvs : /\ RequestOK(req[r], cb'[r], cm')
                                     /\ Holds(req[r], cb'[r]) <=> Holds(req[r], cb[r])
      <3>1. /\ cm' \in [Managers -> {"live", "cancelling", "cancelled"}] /\ cm'[c] = "cancelled"
            /\ \A d \in Managers \ {c} : cm'[d] = cm[d]
            /\ cm[c] = "cancelling" /\ cb' = cb
        BY <2>3 DEF CancelDone, TypeOK
      <3>2. ASSUME NEW r \in Recvs PROVE RequestOK(req[r], cb[r], cm')
        <4>1. RequestOK(req[r], cb[r], cm) /\ req[r].cm \in Managers \cup {NoCM}
          BY <2>1
        <4>2. req[r].cm = NoCM => cb[r] = "none"
          BY <4>1 DEF RequestOK
        <4> QED BY <3>1, <4>1, <4>2, DisjointAssumption DEF RequestOK
      <3> QED BY <2>1, <3>1, <3>2 DEF TypeOK
    <2>4. ASSUME NEW r \in Recvs, CancelRecvDone(r)
          PROVE  /\ cm' \in [Managers -> {"live", "cancelling", "cancelled"}] /\ cb' \in [Recvs -> States]
                 /\ \A x \in Recvs : /\ RequestOK(req[x], cb'[x], cm')
                                     /\ Holds(req[x], cb'[x]) <=> Holds(req[x], cb[x])
      <3>1. /\ cb[r] = "waiter" /\ cb' = [cb EXCEPT ![r] = "unref"] /\ cm' = cm
        BY <2>4 DEF CancelRecvDone
      <3>2. /\ cb' \in [Recvs -> States] /\ cb'[r] = "unref" /\ \A x \in Recvs \ {r} : cb'[x] = cb[x]
        BY <3>1 DEF TypeOK
      <3>3. RequestOK(req[r], "unref", cm)
        BY <2>1, <3>1 DEF RequestOK
      <3>4. Holds(req[r], "unref") /\ Holds(req[r], cb[r])
        BY <3>1 DEF Holds
      <3> QED BY <2>1, <3>1, <3>2, <3>3, <3>4 DEF TypeOK
    <2> QED BY <2>2, <2>3, <2>4
  <1>3. RendezvousInv'
    BY <1>1, <1>2, QuietInv DEF TypeOK
  <1> QED BY <1>1, <1>2, <1>3 DEF TypeOK

-----------------------------------------------------------------------------
(* The actions that drop a reference.                                       *)

(* Unref cases (2) and (3).                                                 *)
LEMMA UnrefRequestInv ==
    ASSUME TypeOK, RendezvousInv, NEW r \in Recvs, UnrefRefused(r) \/ UnrefWaiter(r)
    PROVE  TypeOK' /\ RendezvousInv'
  <1> DEFINE q == [req EXCEPT ![r].pc = "call_done"]
  <1>1. /\ req[r].pc \in {"refused", "unref"} /\ req[r] \in Request /\ RequestOK(req[r], cb[r], cm)
        /\ Unref(q) /\ UNCHANGED <<send, cb, found, client, cm, next_token, sent, received>>
    BY DEF UnrefRefused, UnrefWaiter, TypeOK, RendezvousInv, RequestInv
  <1>2. /\ q \in [Recvs -> Request] /\ q[r].pc = "call_done" /\ \A x \in Recvs \ {r} : q[x] = req[x]
        /\ q[r].key = req[r].key /\ q[r].cm = req[r].cm /\ q[r].token = req[r].token
        /\ q[r].called = req[r].called /\ q[r].result = req[r].result
    BY <1>1 DEF TypeOK, Request
  <1> HIDE DEF q
  <1>3. RequestOK(q[r], cb[r], cm) /\ ~Holds(q[r], cb[r]) /\ Holds(req[r], cb[r])
    BY <1>1, <1>2 DEF RequestOK, Holds
  <1>4. \A x \in Recvs : RequestOK(q[x], cb[x], cm)
    BY <1>2, <1>3 DEF RendezvousInv, RequestInv
  <1>5. TableOK(table, q)
    <2>1. \A x \in Recvs : /\ q[x].pc = "queued" <=> req[x].pc = "queued"
                           /\ req[x].pc = "queued" => q[x].key = req[x].key
      BY <1>1, <1>2
    <2> QED BY <2>1, TableSame DEF RendezvousInv
  <1>6. /\ IsFiniteSet(Holders(q, cb)) /\ Cardinality(Holders(q, cb)) \in Nat
        /\ Cardinality(Holders(req, cb)) = Cardinality(Holders(q, cb)) + 1
    <2>1. IsFiniteSet(Holders(req, cb))
      BY DEF RendezvousInv, CountInv
    <2> QED BY <1>2, <1>3, <2>1, HolderGone
  <1>7. rc = Cardinality(Holders(q, cb)) + (IF client THEN 1 ELSE 0) + 1 /\ ~deleted
    BY <1>6 DEF RendezvousInv, CountInv, TypeOK
  <1>8. /\ status' \in {"OK", "ABORTED"} /\ table' \in [Keys -> Seq(Sends \cup Recvs)]
        /\ req' \in [Recvs -> Request] /\ rc' \in Nat /\ deleted' \in BOOLEAN
        /\ RendezvousInv'
    <2>1. MessagesInv /\ client' \in BOOLEAN /\ cb' = cb /\ cm' = cm /\ client' = client
      BY <1>1 DEF RendezvousInv, TypeOK
    <2> QED BY <1>1, <1>2, <1>4, <1>5, <1>6, <1>7, <2>1, UnrefInv
  <1> QED BY <1>1, <1>8 DEF TypeOK

(* Unref cases (1) and (4).                                                 *)
LEMMA UnrefCancelledInv ==
    ASSUME TypeOK, RendezvousInv, NEW r \in Recvs, UnrefCancelled(r)
    PROVE  TypeOK' /\ RendezvousInv'
  <1>1. /\ cb[r] = "unref" /\ req[r] \in Request /\ RequestOK(req[r], cb[r], cm)
        /\ Unref(req) /\ UNCHANGED <<send, found, client, cm, next_token, sent, received>>
        /\ cb' = [cb EXCEPT ![r] = "ran"]
    BY DEF UnrefCancelled, TypeOK, RendezvousInv, RequestInv
  <1>2. /\ cb'[r] = "ran" /\ \A x \in Recvs \ {r} : cb'[x] = cb[x]
        /\ cb' \in [Recvs -> {"none", "registered", "to_run", "waiter", "unref", "ran", "deregistered"}]
    BY <1>1 DEF TypeOK
  <1>3. RequestOK(req[r], cb'[r], cm) /\ ~Holds(req[r], cb'[r]) /\ Holds(req[r], cb[r])
    BY <1>1, <1>2 DEF RequestOK, Holds
  <1>4. \A x \in Recvs : RequestOK(req[x], cb'[x], cm)
    BY <1>2, <1>3 DEF RendezvousInv, RequestInv
  <1>5. /\ IsFiniteSet(Holders(req, cb')) /\ Cardinality(Holders(req, cb')) \in Nat
        /\ Cardinality(Holders(req, cb)) = Cardinality(Holders(req, cb')) + 1
    <2>1. IsFiniteSet(Holders(req, cb))
      BY DEF RendezvousInv, CountInv
    <2> QED BY <1>2, <1>3, <2>1, HolderGone
  <1>6. rc = Cardinality(Holders(req, cb')) + (IF client THEN 1 ELSE 0) + 1 /\ ~deleted
    BY <1>5 DEF RendezvousInv, CountInv, TypeOK
  <1>7. /\ status' \in {"OK", "ABORTED"} /\ table' \in [Keys -> Seq(Sends \cup Recvs)]
        /\ req' \in [Recvs -> Request] /\ rc' \in Nat /\ deleted' \in BOOLEAN
        /\ RendezvousInv'
    <2>1. /\ MessagesInv /\ client' \in BOOLEAN /\ cm' = cm /\ client' = client /\ TableOK(table, req)
          /\ req \in [Recvs -> Request]
      BY <1>1 DEF RendezvousInv, TypeOK
    <2>2. /\ \A x \in Recvs : RequestOK(req[x], cb'[x], cm')
          /\ rc = Cardinality(Holders(req, cb')) + (IF client' THEN 1 ELSE 0) + 1
      BY <1>4, <1>6, <2>1
    <2> QED BY <1>1, <1>5, <1>6, <2>1, <2>2, UnrefInv
  <1> QED BY <1>1, <1>2, <1>7 DEF TypeOK

LEMMA ClientUnrefInv ==
    ASSUME TypeOK, RendezvousInv, ClientUnref
    PROVE  TypeOK' /\ RendezvousInv'
  <1>1. /\ client /\ client' = FALSE /\ Unref(req)
        /\ UNCHANGED <<send, cb, found, cm, next_token, sent, received>>
    BY DEF ClientUnref
  <1>2. /\ IsFiniteSet(Holders(req, cb)) /\ rc = Cardinality(Holders(req, cb)) + 1 /\ ~deleted
        /\ Cardinality(Holders(req, cb)) \in Nat
    BY <1>1, ClientHolds, FS_CardinalityType DEF RendezvousInv, CountInv
  <1>3. rc = Cardinality(Holders(req, cb)) + (IF client' THEN 1 ELSE 0) + 1
    BY <1>1, <1>2
  <1>4. /\ status' \in {"OK", "ABORTED"} /\ table' \in [Keys -> Seq(Sends \cup Recvs)]
        /\ req' \in [Recvs -> Request] /\ rc' \in Nat /\ deleted' \in BOOLEAN
        /\ RendezvousInv'
    <2>1. /\ MessagesInv /\ client' \in BOOLEAN /\ cm' = cm /\ cb' = cb /\ TableOK(table, req)
          /\ req \in [Recvs -> Request] /\ \A x \in Recvs : RequestOK(req[x], cb[x], cm)
      BY <1>1 DEF RendezvousInv, TypeOK, RequestInv
    <2> QED BY <1>1, <1>2, <1>3, <2>1, UnrefInv
  <1> QED BY <1>1, <1>4 DEF TypeOK

-----------------------------------------------------------------------------
(* The actions on the table.                                                *)

LEMMA StartAbortInv ==
    ASSUME TypeOK, RendezvousInv, StartAbort
    PROVE  TypeOK' /\ RendezvousInv'
  <1>1. /\ status' = "ABORTED" /\ table' = [k \in Keys |-> <<>>] /\ req' = AbortTable(req)
        /\ UNCHANGED <<send, cb, found, rc, client, deleted, cm, next_token, sent, received>>
    BY DEF StartAbort
  <1>2. /\ req' \in [Recvs -> Request] /\ Holders(req', cb) = Holders(req, cb)
        /\ \A r \in Recvs : RequestOK(req'[r], cb[r], cm) /\ req'[r].pc # "queued"
    <2>1. req \in [Recvs -> Request] /\ \A r \in Recvs : RequestOK(req[r], cb[r], cm)
      BY DEF TypeOK, RendezvousInv, RequestInv
    <2> QED BY <1>1, <2>1, AbortTableOK
  <1>3. TableOK(table', req')
    BY <1>1, <1>2, TableEmpty
  <1>4. CountInv'
    BY <1>1, <1>2 DEF RendezvousInv, CountInv
  <1>5. MessagesInv'
    BY <1>1 DEF MessagesInv
  <1>6. RequestInv'
    BY <1>1, <1>2 DEF RequestInv
  <1>7. TypeOK'
    BY <1>1, <1>2, <1>3 DEF TypeOK, TableOK, Items
  <1> QED BY <1>3, <1>4, <1>5, <1>6, <1>7 DEF RendezvousInv

(* The table of k becomes queue, and the messages are settled there.        *)
LEMMA MessagesAt ==
    ASSUME TypeOK, RendezvousInv, NEW k \in Keys, NEW queue,
           UNCHANGED <<status, deleted>>, table' = [table EXCEPT ![k] = queue],
           \A l \in Keys \ {k} : sent'[l] = sent[l] /\ received'[l] = received[l],
           status = "OK" /\ ~deleted => MessagesOK(queue, sent'[k], received'[k])
    PROVE  MessagesInv'
  BY DEF MessagesInv, RendezvousInv, TypeOK

LEMMA SendInv ==
    ASSUME TypeOK, RendezvousInv, NEW v \in Sends, NEW k \in Keys, Send(v, k)
    PROVE  TypeOK' /\ RendezvousInv'
  <1>1. /\ client /\ ~deleted /\ UNCHANGED <<status, cb, found, rc, client, deleted, cm, next_token>>
        /\ TableOK(table, req) /\ send' \in [Sends -> {"idle", "OK", "ABORTED"}]
        /\ table[k] \in Seq(Items) /\ sent[k] \in Seq(Sends) /\ received[k] \in Seq(Sends)
    <2>1. \E x \in {"OK", "ABORTED"} : send' = [send EXCEPT ![v] = x]
      BY DEF Send
    <2>2. send' \in [Sends -> {"idle", "OK", "ABORTED"}]
      BY <2>1 DEF TypeOK
    <2> QED BY <2>2, ClientHolds DEF Send, RendezvousInv, TypeOK, Items
  <1>2. CASE ~Open
    <2>1. UNCHANGED <<table, req, sent, received>>
      BY <1>2 DEF Send
    <2>2. RendezvousInv'
      <3>1. req' \in [Recvs -> Request]
        BY <2>1 DEF TypeOK
      <3> QED BY <1>1, <2>1, <3>1, QuietInv DEF RendezvousInv, RequestInv
    <2> QED BY <1>1, <2>1, <2>2 DEF TypeOK
  <1>3. CASE Open /\ ~HeadIs(k, Recvs)
    <2>1. /\ table' = [table EXCEPT ![k] = Append(@, v)] /\ sent' = [sent EXCEPT ![k] = Append(@, v)]
          /\ UNCHANGED <<req, received>>
      BY <1>3 DEF Send, push_back
    <2>2. AllIn(table[k], Sends)
      BY <1>1, <1>3, Uniform DEF HeadIs
    <2>3. TableOK(table', req')
      BY <1>1, <2>1, <2>2, TablePushSend
    <2>4. MessagesInv'
      <3>1. MessagesOK(table[k], sent[k], received[k])
        BY <1>1, <1>3 DEF RendezvousInv, MessagesInv, Open
      <3>2. MessagesOK(Append(table[k], v), Append(sent[k], v), received[k])
        BY <1>1, <2>2, <3>1, MessageQueued
      <3>3. sent'[k] = Append(sent[k], v) /\ \A l \in Keys \ {k} : sent'[l] = sent[l]
        BY <2>1 DEF TypeOK
      <3> QED BY <1>1, <2>1, <3>2, <3>3, MessagesAt
    <2>5. sent' \in [Keys -> Seq(Sends)]
      <3>1. Append(sent[k], v) \in Seq(Sends)
        BY <1>1, AppendItem
      <3> QED BY <2>1, <3>1 DEF TypeOK
    <2>6. RequestInv' /\ CountInv'
      BY <1>1, <2>1 DEF RendezvousInv, RequestInv, CountInv
    <2> QED BY <1>1, <2>1, <2>3, <2>4, <2>5, <2>6 DEF RendezvousInv, TypeOK, TableOK, Items
  <1>4. CASE Open /\ HeadIs(k, Recvs)
    <2>1. PICK x \in Recvs : x = Head(table[k]) /\ table[k] # <<>>
      BY <1>4 DEF HeadIs
    <2>2. /\ table' = [table EXCEPT ![k] = Tail(@)] /\ sent' = [sent EXCEPT ![k] = Append(@, v)]
          /\ received' = [received EXCEPT ![k] = Append(@, v)]
          /\ req' = [req EXCEPT ![x] = Completed(@, v)]
      BY <1>4, <2>1 DEF Send
    <2>3. AllIn(table[k], Recvs)
      BY <1>1, <2>1, Uniform
    <2>4. /\ Tail(table[k]) \in Seq(Items) /\ Without(Tail(table[k]), table[k], 1)
          /\ 1 \in 1 .. Len(table[k]) /\ x = table[k][1]
      BY <1>1, <2>1, TailItem
    <2>5. req[x].pc = "queued" /\ RequestOK(req[x], cb[x], cm) /\ req[x] \in Request
      BY <1>1, <2>4 DEF TableOK, RendezvousInv, RequestInv, TypeOK
    <2>6. /\ Completed(req[x], v) \in Request /\ RequestOK(Completed(req[x], v), cb[x], cm)
          /\ Completed(req[x], v).pc \in {"call_done", "taken"}
          /\ Holds(Completed(req[x], v), cb[x]) <=> Holds(req[x], cb[x])
      <3>1. v \in Results
        BY DEF Results
      <3> QED BY <2>5, <3>1, CompletedOK
    <2>7. /\ req' \in [Recvs -> Request] /\ req'[x] = Completed(req[x], v)
          /\ \A r \in Recvs \ {x} : req'[r] = req[r]
      BY <2>2, <2>6 DEF TypeOK
    <2>8. TableOK(table', req')
      <3>1. /\ table' \in [Keys -> Seq(Items)] /\ Without(table'[k], table[k], 1)
            /\ \A l \in Keys \ {k} : table'[l] = table[l]
        BY <1>1, <2>2, <2>4 DEF TableOK
      <3>2. /\ \A r \in Recvs : r = table[k][1] => req'[r].pc # "queued"
            /\ \A r \in Recvs : r # table[k][1] => req'[r] = req[r]
        BY <2>4, <2>6, <2>7
      <3>3. TableOK(table, req) /\ 1 \in 1 .. Len(table[k])
        BY <1>1, <2>4
      <3> QED BY <3>1, <3>2, <3>3, TableTake
    <2>9. MessagesInv'
      <3>1. MessagesOK(table[k], sent[k], received[k])
        BY <1>1, <1>4 DEF RendezvousInv, MessagesInv, Open
      <3>2. MessagesOK(Tail(table[k]), Append(sent[k], v), Append(received[k], v))
        BY <1>1, <2>1, <2>3, <3>1, MessagePassed
      <3>3. /\ sent'[k] = Append(sent[k], v) /\ received'[k] = Append(received[k], v)
            /\ \A l \in Keys \ {k} : sent'[l] = sent[l] /\ received'[l] = received[l]
        BY <2>2 DEF TypeOK
      <3> QED BY <1>1, <2>2, <3>2, <3>3, MessagesAt
    <2>10. sent' \in [Keys -> Seq(Sends)] /\ received' \in [Keys -> Seq(Sends)]
      <3>1. Append(sent[k], v) \in Seq(Sends) /\ Append(received[k], v) \in Seq(Sends)
        BY <1>1, AppendItem
      <3> QED BY <2>2, <3>1 DEF TypeOK
    <2>11. RequestInv'
      BY <1>1, <2>6, <2>7 DEF RendezvousInv, RequestInv
    <2>12. CountInv'
      <3>1. Holders(req', cb') = Holders(req, cb)
        BY <1>1, <2>6, <2>7, SameHolders
      <3> QED BY <1>1, <3>1 DEF RendezvousInv, CountInv
    <2> QED BY <1>1, <2>7, <2>8, <2>9, <2>10, <2>11, <2>12 DEF RendezvousInv, TypeOK, TableOK, Items
  <1> QED BY <1>2, <1>3, <1>4

(* What RecvAsync makes of its request.                                     *)
LEMMA CalledIs ==
    ASSUME NEW k \in Keys, NEW c \in CMs, NEW mode \in Modes
    PROVE  /\ Called(k, c, mode) \in Request /\ Called(k, c, mode).pc = "idle"
           /\ Called(k, c, mode).key = k /\ Called(k, c, mode).cm = c
           /\ Called(k, c, mode).token = kInvalidToken /\ Called(k, c, mode).result = "none"
           /\ Called(k, c, mode).called = 0
  <1>1. NoRequest \in Request
    <2>1. (CHOOSE l \in Keys : TRUE) \in Keys
      BY KeysAssumption
    <2>2. NoCM \in CMs /\ kInvalidToken \in Int /\ 0 \in 0 .. 2
      BY DEF CMs, kInvalidToken
    <2> QED BY <2>1, <2>2 DEF NoRequest, Request
  <1>2. NoRequest.pc = "idle" /\ NoRequest.token = kInvalidToken /\ NoRequest.result = "none"
        /\ NoRequest.called = 0
    BY DEF NoRequest
  <1>3. PICK caller \in {"none", "waiting", "timed"} :
           Called(k, c, mode) = [NoRequest EXCEPT !.key = k, !.cm = c, !.caller = caller]
    <2>1. (CASE mode = "async" -> "none" [] mode = "sync" -> "waiting" [] OTHER -> "timed")
             \in {"none", "waiting", "timed"}
      OBVIOUS
    <2> QED BY <2>1 DEF Called
  <1> QED BY <1>1, <1>2, <1>3 DEF Request

LEMMA InlineIs ==
    ASSUME NEW q \in Request, NEW pc \in {"call_done", "refused"}, NEW result \in Results
    PROVE  /\ Inline(q, pc, result) \in Request /\ Inline(q, pc, result).pc = pc
           /\ Inline(q, pc, result).key = q.key /\ Inline(q, pc, result).cm = q.cm
           /\ Inline(q, pc, result).token = q.token /\ Inline(q, pc, result).result = result
           /\ Inline(q, pc, result).called = q.called
  <1>1. PICK caller \in {"none", "waiting", "timed", "returned", "gone"} :
           Inline(q, pc, result) = [q EXCEPT !.pc = pc, !.result = result, !.caller = caller]
    <2>1. (IF q.caller = "timed" THEN "waiting" ELSE q.caller)
             \in {"none", "waiting", "timed", "returned", "gone"}
      BY DEF Request
    <2> QED BY <2>1 DEF Inline
  <1>2. result \in {"none", "CANCELLED", "ABORTED"} \cup Sends
    BY DEF Results
  <1> QED BY <1>1, <1>2 DEF Request

LEMMA RecvAsyncInv ==
    ASSUME TypeOK, RendezvousInv, NEW r \in Recvs, NEW k \in Keys, NEW c \in CMs, NEW mode \in Modes,
           RecvAsync(r, k, c, mode)
    PROVE  TypeOK' /\ RendezvousInv'
  <1>1. /\ client /\ ~deleted /\ UNCHANGED <<status, send, found, client, deleted, cm, sent>>
        /\ req[r].pc = "idle" /\ RequestOK(req[r], cb[r], cm) /\ TableOK(table, req)
        /\ table[k] \in Seq(Items) /\ sent[k] \in Seq(Sends) /\ received[k] \in Seq(Sends)
    BY ClientHolds DEF RecvAsync, RendezvousInv, RequestInv, TypeOK, Items
  <1>2. cb[r] = "none" /\ ~Holds(req[r], cb[r])
    BY <1>1 DEF RequestOK, Holds
  <1>3. PICK q \in Request : /\ q = Called(k, c, mode) /\ q.pc = "idle" /\ q.key = k /\ q.cm = c
                             /\ q.token = kInvalidToken /\ q.result = "none" /\ q.called = 0
    BY CalledIs
  <1>4. ASSUME NEW pc \in {"call_done", "refused"}, NEW result \in Results,
               NEW x, x = Inline(q, pc, result)
        PROVE  /\ x \in Request /\ x.pc = pc /\ x.key = k /\ x.cm = c /\ x.called = 0
               /\ x.token = kInvalidToken /\ x.result = result /\ result # "none"
    <2>1. result # "none"
      BY DisjointAssumption DEF Results
    <2> QED BY <1>3, <1>4, <2>1, InlineIs
  <1>5. CASE ~Open
    <2>1. PICK x : x = Inline(q, "call_done", "ABORTED")
      OBVIOUS
    <2>2. /\ req' = [req EXCEPT ![r] = x] /\ UNCHANGED <<table, cb, rc, next_token, received>>
      BY <1>3, <1>5, <2>1 DEF RecvAsync
    <2>3. /\ x \in Request /\ x.pc = "call_done" /\ x.cm = c /\ x.called = 0
          /\ x.token = kInvalidToken /\ x.result # "none"
      <3>1. "ABORTED" \in Results
        BY DEF Results
      <3> QED BY <1>4, <2>1, <3>1
    <2>4. req' \in [Recvs -> Request] /\ req'[r] = x /\ \A y \in Recvs \ {r} : req'[y] = req[y]
      BY <2>2, <2>3 DEF TypeOK
    <2>5. RequestOK(x, "none", cm) /\ ~Holds(x, "none")
      BY <2>3 DEF RequestOK, Holds
    <2>6. RendezvousInv'
      <3>1. \A y \in Recvs : /\ RequestOK(req'[y], cb'[y], cm')
                             /\ Holds(req'[y], cb'[y]) <=> Holds(req[y], cb[y])
                             /\ req'[y].pc = "queued" <=> req[y].pc = "queued"
                             /\ req[y].pc = "queued" => req'[y].key = req[y].key
        BY <1>1, <1>2, <2>2, <2>3, <2>4, <2>5 DEF RendezvousInv, RequestInv
      <3> QED BY <1>1, <2>2, <2>4, <3>1, QuietInv
    <2> QED BY <1>1, <2>2, <2>4, <2>6 DEF TypeOK
  <1>6. CASE Open /\ HeadIs(k, Sends)
    <2>1. PICK v \in Sends : v = Head(table[k]) /\ table[k] # <<>>
      BY <1>6 DEF HeadIs
    <2>2. PICK x : x = Inline(q, "call_done", v)
      OBVIOUS
    <2>3. /\ req' = [req EXCEPT ![r] = x] /\ UNCHANGED <<cb, rc, next_token>>
          /\ table' = [table EXCEPT ![k] = Tail(@)]
          /\ received' = [received EXCEPT ![k] = Append(@, v)]
      <3>1. ~HeadIs(k, Sends) => FALSE
        BY <1>6
      <3> QED BY <1>3, <1>6, <2>1, <2>2, <3>1 DEF RecvAsync
    <2>4. /\ x \in Request /\ x.pc = "call_done" /\ x.cm = c /\ x.called = 0
          /\ x.token = kInvalidToken /\ x.result # "none"
      <3>1. v \in Results
        BY DEF Results
      <3> QED BY <1>4, <2>2, <3>1
    <2>5. req' \in [Recvs -> Request] /\ req'[r] = x /\ \A y \in Recvs \ {r} : req'[y] = req[y]
      BY <2>3, <2>4 DEF TypeOK
    <2>6. RequestOK(x, "none", cm) /\ ~Holds(x, "none")
      BY <2>4 DEF RequestOK, Holds
    <2>7. RequestInv'
      BY <1>1, <1>2, <2>3, <2>5, <2>6 DEF RendezvousInv, RequestInv
    <2>8. CountInv'
      <3>1. \A y \in Recvs : Holds(req'[y], cb'[y]) <=> Holds(req[y], cb[y])
        BY <1>2, <2>3, <2>5, <2>6
      <3>2. Holders(req', cb') = Holders(req, cb)
        BY <3>1, SameHolders
      <3> QED BY <1>1, <2>3, <3>2 DEF RendezvousInv, CountInv
    <2>9. AllIn(table[k], Sends)
      BY <1>1, <2>1, Uniform
    <2>10. TableOK(table', req')
      <3>1. /\ Tail(table[k]) \in Seq(Items) /\ Without(Tail(table[k]), table[k], 1)
            /\ 1 \in 1 .. Len(table[k]) /\ v = table[k][1]
        BY <1>1, <2>1, TailItem
      <3>2. /\ table' \in [Keys -> Seq(Items)] /\ Without(table'[k], table[k], 1)
            /\ \A l \in Keys \ {k} : table'[l] = table[l]
        BY <1>1, <2>3, <3>1 DEF TableOK
      <3>3. \A y \in Recvs : y # table[k][1]
        BY <3>1, DisjointAssumption
      <3>4. TableOK(table, req) /\ 1 \in 1 .. Len(table[k])
        BY <1>1, <3>1
      <3>5. TableOK(table', req)
        BY <3>2, <3>3, <3>4, TableTake
      <3>6. \A y \in Recvs : /\ req'[y].pc = "queued" <=> req[y].pc = "queued"
                             /\ req[y].pc = "queued" => req'[y].key = req[y].key
        BY <1>1, <2>4, <2>5
      <3> QED BY <3>5, <3>6, TableSame
    <2>11. MessagesInv'
      <3>1. MessagesOK(table[k], sent[k], received[k])
        BY <1>1, <1>6 DEF RendezvousInv, MessagesInv, Open
      <3>2. MessagesOK(Tail(table[k]), sent[k], Append(received[k], v))
        BY <1>1, <2>1, <2>9, <3>1, MessageTaken
      <3>3. /\ received'[k] = Append(received[k], v)
            /\ \A l \in Keys \ {k} : received'[l] = received[l]
        BY <2>3 DEF TypeOK
      <3> QED BY <1>1, <2>3, <3>2, <3>3, MessagesAt
    <2>12. received' \in [Keys -> Seq(Sends)]
      <3>1. Append(received[k], v) \in Seq(Sends)
        BY <1>1, AppendItem
      <3> QED BY <2>3, <3>1 DEF TypeOK
    <2> QED BY <1>1, <2>3, <2>5, <2>7, <2>8, <2>10, <2>11, <2>12
            DEF RendezvousInv, TypeOK, TableOK, Items
  <1>7. CASE Open /\ ~HeadIs(k, Sends)
    <2>1. AllIn(table[k], Recvs)
      BY <1>1, <1>7, Uniform DEF HeadIs
    <2>2. ASSUME NEW x \in Request, x.pc = "queued", x.key = k, req' = [req EXCEPT ![r] = x],
                 table' = [table EXCEPT ![k] = Append(@, r)], received' = received
          PROVE  TableOK(table', req') /\ MessagesInv'
      <3>1. req'[r] = x /\ \A y \in Recvs \ {r} : req'[y] = req[y]
        BY <2>2 DEF TypeOK
      <3>2. TableOK(table', req')
        <4>1. req[r].pc # "queued" /\ req'[r].pc = "queued" /\ req'[r].key = k
          BY <1>1, <2>2, <3>1
        <4>2. PICK t2 : t2 = table'
          OBVIOUS
        <4>3. PICK q2 : q2 = req'
          OBVIOUS
        <4>4. /\ t2 = [table EXCEPT ![k] = Append(@, r)] /\ q2[r].pc = "queued" /\ q2[r].key = k
              /\ \A y \in Recvs \ {r} : q2[y] = req[y]
          BY <2>2, <3>1, <4>1, <4>2, <4>3
        <4>5. TableOK(table, req)
          BY <1>1
        <4>6. TableOK(t2, q2)
          BY <2>1, <4>1, <4>4, <4>5, TablePushRecv
        <4> QED BY <4>2, <4>3, <4>6
      <3>3. MessagesOK(table[k], sent[k], received[k])
        BY <1>1, <1>7 DEF RendezvousInv, MessagesInv, Open
      <3>4. AllIn(Append(table[k], r), Recvs)
        <4>1. PICK u : u = Append(table[k], r)
          OBVIOUS
        <4>2. r \in Items /\ Len(table[k]) \in Nat
          BY <1>1, LenProperties DEF Items
        <4>3. /\ Len(u) = Len(table[k]) + 1
              /\ \A i \in 1 .. Len(table[k]) + 1 : u[i] = IF i <= Len(table[k]) THEN table[k][i] ELSE r
          BY <1>1, <4>1, <4>2, AppendItem
        <4>4. AllIn(u, Recvs)
          BY <2>1, <4>2, <4>3 DEF AllIn
        <4> QED BY <4>1, <4>4
      <3>5. MessagesOK(Append(table[k], r), sent[k], received[k])
        BY <1>1, <2>1, <3>3, <3>4, MessagesStay
      <3>6. MessagesInv'
        BY <1>1, <2>2, <3>5, MessagesAt
      <3> QED BY <3>2, <3>6
    <2>3. CASE c = NoCM
      <3>1. PICK x : x = [q EXCEPT !.pc = "queued"]
        OBVIOUS
      <3>2. /\ req' = [req EXCEPT ![r] = x] /\ table' = [table EXCEPT ![k] = Append(@, r)]
            /\ UNCHANGED <<cb, rc, next_token, received>>
        BY <1>3, <1>7, <2>3, <3>1 DEF RecvAsync, push_back
      <3>3. /\ x \in Request /\ x.pc = "queued" /\ x.key = k /\ x.cm = c /\ x.called = 0
            /\ x.token = kInvalidToken /\ x.result = "none"
        BY <1>3, <3>1 DEF Request
      <3>4. TableOK(table', req') /\ MessagesInv'
        BY <2>2, <3>2, <3>3
      <3>5. req' \in [Recvs -> Request] /\ req'[r] = x /\ \A y \in Recvs \ {r} : req'[y] = req[y]
        BY <3>2, <3>3 DEF TypeOK
      <3>6. RequestOK(x, "none", cm) /\ ~Holds(x, "none")
        BY <2>3, <3>3 DEF RequestOK, Holds
      <3>7. RequestInv'
        BY <1>1, <1>2, <3>2, <3>5, <3>6 DEF RendezvousInv, RequestInv
      <3>8. CountInv'
        <4>1. \A y \in Recvs : Holds(req'[y], cb'[y]) <=> Holds(req[y], cb[y])
          BY <1>2, <3>2, <3>5, <3>6
        <4>2. Holders(req', cb') = Holders(req, cb)
          BY <4>1, SameHolders
        <4> QED BY <1>1, <3>2, <4>2 DEF RendezvousInv, CountInv
      <3> QED BY <1>1, <3>2, <3>4, <3>5, <3>7, <3>8 DEF RendezvousInv, TypeOK, TableOK, Items
    <2>4. CASE c # NoCM
      <3>1. c \in Managers /\ next_token[c] \in Nat
        BY <2>4 DEF CMs, TypeOK
      <3>2. /\ rc' = rc + 1 /\ next_token' = [next_token EXCEPT ![c] = @ + 1] /\ received' = received
        BY <1>7, <2>4 DEF RecvAsync, Ref
      <3>3. next_token' \in [Managers -> Nat]
        BY <3>1, <3>2 DEF TypeOK
      <3>4. ASSUME req' \in [Recvs -> Request], Holds(req'[r], cb'[r]),
                   \A y \in Recvs \ {r} : req'[y] = req[y] /\ cb'[y] = cb[y]
            PROVE  rc' \in Nat /\ CountInv'
        <4>1. IsFiniteSet(Holders(req, cb))
          BY DEF RendezvousInv, CountInv
        <4>2. /\ IsFiniteSet(Holders(req', cb')) /\ Cardinality(Holders(req, cb)) \in Nat
              /\ Cardinality(Holders(req', cb')) = Cardinality(Holders(req, cb)) + 1
          BY <1>2, <3>4, <4>1, HolderNew
        <4>3. rc = Cardinality(Holders(req, cb)) + 1
          BY <1>1 DEF RendezvousInv, CountInv
        <4>4. rc' \in Nat /\ rc' = Cardinality(Holders(req', cb')) + 1 /\ rc' # 0
          BY <3>2, <4>2, <4>3
        <4>5. client' /\ ~deleted'
          BY <1>1
        <4> QED BY <4>2, <4>4, <4>5 DEF CountInv
      <3>5. CASE cm[c] = "live"
        <4>1. PICK n \in Nat : n = next_token[c]
          BY <3>1
        <4>0. PICK x : x = [q EXCEPT !.pc = "queued", !.token = n]
          OBVIOUS
        <4>2. /\ req' = [req EXCEPT ![r] = x] /\ cb' = [cb EXCEPT ![r] = "registered"]
              /\ table' = [table EXCEPT ![k] = Append(@, r)]
          BY <1>3, <1>7, <2>4, <3>5, <4>1, <4>0 DEF RecvAsync, push_back
        <4>3. /\ x \in Request /\ x.pc = "queued" /\ x.key = k /\ x.cm = c /\ x.called = 0
              /\ x.token = n /\ x.result = "none"
          <5>1. n \in Int
            BY <4>1
          <5> QED BY <1>3, <4>0, <5>1 DEF Request
        <4>4. TableOK(table', req') /\ MessagesInv'
          BY <2>2, <3>2, <4>2, <4>3
        <4>5. /\ req' \in [Recvs -> Request] /\ req'[r] = x /\ \A y \in Recvs \ {r} : req'[y] = req[y]
              /\ cb'[r] = "registered" /\ \A y \in Recvs \ {r} : cb'[y] = cb[y]
          BY <4>2, <4>3 DEF TypeOK
        <4>6. RequestOK(x, "registered", cm) /\ Holds(x, "registered")
          BY <2>4, <3>1, <3>5, <4>1, <4>3 DEF RequestOK, Holds
        <4>7. RequestInv'
          BY <1>1, <4>5, <4>6 DEF RendezvousInv, RequestInv
        <4>8. rc' \in Nat /\ CountInv'
          BY <3>4, <4>5, <4>6
        <4>9. cb' \in [Recvs -> {"none", "registered", "to_run", "waiter", "unref", "ran", "deregistered"}]
          BY <4>2 DEF TypeOK
        <4> QED BY <1>1, <3>2, <3>3, <4>4, <4>5, <4>7, <4>8, <4>9 DEF RendezvousInv, TypeOK, TableOK, Items
      <3>6. CASE cm[c] # "live"
        <4>1. PICK y : y = Inline(q, "refused", "CANCELLED")
          OBVIOUS
        <4>2. PICK x : x = [y EXCEPT !.token = next_token[c]]
          OBVIOUS
        <4>3. req' = [req EXCEPT ![r] = x] /\ UNCHANGED <<cb, table>>
          BY <1>3, <1>7, <2>4, <3>6, <4>1, <4>2 DEF RecvAsync
        <4>4. /\ y \in Request /\ y.pc = "refused" /\ y.cm = c /\ y.called = 0 /\ y.result # "none"
          <5>1. "CANCELLED" \in Results
            BY DEF Results
          <5> QED BY <1>4, <4>1, <5>1
        <4>5. x \in Request /\ x.pc = "refused" /\ x.cm = c /\ x.called = 0 /\ x.result # "none"
          BY <3>1, <4>2, <4>4 DEF Request
        <4>6. req' \in [Recvs -> Request] /\ req'[r] = x /\ \A z \in Recvs \ {r} : req'[z] = req[z]
          BY <4>3, <4>5 DEF TypeOK
        <4>7. RequestOK(x, "none", cm) /\ Holds(x, "none")
          BY <2>4, <4>5 DEF RequestOK, Holds
        <4>8. RequestInv'
          BY <1>1, <1>2, <4>3, <4>6, <4>7 DEF RendezvousInv, RequestInv
        <4>9. rc' \in Nat /\ CountInv'
          BY <1>2, <3>4, <4>3, <4>6, <4>7
        <4>10. TableOK(table', req')
          <5>1. \A z \in Recvs : /\ req'[z].pc = "queued" <=> req[z].pc = "queued"
                                 /\ req[z].pc = "queued" => req'[z].key = req[z].key
            BY <1>1, <4>5, <4>6
          <5>2. TableOK(table, req')
            BY <1>1, <5>1, TableSame
          <5> QED BY <4>3, <5>2
        <4>11. MessagesInv'
          BY <1>1, <3>2, <4>3 DEF RendezvousInv, MessagesInv
        <4> QED BY <1>1, <3>2, <3>3, <4>3, <4>6, <4>8, <4>9, <4>10, <4>11 DEF RendezvousInv, TypeOK
      <3> QED BY <3>5, <3>6
    <2> QED BY <2>3, <2>4
  <1> QED BY <1>5, <1>6, <1>7

-----------------------------------------------------------------------------
(* The cancel callback.                                                     *)

LEMMA Smallest ==
    ASSUME NEW S \in SUBSET Nat, S # {}
    PROVE  \E m \in S : \A n \in S : m <= n
  <1>1. PICK R : R = OpToRel(<, Nat)
    OBVIOUS
  <1>2. IsWellFoundedOn(R, Nat)
    BY <1>1, NatLessThanWellFounded
  <1>3. PICK m \in S : \A n \in S : ~(<<n, m>> \in R)
    BY <1>2, WFMin
  <1>4. \A m1, n \in Nat : n < m1 => <<n, m1>> \in R
    BY <1>1 DEF OpToRel
  <1>5. ASSUME NEW n \in S PROVE m <= n
    <2>1. n \in Nat /\ m \in Nat /\ ~(n < m)
      BY <1>3, <1>4
    <2> QED BY <2>1
  <1> QED BY <1>5

(* Which item the callback takes: one that waits under the key of r, of the *)
(* same token, so that it has a manager and was registered.                 *)
LEMMA MatchIs ==
    ASSUME TypeOK, RendezvousInv, NEW r \in Recvs, Matches(r) # {},
           NEW i, i = CHOOSE m \in Matches(r) : \A n \in Matches(r) : m <= n,
           NEW k, k = req[r].key, cb[r] # "none"
    PROVE  /\ k \in Keys /\ i \in 1 .. Len(table[k]) /\ table[k][i] \in Recvs
           /\ req[table[k][i]].token >= 0 /\ req[table[k][i]].pc = "queued"
           /\ req[table[k][i]].cm \in Managers /\ req[table[k][i]].key = k
  <1>1. k \in Keys /\ table[k] \in Seq(Items) /\ req[r].token >= 0 /\ TableOK(table, req)
    BY DEF TypeOK, RendezvousInv, RequestInv, RequestOK, Request, Items
  <1>2. Matches(r) \in SUBSET (1 .. Len(table[k])) /\ Len(table[k]) \in Nat
    BY <1>1, LenProperties DEF Matches
  <1>3. Matches(r) \in SUBSET Nat
    BY <1>2
  <1>4. \E m \in Matches(r) : \A n \in Matches(r) : m <= n
    BY <1>3, Smallest
  <1>5. i \in Matches(r)
    BY <1>4
  <1>6. /\ i \in 1 .. Len(table[k]) /\ table[k][i] \in Recvs
        /\ req[table[k][i]].token = req[r].token
    BY <1>2, <1>5 DEF Matches
  <1>7. req[table[k][i]].pc = "queued" /\ req[table[k][i]].key = k
    BY <1>1, <1>6 DEF TableOK
  <1>8. req[table[k][i]].cm # NoCM
    <2>1. RequestOK(req[table[k][i]], cb[table[k][i]], cm)
      BY <1>6 DEF RendezvousInv, RequestInv
    <2>2. ~(kInvalidToken >= 0)
      BY DEF kInvalidToken
    <2> QED BY <1>1, <1>6, <2>1, <2>2 DEF RequestOK
  <1>9. req[table[k][i]].cm \in CMs
    BY <1>6 DEF TypeOK, Request
  <1> QED BY <1>1, <1>6, <1>7, <1>8, <1>9 DEF CMs

LEMMA CancelRecvInv ==
    ASSUME TypeOK, RendezvousInv, NEW r \in Recvs, CancelRecv(r)
    PROVE  TypeOK' /\ RendezvousInv'
  <1> DEFINE States == {"none", "registered", "to_run", "waiter", "unref", "ran", "deregistered"}
  <1>1. /\ cb[r] = "to_run" /\ req[r] \in Request /\ RequestOK(req[r], cb[r], cm)
        /\ UNCHANGED <<status, send, rc, client, deleted, cm, next_token, sent, received>>
    BY DEF CancelRecv, TypeOK, RendezvousInv, RequestInv
  <1>2. ASSUME NEW b \in {"waiter", "unref"}, cb' = [cb EXCEPT ![r] = b]
        PROVE  /\ cb' \in [Recvs -> States]
               /\ \A x \in Recvs : /\ RequestOK(req[x], cb'[x], cm)
                                   /\ Holds(req[x], cb'[x]) <=> Holds(req[x], cb[x])
    <2>1. cb' \in [Recvs -> States] /\ cb'[r] = b /\ \A x \in Recvs \ {r} : cb'[x] = cb[x]
      BY <1>2 DEF TypeOK
    <2>2. RequestOK(req[r], b, cm) /\ Holds(req[r], b) /\ Holds(req[r], cb[r])
      BY <1>1, <1>2 DEF RequestOK, Holds
    <2> QED BY <2>1, <2>2 DEF RendezvousInv, RequestInv
  <1>3. CASE Matches(r) = {}
    <2>1. cb' = [cb EXCEPT ![r] = "unref"] /\ UNCHANGED <<table, req, found>>
      BY <1>3 DEF CancelRecv, NotFound
    <2>2. /\ cb' \in [Recvs -> States]
          /\ \A x \in Recvs : /\ RequestOK(req[x], cb'[x], cm)
                              /\ Holds(req[x], cb'[x]) <=> Holds(req[x], cb[x])
      BY <1>2, <2>1
    <2>3. RendezvousInv'
      BY <1>1, <2>1, <2>2, QuietInv DEF TypeOK
    <2> QED BY <1>1, <2>1, <2>2, <2>3 DEF TypeOK
  <1>4. CASE Matches(r) # {}
    <2>1. PICK k \in Keys : k = req[r].key
      BY <1>1 DEF Request
    <2>2. PICK i \in 1 .. Len(table[k]) :
             /\ i = CHOOSE m \in Matches(r) : \A n \in Matches(r) : m <= n
             /\ table[k][i] \in Recvs /\ req[table[k][i]].pc = "queued"
      BY <1>1, <1>4, <2>1, MatchIs
    <2>3. /\ k \in Keys /\ i \in 1 .. Len(table[k]) /\ table[k][i] \in Recvs
          /\ req[table[k][i]].pc = "queued"
      BY <2>2
    <2>4. PICK x \in Recvs : x = table[k][i]
      BY <2>3
    <2>5. /\ table' = [table EXCEPT ![k] = RemoveAt(@, i)]
          /\ req' = [req EXCEPT ![x] = Completed(@, "CANCELLED")]
          /\ found' = [found EXCEPT ![r] = {x}] /\ cb' = [cb EXCEPT ![r] = "waiter"]
      BY <1>4, <2>1, <2>2, <2>4 DEF CancelRecv, Unlink
    <2>6. /\ cb' \in [Recvs -> States]
          /\ \A y \in Recvs : /\ RequestOK(req[y], cb'[y], cm)
                              /\ Holds(req[y], cb'[y]) <=> Holds(req[y], cb[y])
      BY <1>2, <2>5
    <2>7. PICK y : y = Completed(req[x], "CANCELLED")
      OBVIOUS
    <2>8. /\ y \in Request /\ RequestOK(y, cb'[x], cm) /\ y.pc # "queued"
          /\ Holds(y, cb'[x]) <=> Holds(req[x], cb'[x])
      <3>1. "CANCELLED" \in Results /\ req[x] \in Request
        BY DEF Results, TypeOK
      <3>2. req[x].pc = "queued" /\ RequestOK(req[x], cb'[x], cm)
        BY <2>3, <2>4, <2>6
      <3>3. /\ y \in Request /\ RequestOK(y, cb'[x], cm) /\ y.pc \in {"call_done", "taken"}
            /\ Holds(y, cb'[x]) <=> Holds(req[x], cb'[x])
        BY <2>7, <3>1, <3>2, CompletedOK
      <3> QED BY <3>3
    <2>9. req' \in [Recvs -> Request] /\ req'[x] = y /\ \A z \in Recvs \ {x} : req'[z] = req[z]
      BY <2>5, <2>7, <2>8 DEF TypeOK
    <2>10. RequestInv'
      BY <1>1, <2>6, <2>8, <2>9 DEF RequestInv
    <2>11. CountInv'
      <3>1. \A z \in Recvs : Holds(req'[z], cb'[z]) <=> Holds(req[z], cb[z])
        BY <2>6, <2>8, <2>9
      <3>2. Holders(req', cb') = Holders(req, cb)
        BY <3>1, SameHolders
      <3>3. \A z \in Recvs : req'[z].pc = "queued" => req[z].pc = "queued"
        BY <2>8, <2>9
      <3> QED BY <1>1, <3>2, <3>3 DEF RendezvousInv, CountInv
    <2>12. table[k] \in Seq(Items) /\ TableOK(table, req)
      BY <2>3 DEF TypeOK, Items, RendezvousInv
    <2>13. PICK u \in Seq(Items) : u = RemoveAt(table[k], i) /\ Without(u, table[k], i)
      BY <2>3, <2>12, RemoveItem
    <2>14. /\ table' \in [Keys -> Seq(Items)] /\ table'[k] = u
           /\ \A l \in Keys \ {k} : table'[l] = table[l]
      <3>1. table' = [table EXCEPT ![k] = u]
        BY <2>5, <2>13
      <3>2. table \in [Keys -> Seq(Items)]
        BY <2>12 DEF TableOK
      <3> QED BY <2>3, <2>13, <3>1, <3>2
    <2>15. TableOK(table', req')
      <3>1. /\ table' \in [Keys -> Seq(Items)] /\ Without(table'[k], table[k], i)
            /\ \A l \in Keys \ {k} : table'[l] = table[l]
        BY <2>13, <2>14
      <3>2. /\ \A z \in Recvs : z = table[k][i] => req'[z].pc # "queued"
            /\ \A z \in Recvs : z # table[k][i] => req'[z] = req[z]
        BY <2>4, <2>8, <2>9
      <3>3. TableOK(table, req) /\ k \in Keys /\ i \in 1 .. Len(table[k])
        BY <2>3, <2>12
      <3> HIDE DEF States
      <3> QED BY <3>1, <3>2, <3>3, TableTake
    <2>16. MessagesInv'
      <3>1. sent[k] \in Seq(Sends) /\ received[k] \in Seq(Sends)
        BY <2>3 DEF TypeOK
      <3>2. AllIn(table[k], Recvs)
        <4>1. ~AllIn(table[k], Sends)
          BY <2>3, DisjointAssumption DEF AllIn
        <4> QED BY <2>3, <2>12, <4>1 DEF TableOK
      <3>3. AllIn(u, Recvs)
        BY <2>3, <2>12, <2>13, <3>2, AllLeft
      <3>4. ASSUME status = "OK", ~deleted PROVE MessagesOK(u, sent'[k], received'[k])
        <4>1. MessagesOK(table[k], sent[k], received[k])
          BY <2>3, <3>4 DEF RendezvousInv, MessagesInv
        <4>2. MessagesOK(u, sent[k], received[k])
          BY <2>12, <3>1, <3>2, <3>3, <4>1, MessagesStay
        <4> QED BY <1>1, <4>2
      <3>5. table' = [table EXCEPT ![k] = u]
        BY <2>5, <2>13
      <3> QED BY <1>1, <2>3, <3>4, <3>5, MessagesAt
    <2>17. found' \in [Recvs -> SUBSET Recvs]
      BY <2>5 DEF TypeOK
    <2> QED BY <1>1, <2>6, <2>9, <2>10, <2>11, <2>15, <2>16, <2>17
            DEF RendezvousInv, TypeOK, TableOK, Items
  <1> QED BY <1>3, <1>4

-----------------------------------------------------------------------------
(* The invariant holds.                                                     *)

LEMMA InitInv ==
    ASSUME Init
    PROVE  TypeOK /\ RendezvousInv
  <1>1. NoRequest \in Request
    <2>1. (CHOOSE l \in Keys : TRUE) \in Keys
      BY KeysAssumption
    <2>2. NoCM \in CMs /\ kInvalidToken \in Int /\ 0 \in 0 .. 2
      BY DEF CMs, kInvalidToken
    <2> QED BY <2>1, <2>2 DEF NoRequest, Request
  <1>2. /\ NoRequest.pc = "idle" /\ NoRequest.token = kInvalidToken /\ NoRequest.result = "none"
        /\ NoRequest.called = 0 /\ NoRequest.cm = NoCM
    BY DEF NoRequest
  <1>3. \A r \in Recvs : req[r] = NoRequest /\ cb[r] = "none"
    BY DEF Init
  <1>4. TypeOK
    <2>1. <<>> \in Seq(Sends \cup Recvs) /\ <<>> \in Seq(Sends)
      OBVIOUS
    <2> QED BY <1>1, <2>1 DEF Init, TypeOK
  <1>5. TableOK(table, req)
    BY <1>2, <1>3, TableEmpty DEF Init
  <1>6. RequestInv
    BY <1>2, <1>3 DEF RequestInv, RequestOK
  <1>7. CountInv
    <2>1. Holders(req, cb) = {}
      BY <1>2, <1>3 DEF Holders, Holds
    <2>2. IsFiniteSet({}) /\ Cardinality({}) = 0
      BY FS_EmptySet
    <2>3. Cardinality(Holders(req, cb)) = 0 /\ IsFiniteSet(Holders(req, cb))
      BY <2>1, <2>2
    <2>4. client /\ ~deleted /\ rc = 1
      BY DEF Init
    <2> QED BY <2>3, <2>4 DEF CountInv
  <1>8. MessagesInv
    BY DEF MessagesInv, MessagesOK, AllIn, Init
  <1> QED BY <1>4, <1>5, <1>6, <1>7, <1>8 DEF RendezvousInv

LEMMA NextInv ==
    ASSUME TypeOK, RendezvousInv, [Next]_vars
    PROVE  TypeOK' /\ RendezvousInv'
  <1>1. CASE \E v \in Sends, k \in Keys : Send(v, k)
    BY <1>1, SendInv
  <1>2. CASE \E r \in Recvs, k \in Keys, c \in CMs, mode \in Modes : RecvAsync(r, k, c, mode)
    BY <1>2, RecvAsyncInv
  <1>3. CASE StartAbort
    BY <1>3, StartAbortInv
  <1>4. CASE ClientUnref
    BY <1>4, ClientUnrefInv
  <1>5. ASSUME NEW r \in Recvs, Progress(r) \/ RecvTimesOut(r)
        PROVE  TypeOK' /\ RendezvousInv'
    <2>1. CASE UnrefRefused(r) \/ UnrefWaiter(r)
      BY <2>1, UnrefRequestInv
    <2>2. CASE WaiterDeregisters(r)
      BY <2>2, WaiterDeregistersInv
    <2>3. CASE CallDone(r) \/ RecvReturns(r) \/ RecvTimesOut(r)
      BY <2>3, CallerInv
    <2>4. CASE CancelRecv(r)
      BY <2>4, CancelRecvInv
    <2>5. CASE CancelRecvDone(r)
      BY <2>5, ManagerInv
    <2>6. CASE UnrefCancelled(r)
      BY <2>6, UnrefCancelledInv
    <2> QED BY <1>5, <2>1, <2>2, <2>3, <2>4, <2>5, <2>6 DEF Progress
  <1>6. CASE \E c \in Managers : StartCancel(c) \/ CancelDone(c)
    BY <1>6, ManagerInv
  <1>7. CASE UNCHANGED vars
    BY <1>7 DEF vars, TypeOK, RendezvousInv, RequestInv, CountInv, MessagesInv
  <1> QED BY <1>1, <1>2, <1>3, <1>4, <1>5, <1>6, <1>7 DEF Next

(* The type invariant and the invariant of the table, the requests, the     *)
(* reference count and the messages hold, whatever Send, RecvAsync,         *)
(* StartAbort, the managers and the threads inside them do.                 *)
THEOREM RendezvousInvariant == Spec => [](TypeOK /\ RendezvousInv)
  <1>1. Init => TypeOK /\ RendezvousInv
    BY InitInv
  <1>2. TypeOK /\ RendezvousInv /\ [Next]_vars => (TypeOK /\ RendezvousInv)'
    BY NextInv
  <1> QED BY <1>1, <1>2, PTL DEF Spec

(* The item queue under each key is of the form [item.type == kSend]* or    *)
(* [item.type == kRecv]* (local_rendezvous.h:56-59), and a request is in    *)
(* the table exactly while it waits, once and under its key, for any number *)
(* of calls and managers.                                                   *)
THEOREM QueuesOfOneKind == Spec => []QueueOK
  <1>1. ASSUME TypeOK, RendezvousInv PROVE QueueOK
    <2>1. TableOK(table, req)
      BY <1>1 DEF RendezvousInv
    <2>2. ASSUME NEW k \in Keys, NEW S, AllIn(table[k], S) PROVE Range(table[k]) \subseteq S
      <3>1. DOMAIN table[k] = 1 .. Len(table[k])
        BY <1>1, LenProperties DEF TypeOK
      <3> QED BY <2>2, <3>1 DEF AllIn, Range
    <2>3. \A k \in Keys : Range(table[k]) \subseteq Sends \/ Range(table[k]) \subseteq Recvs
      BY <2>1, <2>2 DEF TableOK
    <2>4. ASSUME NEW r \in Recvs, NEW k \in Keys
          PROVE  Cardinality({i \in DOMAIN table[k] : table[k][i] = r})
                     = IF req[r].pc = "queued" /\ req[r].key = k THEN 1 ELSE 0
      <3>1. DOMAIN table[k] = 1 .. Len(table[k])
        BY <1>1, LenProperties DEF TypeOK
      <3>2. PICK S : S = {i \in DOMAIN table[k] : table[k][i] = r}
        OBVIOUS
      <3>3. CASE req[r].pc = "queued" /\ req[r].key = k
        <4>1. PICK i \in 1 .. Len(table[k]) : table[k][i] = r
          BY <2>1, <3>3 DEF TableOK
        <4>2. S = {i}
          BY <2>1, <3>1, <3>2, <4>1 DEF TableOK
        <4>3. Cardinality(S) = 1
          BY <4>2, FS_Singleton
        <4> QED BY <3>2, <3>3, <4>3
      <3>4. CASE ~(req[r].pc = "queued" /\ req[r].key = k)
        <4>1. S = {}
          BY <2>1, <3>1, <3>2, <3>4 DEF TableOK
        <4>2. Cardinality(S) = 0
          BY <4>1, FS_EmptySet
        <4> QED BY <3>2, <3>4, <4>2
      <3> QED BY <3>3, <3>4
    <2> QED BY <2>3, <2>4 DEF QueueOK
  <1> QED BY <1>1, RendezvousInvariant, PTL

(* done is called at most once per request, although Send, StartAbort, the  *)
(* cancel callback and the destructor all complete requests outside of mu_. *)
THEOREM DoneAtMostOnce == Spec => []DoneOnce
  <1>1. TypeOK /\ RendezvousInv => DoneOnce
    BY DEF RendezvousInv, RequestInv, RequestOK, DoneOnce
  <1> QED BY <1>1, RendezvousInvariant, PTL

(* The reference that RecvAsync takes "is dropped in exactly one of the     *)
(* following cases" (local_rendezvous.cc:192): no callback or Unref is      *)
(* outstanding when the rendezvous is deleted, and it is deleted when the   *)
(* owner and all requests are through.                                      *)
THEOREM ReferencesCounted == Spec => []RefCounted
  <1>1. ASSUME TypeOK, RendezvousInv PROVE RefCounted
    <2>1. /\ IsFiniteSet(Holders(req, cb)) /\ Cardinality(Holders(req, cb)) \in Nat
          /\ rc = Cardinality(Holders(req, cb)) + (IF client THEN 1 ELSE 0)
          /\ deleted <=> rc = 0
          /\ deleted => \A r \in Recvs : req[r].pc # "queued"
      BY <1>1, FS_CardinalityType DEF RendezvousInv, CountInv
    <2>2. ASSUME deleted
          PROVE  \A r \in Recvs : /\ req[r].pc \notin {"queued", "refused", "unref"}
                                  /\ cb[r] \notin {"registered", "to_run", "waiter", "unref"}
      <3>1. Cardinality(Holders(req, cb)) = 0
        BY <2>1, <2>2
      <3>2. Holders(req, cb) = {}
        BY <2>1, <3>1, FS_EmptySet
      <3> QED BY <2>1, <2>2, <3>2 DEF Holders, Holds
    <2>3. ASSUME ~client, \A r \in Recvs : Ended(r) PROVE deleted
      <3>1. Holders(req, cb) = {}
        BY <2>3 DEF Holders, Holds, Ended
      <3>2. Cardinality(Holders(req, cb)) = 0
        BY <3>1, FS_EmptySet
      <3> QED BY <2>1, <2>3, <3>2
    <2> QED BY <2>2, <2>3 DEF RefCounted
  <1> QED BY <1>1, RendezvousInvariant, PTL
=============================================================================
