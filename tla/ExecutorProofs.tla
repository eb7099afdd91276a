---------------------------- MODULE ExecutorProofs ----------------------------
(***************************************************************************)
(* Theorems about one step of the Executor, for any graphs without cycles,  *)
(* any arguments, and any failures, cancellations and deferred work.        *)
(***************************************************************************)
EXTENDS Executor, FiniteSetTheorems, SequenceTheorems, TLAPS

-----------------------------------------------------------------------------
(* A graph g as the model has it in `graph'.                               *)
EdgesOf(g, n) == g.out[n] \o g.control[n]
EdgesAll(g) == UNION {{m} \X DOMAIN EdgesOf(g, m) : m \in DOMAIN g.out}
Target(g, e) == EdgesOf(g, e[1])[e[2]]
InputsOf(g, n) == {e \in EdgesAll(g) : Target(g, e) = n}
DataEdge(g, e) == e[2] <= Len(g.out[e[1]])

-----------------------------------------------------------------------------
(* The nodes that a thread has: waiting in inline_ready or in the rest of  *)
(* its closure, found ready, or in process.                                *)
Busy(f) == f.pc \notin {"idle", "loop", "schedule"}
Current(f) == IF Busy(f) THEN {f.node} ELSE {}
Waiting(f) == Range(f.inline) \cup Range(f.rest)
Holds(f) == Waiting(f) \cup Range(f.ready) \cup Current(f)

(* Those of them that num_outstanding_ops_ counts.                         *)
Counts(f) == Waiting(f) \cup Current(f) \cup (IF f.pc = "schedule" THEN Range(f.ready) ELSE {})

(* The locals of thread c fit together.                                    *)
FrameOK(g, c, f) ==
    /\ f.pc = "idle" => f = Idle
    /\ IsInjective(f.inline) /\ IsInjective(f.rest) /\ IsInjective(f.ready)
    /\ Range(f.inline) \cap Range(f.rest) = {}
    /\ Waiting(f) \cap Range(f.ready) = {}
    /\ Busy(f) => f.node \notin Waiting(f) \cup Range(f.ready)
    /\ Holds(f) \subseteq DOMAIN g.out
    /\ f.ready # <<>> => f.pc \in {"write", "decrement", "node_done", "schedule"} /\ f.s = "OK"
    /\ f.pc = "schedule" => f.ready # <<>>
    /\ f.pc \in {"write", "decrement"} => f.s = "OK" /\ f.edge \in DOMAIN EdgesOf(g, f.node)
    /\ f.pc = "write" => DataEdge(g, <<f.node, f.edge>>)
    /\ f.pc = "kernel" => f.s = "OK"
    /\ c[1] = "done" => f.inline = <<>> /\ f.rest = <<>> /\ (Busy(f) => f.node = c[2])
    /\ c[1] = "process" => f.pc # "kernel"

FramesInv(g) == \A c \in Threads : FrameOK(g, c, thread[c])

(* A node is in one place only.                                            *)
PlaceInv(g) ==
    /\ \A t \in pool : IsInjective(t) /\ Range(t) \subseteq DOMAIN g.out
    /\ \A t, u \in pool, n \in Nodes : n \in Range(t) /\ n \in Range(u) => t = u
    /\ \A t \in pool, c \in Threads, n \in Nodes : ~ (n \in Range(t) /\ n \in Holds(thread[c]))
    /\ \A c, d \in Threads, n \in Nodes :
          n \in Holds(thread[c]) /\ n \in Holds(thread[d]) => c = d

Held(n) == (\E t \in pool : n \in Range(t)) \/ (\E c \in Threads : n \in Holds(thread[c]))

(* The step runs: not the case in which RunAsync calls done at once.       *)
Runs == started /\ (deleted => finish_calls > 0)

(* What the nodes have reached, if D are the edges that have been counted. *)
ReadyNode(g, D, n) == processed[n] = 0 /\ InputsOf(g, n) \subseteq D

NodeInv(g, D) ==
    /\ graph = g /\ g \in Graphs /\ D \subseteq EdgesAll(g)
    /\ \A n \in DOMAIN g.out :
          /\ pending[n] = Cardinality(InputsOf(g, n) \ D)
          /\ processed[n] \in {0, 1}
          /\ processed[n] = 1 => InputsOf(g, n) \subseteq D
          /\ Runs /\ ReadyNode(g, D, n) => Held(n)
    /\ \A t \in pool : \A n \in Range(t) : ReadyNode(g, D, n)
    /\ \A c \in Threads :
          /\ \A n \in Waiting(thread[c]) \cup Range(thread[c].ready) : ReadyNode(g, D, n)
          /\ Busy(thread[c]) => processed[thread[c].node] = 1
    /\ \A n \in Nodes :
          /\ thread[<<"process", n>>].pc # "idle" =>
                processed[n] = 1 \/ n \in Range(thread[<<"process", n>>].inline)
          /\ thread[<<"done", n>>].pc # "idle" => processed[n] = 1

(* How far a node has got with its outputs, and where the values are.      *)
EdgeInv(g, D) ==
    /\ \A e \in D : processed[e[1]] = 1 /\ e[1] \notin failed
    /\ \A c \in Threads : LET f == thread[c] IN
          /\ f.pc \in {"kernel", "write", "decrement"} => f.node \notin failed
          /\ f.pc = "kernel" =>
                /\ \A e \in D : e[1] # f.node
                /\ \A e \in InputsOf(g, f.node) : DataEdge(g, e) => e \in full
          /\ f.pc \in {"write", "decrement"} =>
                \A i \in DOMAIN EdgesOf(g, f.node) : <<f.node, i>> \in D <=> i < f.edge
          /\ f.pc = "decrement" /\ DataEdge(g, <<f.node, f.edge>>) => <<f.node, f.edge>> \in full
          /\ f.pc = "node_done" /\ f.s = "OK" =>
                \A i \in DOMAIN EdgesOf(g, f.node) : <<f.node, i>> \in D
    /\ \A m \in DOMAIN g.out : processed[m] = 1 =>
          \/ status # "OK"
          \/ \E c \in Threads : Busy(thread[c]) /\ thread[c].node = m
          \/ \A i \in DOMAIN EdgesOf(g, m) : <<m, i>> \in D
    /\ \A e \in D : DataEdge(g, e) /\ processed[Target(g, e)] = 0 => e \in full
    /\ \A m \in failed : processed[m] = 1

(* Errors on their way to status_, and where a cancellation came from.     *)
StatusInv ==
    /\ \A c \in Threads : LET f == thread[c] IN
          /\ f.s # "OK" => failed # {}
          /\ f.s # "OK" /\ ~Busy(f) => status # "OK"
          /\ f.pc \in {"abort", "cancel", "error"} => status # "OK" /\ f.s # "OK"
          /\ f.s # "DERIVED"
    /\ \A m \in failed : \/ status # "OK"
                         \/ \E c \in Threads : /\ Busy(thread[c]) /\ thread[c].node = m
                                               /\ thread[c].s # "OK"
    /\ status # "OK" => failed # {}
    /\ status = "DERIVED" => foreign_cancel
    /\ cancelled => \/ foreign_cancel \/ status # "OK"
                    \/ finish.pc \in {"delete", "call", "end"}

(* Who calls Finish.                                                       *)
FinishInv ==
    /\ num_deferred_ops = Cardinality(deferred)
    /\ \A n \in deferred : processed[n] = 1
    /\ \A c \in Threads : thread[c].completed =>
          num_outstanding_ops = 0 /\ finish_calls = 0 /\ ~finish_when_deferred_ops_done /\ Runs
    /\ \A c, d \in Threads : thread[c].completed /\ thread[d].completed => c = d
    /\ finish_when_deferred_ops_done =>
          num_outstanding_ops = 0 /\ Runs /\ (num_deferred_ops = 0 <=> finish_calls = 1)
    /\ finish_calls \in {0, 1} /\ (finish_calls = 0 <=> finish.pc = "none")
    /\ finish_calls = 1 => num_outstanding_ops = 0 /\ num_deferred_ops = 0 /\ Runs
    /\ finish.pc \in {"call", "end"} <=> deleted /\ finish_calls = 1
    /\ ~Runs => /\ num_outstanding_ops = 0 /\ pool = {} /\ deferred = {} /\ failed = {}
                /\ \A c \in Threads : thread[c] = Idle
                /\ \A n \in Nodes : processed[n] = 0

(* What Finish will report, and what was reported.                         *)
ReportInv ==
    /\ finish.pc \notin {"none", "begin"} =>
          /\ finish.status = "OK" => status = "OK"
          /\ finish.status # "OK" => status # "OK" \/ ~device_ok
          /\ finish.status = "DERIVED" => status = "DERIVED"
    /\ finish.pc = "sync" => status = "OK"
    /\ finish.pc = "end" => reported = <<finish.status>>
    /\ finish.pc # "end" /\ Runs => reported = <<>>
    /\ ~started => reported = <<>> /\ ~deleted
    /\ started /\ ~Runs => \/ reported = <<"ERROR">>
                           \/ reported = <<"OK">> /\ GraphNodes = {}

ExecInv(g, D) ==
    /\ TypeOK /\ FramesInv(g) /\ PlaceInv(g) /\ NodeInv(g, D) /\ EdgeInv(g, D)
    /\ Accounting /\ StatusInv /\ FinishInv /\ ReportInv

(* The inductive invariant.                                                *)
ExecutorInv == \E g \in Graphs : \E D \in SUBSET EdgesAll(g) : ExecInv(g, D)

-----------------------------------------------------------------------------
(* Sequences without repetition, and the nodes in them.                    *)
LEMMA EmptyRange ==
    ASSUME NEW S
    PROVE  /\ <<>> \in Seq(S) /\ Len(<<>>) = 0 /\ Range(<<>>) = {} /\ IsInjective(<<>>)
           /\ \A s \in Seq(S) : Range(s) = {} => s = <<>>
  <1>1. <<>> \in Seq(S) /\ Len(<<>>) = 0 /\ Range(<<>>) = {} /\ IsInjective(<<>>)
    BY DEF Range, IsInjective
  <1>2. ASSUME NEW s \in Seq(S), Range(s) = {} PROVE s = <<>>
    <2>1. Len(s) \in Nat /\ DOMAIN s = 1 .. Len(s) /\ \A i \in DOMAIN s : s[i] \in Range(s)
      BY DEF Range
    <2>2. 1 \notin 1 .. Len(s)
      BY <1>2, <2>1
    <2> QED BY <2>1, <2>2
  <1> QED BY <1>1, <1>2

LEMMA SingleRange ==
    ASSUME NEW S, NEW x \in S
    PROVE  <<x>> \in Seq(S) /\ Len(<<x>>) = 1 /\ Range(<<x>>) = {x} /\ IsInjective(<<x>>)
  BY DEF Range, IsInjective

LEMMA RangeIn ==
    ASSUME NEW S, NEW s \in Seq(S)
    PROVE  /\ Range(s) \subseteq S /\ Len(s) \in Nat /\ DOMAIN s = 1 .. Len(s)
           /\ \A i \in 1 .. Len(s) : s[i] \in Range(s)
           /\ \A x \in Range(s) : \E i \in 1 .. Len(s) : s[i] = x
           /\ s \in Seq(Range(s))
  BY DEF Range

LEMMA PopRange ==
    ASSUME NEW S, NEW s \in Seq(S), s # <<>>, IsInjective(s)
    PROVE  /\ Head(s) \in S /\ Tail(s) \in Seq(S) /\ IsInjective(Tail(s))
           /\ Range(s) = {Head(s)} \cup Range(Tail(s))
           /\ Head(s) \notin Range(Tail(s))
  <1>1. /\ Len(s) \in Nat \ {0} /\ DOMAIN s = 1 .. Len(s) /\ Head(s) = s[1]
        /\ Tail(s) \in Seq(S) /\ Len(Tail(s)) = Len(s) - 1
        /\ \A i \in 1 .. Len(s) - 1 : Tail(s)[i] = s[i + 1]
    OBVIOUS
  <1>2. DOMAIN Tail(s) = 1 .. Len(s) - 1
    BY <1>1
  <1>3. IsInjective(Tail(s)) /\ Head(s) \notin Range(Tail(s))
    BY <1>1, <1>2 DEF IsInjective, Range
  <1>4. Range(s) \subseteq {Head(s)} \cup Range(Tail(s))
    <2> SUFFICES ASSUME NEW i \in 1 .. Len(s) PROVE s[i] \in {Head(s)} \cup Range(Tail(s))
      BY <1>1 DEF Range
    <2>1. i = 1 \/ (i - 1 \in 1 .. Len(s) - 1 /\ s[i] = Tail(s)[i - 1])
      BY <1>1
    <2> QED BY <1>1, <1>2, <2>1 DEF Range
  <1>5. {Head(s)} \cup Range(Tail(s)) \subseteq Range(s)
    BY <1>1, <1>2 DEF Range
  <1> QED BY <1>1, <1>3, <1>4, <1>5

LEMMA CatRange ==
    ASSUME NEW S, NEW s \in Seq(S), NEW t \in Seq(S)
    PROVE  /\ s \o t \in Seq(S) /\ Len(s \o t) = Len(s) + Len(t)
           /\ Range(s \o t) = Range(s) \cup Range(t)
           /\ IsInjective(s) /\ IsInjective(t) /\ Range(s) \cap Range(t) = {} => IsInjective(s \o t)
  <1>1. /\ Len(s) \in Nat /\ Len(t) \in Nat /\ DOMAIN s = 1 .. Len(s) /\ DOMAIN t = 1 .. Len(t)
        /\ s \o t \in Seq(S) /\ Len(s \o t) = Len(s) + Len(t)
        /\ DOMAIN (s \o t) = 1 .. Len(s) + Len(t)
    OBVIOUS
  <1>2. /\ \A i \in 1 .. Len(s) : (s \o t)[i] = s[i]
        /\ \A i \in 1 .. Len(t) : (s \o t)[Len(s) + i] = t[i]
    BY <1>1
  <1>3. \A i \in 1 .. Len(s) + Len(t) :
           i \in 1 .. Len(s) \/ \E k \in 1 .. Len(t) : i = Len(s) + k
    <2> TAKE i \in 1 .. Len(s) + Len(t)
    <2>1. i \in 1 .. Len(s) \/ (i - Len(s) \in 1 .. Len(t) /\ i = Len(s) + (i - Len(s)))
      BY <1>1
    <2> QED BY <2>1
  <1>4. Range(s \o t) \subseteq Range(s) \cup Range(t)
    BY <1>1, <1>2, <1>3 DEF Range
  <1>5. Range(s) \cup Range(t) \subseteq Range(s \o t)
    <2>1. \A i \in 1 .. Len(s) : i \in DOMAIN (s \o t)
      BY <1>1
    <2>2. \A i \in 1 .. Len(t) : Len(s) + i \in DOMAIN (s \o t)
      BY <1>1
    <2> QED BY <1>1, <1>2, <2>1, <2>2 DEF Range
  <1>6. ASSUME IsInjective(s), IsInjective(t), Range(s) \cap Range(t) = {} PROVE IsInjective(s \o t)
    <2>1. \A i \in 1 .. Len(s), k \in 1 .. Len(t) : s[i] # t[k]
      BY <1>1, <1>6 DEF Range
    <2>2. \A a, b \in 1 .. Len(s) + Len(t) : (s \o t)[a] = (s \o t)[b] => a = b
      <3> SUFFICES ASSUME NEW a \in 1 .. Len(s) + Len(t), NEW b \in 1 .. Len(s) + Len(t),
                          (s \o t)[a] = (s \o t)[b]
                   PROVE  a = b
        OBVIOUS
      <3>1. CASE a \in 1 .. Len(s) /\ b \in 1 .. Len(s)
        BY <1>1, <1>2, <1>6, <3>1 DEF IsInjective
      <3>2. ASSUME NEW k \in 1 .. Len(t), NEW l \in 1 .. Len(t), a = Len(s) + k, b = Len(s) + l
            PROVE  a = b
        BY <1>1, <1>2, <1>6, <3>2 DEF IsInjective
      <3>3. ASSUME NEW i \in 1 .. Len(s), NEW k \in 1 .. Len(t)
            PROVE  (s \o t)[i] # (s \o t)[Len(s) + k]
        BY <1>2, <2>1, <3>3
      <3> QED BY <1>3, <3>1, <3>2, <3>3
    <2> QED BY <1>1, <2>2 DEF IsInjective
  <1> QED BY <1>1, <1>4, <1>5, <1>6

LEMMA AppendRange ==
    ASSUME NEW S, NEW s \in Seq(S), NEW x \in S
    PROVE  /\ Append(s, x) \in Seq(S) /\ Append(s, x) # <<>> /\ Len(Append(s, x)) = Len(s) + 1
           /\ Range(Append(s, x)) = Range(s) \cup {x}
           /\ IsInjective(s) /\ x \notin Range(s) => IsInjective(Append(s, x))
  <1>1. Append(s, x) = s \o <<x>> /\ Append(s, x) \in Seq(S) /\ Len(Append(s, x)) = Len(s) + 1
    OBVIOUS
  <1>2. Append(s, x) # <<>>
    BY <1>1
  <1>3. <<x>> \in Seq(S) /\ Range(<<x>>) = {x} /\ IsInjective(<<x>>)
    BY SingleRange
  <1>4. /\ Range(s \o <<x>>) = Range(s) \cup Range(<<x>>)
        /\ IsInjective(s) /\ IsInjective(<<x>>) /\ Range(s) \cap Range(<<x>>) = {}
              => IsInjective(s \o <<x>>)
    BY <1>3, CatRange
  <1> QED BY <1>1, <1>2, <1>3, <1>4

LEMMA RangeCardinality ==
    ASSUME NEW S, NEW s \in Seq(S), IsInjective(s)
    PROVE  IsFiniteSet(Range(s)) /\ Cardinality(Range(s)) = Len(s)
  <1>1. Len(s) \in Nat /\ s \in [1 .. Len(s) -> Range(s)]
    BY RangeIn
  <1>2. s \in Bijection(1 .. Len(s), Range(s))
    BY <1>1, RangeIn DEF Bijection, Injection, Surjection, IsInjective
  <1>3. ExistsBijection(1 .. Len(s), Range(s))
    BY <1>2 DEF ExistsBijection
  <1>4. IsFiniteSet(1 .. Len(s)) /\ Cardinality(1 .. Len(s)) = Len(s)
    BY <1>1, FS_Interval
  <1> QED BY <1>3, <1>4, FS_Bijection

(* root_nodes() lists the roots, each once.                                *)
LEMMA ListOfSet ==
    ASSUME NEW S, IsFiniteSet(S)
    PROVE  /\ SetToSeq(S) \in Seq(S) /\ Range(SetToSeq(S)) = S
           /\ Len(SetToSeq(S)) = Cardinality(S) /\ IsInjective(SetToSeq(S))
  <1> DEFINE n == Cardinality(S)
             q == SetToSeq(S)
  <1>1. n \in Nat /\ ExistsBijection(1 .. n, S)
    BY FS_CardinalityType
  <1>2. \E f \in [1 .. n -> S] : IsInjective(f)
    BY <1>1 DEF ExistsBijection, Bijection, Injection, IsInjective
  <1>3. q \in [1 .. n -> S] /\ IsInjective(q)
    BY <1>2 DEF SetToSeq
  <1> HIDE DEF q
  <1>4. q \in Seq(S) /\ Len(q) = n
    BY <1>1, <1>3
  <1>5. Range(q) \subseteq S /\ Cardinality(Range(q)) = n
    BY <1>3, <1>4, RangeCardinality, RangeIn
  <1>6. Range(q) = S
    BY <1>5, FS_Subset
  <1> QED BY <1>3, <1>4, <1>6 DEF q

(* What remains of the ready nodes has no repetition.                      *)
LEMMA WithoutIs ==
    ASSUME NEW S, NEW s \in Seq(S), IsInjective(s), NEW X
    PROVE  /\ Without(s, X) \in Seq(S) /\ IsInjective(Without(s, X))
           /\ Range(Without(s, X)) = Range(s) \ X
  <1> DEFINE kept == {i \in DOMAIN s : s[i] \notin X}
             below(i) == {j \in kept : j <= i}
             rank == [i \in kept |-> Cardinality(below(i))]
             n == Cardinality(kept)
             at(k) == CHOOSE i \in kept : Cardinality(below(i)) = k
             w == Without(s, X)
  <1>1. Len(s) \in Nat /\ DOMAIN s = 1 .. Len(s) /\ kept \subseteq 1 .. Len(s) /\ kept \subseteq Nat
    OBVIOUS
  <1>2. IsFiniteSet(kept) /\ n \in Nat
    <2>1. IsFiniteSet(1 .. Len(s))
      BY <1>1, FS_Interval
    <2> QED BY <1>1, <2>1, FS_Subset, FS_CardinalityType
  <1>3. \A i \in kept : /\ below(i) \subseteq kept /\ IsFiniteSet(below(i)) /\ i \in below(i)
                        /\ Cardinality(below(i)) \in 1 .. n
    <2> TAKE i \in kept
    <2>1. below(i) \subseteq kept /\ i \in below(i)
      BY <1>1
    <2>2. IsFiniteSet(below(i)) /\ Cardinality(below(i)) <= n /\ Cardinality(below(i)) \in Nat
      BY <1>2, <2>1, FS_Subset, FS_CardinalityType
    <2>3. Cardinality(below(i)) # 0
      BY <2>1, <2>2, FS_EmptySet
    <2> QED BY <1>2, <2>1, <2>2, <2>3
  <1>4. ASSUME NEW i \in kept, NEW j \in kept, i < j PROVE Cardinality(below(i)) # Cardinality(below(j))
    <2>1. below(i) \subseteq below(j) /\ j \notin below(i)
      BY <1>1, <1>4
    <2>2. below(i) # below(j)
      BY <1>3, <2>1
    <2> HIDE DEF below
    <2>3. IsFiniteSet(below(j)) /\ below(i) \in SUBSET below(j)
      BY <1>3, <2>1
    <2> QED BY <2>2, <2>3, FS_Subset
  <1>5. \A i, j \in kept : Cardinality(below(i)) = Cardinality(below(j)) => i = j
    <2> SUFFICES ASSUME NEW i \in kept, NEW j \in kept, i # j
                 PROVE  Cardinality(below(i)) # Cardinality(below(j))
      OBVIOUS
    <2>1. i < j \/ j < i
      BY <1>1
    <2> QED BY <1>4, <2>1
  <1> HIDE DEF below, kept
  <1>6. rank \in Injection(kept, 1 .. n)
    BY <1>3, <1>5 DEF Injection, IsInjective
  <1>7. IsFiniteSet(1 .. n) /\ Cardinality(1 .. n) = n
    BY <1>2, FS_Interval
  <1>8. rank \in Surjection(kept, 1 .. n)
    BY <1>2, <1>6, <1>7, FS_Injection
  <1>9. \A k \in 1 .. n : at(k) \in kept /\ Cardinality(below(at(k))) = k
    <2> TAKE k \in 1 .. n
    <2>1. \E i \in kept : Cardinality(below(i)) = k
      BY <1>8 DEF Surjection
    <2> QED BY <2>1
  <1>10. \A i \in kept : Cardinality(below(i)) \in 1 .. n /\ at(Cardinality(below(i))) = i
    BY <1>3, <1>5
  <1>11. w = [k \in 1 .. n |-> s[at(k)]]
    BY DEF Without, kept, below
  <1> HIDE DEF at, w, rank
  <1>12. \A k \in 1 .. n : at(k) \in 1 .. Len(s) /\ s[at(k)] \in Range(s) \ X /\ s[at(k)] \in S
    BY <1>1, <1>9, RangeIn DEF kept
  <1>13. w \in [1 .. n -> S] /\ \A k \in 1 .. n : w[k] = s[at(k)]
    BY <1>11, <1>12
  <1>14. w \in Seq(S) /\ Len(w) = n
    BY <1>2, <1>13
  <1>15. IsInjective(w)
    <2> SUFFICES ASSUME NEW a \in 1 .. n, NEW b \in 1 .. n, w[a] = w[b] PROVE a = b
      BY <1>13 DEF IsInjective
    <2>1. at(a) = at(b)
      BY <1>1, <1>12, <1>13 DEF IsInjective
    <2> QED BY <1>9, <2>1
  <1>16. Range(w) \subseteq Range(s) \ X
    BY <1>12, <1>13 DEF Range
  <1>17. ASSUME NEW x \in Range(s) \ X PROVE x \in Range(w)
    <2>1. PICK i \in 1 .. Len(s) : s[i] = x
      BY RangeIn
    <2>2. i \in kept
      BY <1>1, <2>1 DEF kept
    <2>3. PICK k \in 1 .. n : at(k) = i
      BY <1>10, <2>2
    <2> QED BY <1>13, <2>1, <2>3 DEF Range
  <1> QED BY <1>14, <1>15, <1>16, <1>17 DEF w

-----------------------------------------------------------------------------
(* The graph.                                                              *)
LEMMA GraphFacts ==
    ASSUME NEW g \in Graphs
    PROVE  /\ DOMAIN g.out \subseteq Nodes /\ IsFiniteSet(DOMAIN g.out)
           /\ \A n \in DOMAIN g.out : /\ EdgesOf(g, n) \in Seq(DOMAIN g.out) /\ Len(EdgesOf(g, n)) \in Nat
                                      /\ DOMAIN EdgesOf(g, n) = 1 .. Len(EdgesOf(g, n))
                                      /\ Len(g.out[n]) \in Nat
                                      /\ g.op[n] \in {"noop", "const", "sync", "async"}
  <1>1. /\ DOMAIN g.out \subseteq Nodes /\ g.out \in [DOMAIN g.out -> Seq(DOMAIN g.out)]
        /\ g.control \in [DOMAIN g.out -> Seq(DOMAIN g.out)]
        /\ g.op \in [DOMAIN g.out -> {"noop", "const", "sync", "async"}]
    BY GraphsAssumption DEF IsGraph
  <1>2. IsFiniteSet(DOMAIN g.out)
    BY <1>1, GraphsAssumption, FS_Subset
  <1>3. ASSUME NEW n \in DOMAIN g.out
        PROVE  /\ EdgesOf(g, n) \in Seq(DOMAIN g.out) /\ Len(EdgesOf(g, n)) \in Nat
               /\ DOMAIN EdgesOf(g, n) = 1 .. Len(EdgesOf(g, n)) /\ Len(g.out[n]) \in Nat
               /\ g.op[n] \in {"noop", "const", "sync", "async"}
    <2>1. /\ g.out[n] \in Seq(DOMAIN g.out) /\ g.control[n] \in Seq(DOMAIN g.out)
          /\ g.op[n] \in {"noop", "const", "sync", "async"}
      BY <1>1, <1>3
    <2>2. EdgesOf(g, n) \in Seq(DOMAIN g.out)
      BY <2>1, CatRange DEF EdgesOf
    <2> QED BY <2>1, <2>2
  <1> QED BY <1>1, <1>2, <1>3

LEMMA EdgeFacts ==
    ASSUME NEW g \in Graphs
    PROVE  /\ \A m \in DOMAIN g.out : \A i \in DOMAIN EdgesOf(g, m) : <<m, i>> \in EdgesAll(g)
           /\ \A e \in EdgesAll(g) : /\ e[1] \in DOMAIN g.out /\ e[2] \in DOMAIN EdgesOf(g, e[1])
                                     /\ e = <<e[1], e[2]>> /\ Target(g, e) \in DOMAIN g.out
           /\ IsFiniteSet(EdgesAll(g))
           /\ \A n : IsFiniteSet(InputsOf(g, n))
  <1>1. /\ \A m \in DOMAIN g.out : \A i \in DOMAIN EdgesOf(g, m) : <<m, i>> \in EdgesAll(g)
        /\ \A e \in EdgesAll(g) : /\ e[1] \in DOMAIN g.out /\ e[2] \in DOMAIN EdgesOf(g, e[1])
                                  /\ e = <<e[1], e[2]>>
    BY DEF EdgesAll
  <1>2. \A e \in EdgesAll(g) : Target(g, e) \in DOMAIN g.out
    BY <1>1, GraphFacts DEF Target
  <1>3. IsFiniteSet(EdgesAll(g))
    <2> DEFINE F(m) == {m} \X DOMAIN EdgesOf(g, m)
               all == {F(m) : m \in DOMAIN g.out}
    <2>1. \A m \in DOMAIN g.out : IsFiniteSet(F(m))
      <3> TAKE m \in DOMAIN g.out
      <3>1. IsFiniteSet(DOMAIN EdgesOf(g, m))
        BY GraphFacts, FS_Interval
      <3> QED BY <3>1, FS_Singleton, FS_Product
    <2>2. IsFiniteSet(all)
      <3>1. [m \in DOMAIN g.out |-> F(m)] \in Surjection(DOMAIN g.out, all)
        BY DEF Surjection
      <3> QED BY <3>1, GraphFacts, FS_Surjection
    <2>3. IsFiniteSet(UNION all)
      BY <2>1, <2>2, FS_UNION
    <2> QED BY <2>3 DEF EdgesAll
  <1>4. ASSUME NEW n PROVE IsFiniteSet(InputsOf(g, n))
    BY <1>3, FS_Subset DEF InputsOf
  <1> QED BY <1>1, <1>2, <1>3, <1>4

(* The target of an edge is among the outputs of its source.               *)
LEMMA TargetIn ==
    ASSUME NEW g \in Graphs, NEW e \in EdgesAll(g)
    PROVE  Target(g, e) \in Range(g.out[e[1]]) \cup Range(g.control[e[1]])
  <1>1. PICK m : m = e[1]
    OBVIOUS
  <1>2. m \in DOMAIN g.out /\ e[2] \in DOMAIN EdgesOf(g, m)
    BY <1>1, EdgeFacts
  <1>3. g.out[m] \in Seq(DOMAIN g.out) /\ g.control[m] \in Seq(DOMAIN g.out)
    BY <1>2, GraphsAssumption DEF IsGraph
  <1>4. Range(EdgesOf(g, m)) = Range(g.out[m]) \cup Range(g.control[m])
    BY <1>3, CatRange DEF EdgesOf
  <1>5. EdgesOf(g, m)[e[2]] \in Range(EdgesOf(g, m))
    BY <1>2 DEF Range
  <1> QED BY <1>1, <1>4, <1>5 DEF Target

(* The model's operators, in terms of g.                                   *)
LEMMA GraphIs ==
    ASSUME NEW g \in Graphs, graph = g
    PROVE  /\ GraphNodes = DOMAIN g.out
           /\ \A n : Edges(n) = EdgesOf(g, n) /\ EdgesInto(n) = InputsOf(g, n)
           /\ \A n : DataInto(n) = {e \in InputsOf(g, n) : DataEdge(g, e)}
  BY DEF GraphNodes, Edges, EdgesOf, EdgesInto, InputsOf, EdgesAll, Target, DataInto, IsData, DataEdge

(* Where PropagateOutputs goes on.                                         *)
EdgeStep(g, n, i) ==
    IF i > Len(EdgesOf(g, n)) THEN "node_done"
    ELSE IF DataEdge(g, <<n, i>>) THEN "write" ELSE "decrement"

LEMMA AtEdgeIs ==
    ASSUME NEW g \in Graphs, graph = g, NEW n \in DOMAIN g.out, NEW i \in Nat
    PROVE  AtEdge(n, i) = EdgeStep(g, n, i)
  <1>1. Edges(n) = EdgesOf(g, n) /\ Len(EdgesOf(g, n)) \in Nat /\ (IsData(<<n, i>>) <=> DataEdge(g, <<n, i>>))
    BY GraphIs, GraphFacts DEF IsData, DataEdge
  <1> QED BY <1>1 DEF AtEdge, EdgeStep

-----------------------------------------------------------------------------
(* The frames of the threads.                                              *)
LEMMA FrameFields ==
    ASSUME NEW f \in Frame
    PROVE  /\ f.pc \in {"idle", "loop", "kernel", "write", "decrement", "node_done", "schedule",
                        "abort", "cancel", "error"}
           /\ f.node \in Nodes /\ f.edge \in Nat /\ f.s \in Status
           /\ f.ready \in Seq(Nodes) /\ f.inline \in Seq(Nodes) /\ f.rest \in Seq(Nodes)
           /\ f.completed \in BOOLEAN
  BY DEF Frame

LEMMA IdleFrame ==
    ASSUME NEW n \in Nodes
    PROVE  /\ Idle \in Frame /\ Holds(Idle) = {} /\ Counts(Idle) = {} /\ Waiting(Idle) = {}
           /\ ~Busy(Idle) /\ Idle.pc = "idle" /\ Idle.s = "OK" /\ ~Idle.completed
           /\ Idle.ready = <<>> /\ Idle.inline = <<>> /\ Idle.rest = <<>>
           /\ \A g \in Graphs : \A c : FrameOK(g, c, Idle)
  <1>1. /\ Idle.pc = "idle" /\ Idle.s = "OK" /\ Idle.completed = FALSE /\ Idle.edge = 0
        /\ Idle.ready = <<>> /\ Idle.inline = <<>> /\ Idle.rest = <<>> /\ Idle.node \in Nodes
    BY DEF Idle
  <1>2. Idle \in Frame
    BY DEF Idle, Frame, Status
  <1>3. Holds(Idle) = {} /\ Counts(Idle) = {} /\ Waiting(Idle) = {} /\ ~Busy(Idle)
    BY <1>1, EmptyRange DEF Holds, Counts, Waiting, Busy, Current
  <1>4. ASSUME NEW g \in Graphs, NEW c PROVE FrameOK(g, c, Idle)
    BY <1>1, <1>3, EmptyRange DEF FrameOK
  <1> QED BY <1>1, <1>2, <1>3, <1>4

LEMMA HoldsIs ==
    ASSUME NEW f
    PROVE  /\ Counts(f) \subseteq Holds(f) /\ Waiting(f) \subseteq Counts(f)
           /\ Range(f.ready) \subseteq Holds(f) /\ Waiting(f) \subseteq Holds(f)
           /\ Busy(f) => f.node \in Counts(f) /\ f.node \in Holds(f)
           /\ Range(f.inline) \subseteq Waiting(f) /\ Range(f.rest) \subseteq Waiting(f)
  BY DEF Counts, Holds, Waiting, Current

(* A thread at the head of its loop takes a node n and goes on with pc p.  *)
LEMMA PopFrame ==
    ASSUME NEW g \in Graphs, NEW c \in Threads, NEW f \in Frame, FrameOK(g, c, f),
           f.pc = "loop", f.inline # <<>>
    PROVE  /\ Head(f.inline) \in DOMAIN g.out /\ Head(f.inline) \in Waiting(f)
           /\ c[1] = "process" /\ f.ready = <<>> /\ f.inline \in Seq(Nodes)
           /\ \A f2 \in Frame : f2.inline = Tail(f.inline) /\ f2.rest = f.rest /\ f2.ready = <<>> =>
                 /\ Waiting(f2) = Waiting(f) \ {Head(f.inline)}
                 /\ IsInjective(f2.inline) /\ Range(f2.inline) \cap Range(f2.rest) = {}
                 /\ Waiting(f2) \cap Range(f2.ready) = {}
                 /\ Range(f2.inline) = Range(f.inline) \ {Head(f.inline)}
  <1>1. f.inline \in Seq(Nodes) /\ f.rest \in Seq(Nodes) /\ IsInjective(f.inline)
    BY FrameFields DEF FrameOK
  <1>2. /\ Range(f.inline) = {Head(f.inline)} \cup Range(Tail(f.inline))
        /\ Head(f.inline) \notin Range(Tail(f.inline)) /\ IsInjective(Tail(f.inline))
    BY <1>1, PopRange
  <1>3. Head(f.inline) \in Waiting(f) /\ Head(f.inline) \notin Range(f.rest)
    BY <1>2 DEF Waiting, FrameOK
  <1>4. Head(f.inline) \in DOMAIN g.out /\ f.ready = <<>> /\ c[1] # "done"
    BY <1>3, HoldsIs DEF FrameOK
  <1>5. c[1] = "process"
    BY <1>4 DEF Threads
  <1>6. ASSUME NEW f2 \in Frame, f2.inline = Tail(f.inline), f2.rest = f.rest, f2.ready = <<>>
        PROVE  /\ Waiting(f2) = Waiting(f) \ {Head(f.inline)}
               /\ IsInjective(f2.inline) /\ Range(f2.inline) \cap Range(f2.rest) = {}
               /\ Waiting(f2) \cap Range(f2.ready) = {}
               /\ Range(f2.inline) = Range(f.inline) \ {Head(f.inline)}
    <2>1. Range(f2.ready) = {}
      BY <1>6, EmptyRange
    <2> QED BY <1>2, <1>3, <1>6, <2>1 DEF Waiting, FrameOK
  <1> QED BY <1>1, <1>3, <1>4, <1>5, <1>6

(* PropagateOutputs, ready to go on with edge i.                           *)
LEMMA AtEdgeFrame ==
    ASSUME NEW g \in Graphs, NEW n \in DOMAIN g.out, NEW i \in Nat \ {0}
    PROVE  /\ EdgeStep(g, n, i) \in {"write", "decrement", "node_done"}
           /\ EdgeStep(g, n, i) \in {"write", "decrement"} => i \in DOMAIN EdgesOf(g, n)
           /\ EdgeStep(g, n, i) = "write" => DataEdge(g, <<n, i>>)
           /\ EdgeStep(g, n, i) = "decrement" => ~DataEdge(g, <<n, i>>)
           /\ EdgeStep(g, n, i) = "node_done" => i > Len(EdgesOf(g, n))
  <1>1. Len(EdgesOf(g, n)) \in Nat /\ DOMAIN EdgesOf(g, n) = 1 .. Len(EdgesOf(g, n))
    BY GraphFacts
  <1> QED BY <1>1 DEF EdgeStep

(* The frame f after its kernel for n ended with s.                        *)
EndFrame(g, f, n, s) ==
    [[f EXCEPT !.inline = Tail(@)] EXCEPT
       !.pc = IF s = "OK" THEN EdgeStep(g, n, 1) ELSE "node_done",
       !.node = n, !.edge = 1, !.s = s]

LEMMA KernelFrame ==
    ASSUME NEW g \in Graphs, NEW c \in Threads, NEW f \in Frame, FrameOK(g, c, f),
           f.pc = "loop", f.inline # <<>>, NEW n, n = Head(f.inline), NEW s \in Status, NEW f2,
           f2 = EndFrame(g, f, n, s)
    PROVE  /\ f2 \in Frame /\ FrameOK(g, c, f2) /\ Busy(f2) /\ f2.node = n /\ f2.s = s /\ f2.edge = 1
           /\ s = "OK" => f2.pc = EdgeStep(g, n, 1)
           /\ s # "OK" => f2.pc = "node_done"
           /\ f2.ready = <<>> /\ f2.completed = f.completed
           /\ Waiting(f2) = Waiting(f) \ {n} /\ Range(f2.inline) = Range(f.inline) \ {n}
           /\ Holds(f2) = Holds(f) /\ Counts(f2) = Counts(f)
  <1>1. /\ n \in DOMAIN g.out /\ n \in Waiting(f) /\ c[1] = "process" /\ f.ready = <<>>
        /\ f.inline \in Seq(Nodes)
    BY PopFrame
  <1>2. /\ n \in Nodes /\ EdgeStep(g, n, 1) \in {"write", "decrement", "node_done"}
        /\ EdgeStep(g, n, 1) \in {"write", "decrement"} => 1 \in DOMAIN EdgesOf(g, n)
        /\ EdgeStep(g, n, 1) = "write" => DataEdge(g, <<n, 1>>)
    <2>1. 1 \in Nat \ {0}
      OBVIOUS
    <2> QED BY <1>1, <2>1, GraphFacts, AtEdgeFrame
  <1>3. Tail(f.inline) \in Seq(Nodes)
    BY <1>1
  <1>4. f2 \in Frame
    BY <1>2, <1>3 DEF Frame, EndFrame
  <1>5. /\ f2.pc = (IF s = "OK" THEN EdgeStep(g, n, 1) ELSE "node_done") /\ f2.node = n
        /\ f2.edge = 1 /\ f2.s = s /\ f2.inline = Tail(f.inline) /\ f2.rest = f.rest
        /\ f2.ready = <<>> /\ f2.completed = f.completed
    BY <1>1 DEF Frame, EndFrame
  <1>6. /\ Waiting(f2) = Waiting(f) \ {n} /\ IsInjective(f2.inline)
        /\ Range(f2.inline) \cap Range(f2.rest) = {} /\ Waiting(f2) \cap Range(f2.ready) = {}
        /\ Range(f2.inline) = Range(f.inline) \ {n}
    <2>1. \A x \in Frame : x.inline = Tail(f.inline) /\ x.rest = f.rest /\ x.ready = <<>> =>
             /\ Waiting(x) = Waiting(f) \ {n} /\ IsInjective(x.inline)
             /\ Range(x.inline) \cap Range(x.rest) = {} /\ Waiting(x) \cap Range(x.ready) = {}
             /\ Range(x.inline) = Range(f.inline) \ {n}
      BY PopFrame
    <2> QED BY <1>4, <1>5, <2>1
  <1>7. Busy(f2) /\ ~Busy(f)
    BY <1>2, <1>5 DEF Busy
  <1>8. Holds(f2) = Holds(f) /\ Counts(f2) = Counts(f)
    BY <1>1, <1>2, <1>5, <1>6, <1>7, EmptyRange DEF Holds, Counts, Current
  <1>9. FrameOK(g, c, f2)
    <2>1. Range(f2.ready) = {} /\ IsInjective(f2.ready) /\ IsInjective(f2.rest)
      BY <1>5, EmptyRange DEF FrameOK
    <2>2. f2.node \notin Waiting(f2) \cup Range(f2.ready) /\ Holds(f2) \subseteq DOMAIN g.out
      BY <1>5, <1>6, <1>8, <2>1 DEF FrameOK
    <2>3. f2.pc \in {"write", "decrement"} => f2.s = "OK" /\ f2.edge \in DOMAIN EdgesOf(g, f2.node)
      BY <1>2, <1>5
    <2>4. f2.pc = "write" => DataEdge(g, <<f2.node, f2.edge>>)
      BY <1>2, <1>5
    <2>5. f2.pc \in {"write", "decrement", "node_done"}
      BY <1>2, <1>5
    <2> QED BY <1>1, <1>5, <1>6, <2>1, <2>2, <2>3, <2>4, <2>5 DEF FrameOK
  <1> QED BY <1>4, <1>5, <1>6, <1>7, <1>8, <1>9

-----------------------------------------------------------------------------
(* A step replaces the frame of thread c by f2.                            *)
Replaces(c, f2) == c \in Threads /\ f2 \in Frame /\ thread' = [thread EXCEPT ![c] = f2]

LEMMA Replaced ==
    ASSUME thread \in [Threads -> Frame], NEW c, NEW f2, Replaces(c, f2)
    PROVE  /\ thread' \in [Threads -> Frame] /\ thread'[c] = f2 /\ c \in Threads
           /\ \A d \in Threads : d # c => thread'[d] = thread[d]
           /\ \A d \in Threads : thread'[d] = IF d = c THEN f2 ELSE thread[d]
  BY DEF Replaces

LEMMA FramesStay ==
    ASSUME thread \in [Threads -> Frame], NEW c, NEW f2, Replaces(c, f2),
           NEW g, FramesInv(g), FrameOK(g, c, f2)
    PROVE  FramesInv(g)'
  BY Replaced DEF FramesInv

LEMMA PlacesStay ==
    ASSUME thread \in [Threads -> Frame], NEW c, NEW f2, Replaces(c, f2), pool' = pool,
           NEW g, PlaceInv(g), \A n \in Holds(f2) : n \in Holds(thread[c]) \/ ~Held(n)
    PROVE  PlaceInv(g)'
  <1>1. \A d \in Threads : thread'[d] = IF d = c THEN f2 ELSE thread[d]
    BY Replaced
  <1>2. \A d \in Threads, n \in Nodes : n \in Holds(thread'[d]) =>
           n \in Holds(thread[d]) \/ (d = c /\ ~Held(n))
    BY <1>1
  <1>3. \A t \in pool : \A n \in Range(t) : Held(n)
    BY DEF Held
  <1>4. \A d \in Threads : \A n \in Holds(thread[d]) : Held(n)
    BY DEF Held
  <1> QED BY <1>2, <1>3, <1>4 DEF PlaceInv

LEMMA OutstandingIs ==
    /\ \A n : n \in OutstandingNodes <=> \/ \E t \in pool : n \in Range(t)
                                         \/ \E c \in Threads : n \in Counts(thread[c])
    /\ \A n : n \in OutstandingNodes' <=> \/ \E t \in pool' : n \in Range(t)
                                          \/ \E c \in Threads : n \in Counts(thread'[c])
  <1>1. \A n : n \in OutstandingNodes <=> \/ \E t \in pool : n \in Range(t)
                                          \/ \E c \in Threads : n \in Counts(thread[c])
    <2> TAKE n
    <2> DEFINE A == UNION {Range(t) : t \in pool}
               B == UNION {Range(thread[c].inline) \cup Range(thread[c].rest) : c \in Threads}
               C == {thread[c].node : c \in {d \in Threads : Active(d)}}
               E == UNION {Range(thread[c].ready) : c \in {d \in Threads : thread[d].pc = "schedule"}}
    <2>1. n \in A <=> \E t \in pool : n \in Range(t)
      OBVIOUS
    <2>2. n \in B <=> \E c \in Threads : n \in Waiting(thread[c])
      BY DEF Waiting
    <2>3. n \in C <=> \E c \in Threads : n \in Current(thread[c])
      BY DEF Current, Busy, Active
    <2>4. n \in E <=> \E c \in Threads : thread[c].pc = "schedule" /\ n \in Range(thread[c].ready)
      OBVIOUS
    <2>5. OutstandingNodes = A \cup B \cup C \cup E
      BY DEF OutstandingNodes, Queued
    <2>6. \A c \in Threads : n \in Counts(thread[c]) <=>
             \/ n \in Waiting(thread[c]) \/ n \in Current(thread[c])
             \/ thread[c].pc = "schedule" /\ n \in Range(thread[c].ready)
      BY DEF Counts
    <2> HIDE DEF A, B, C, E
    <2> QED BY <2>1, <2>2, <2>3, <2>4, <2>5, <2>6
  <1>2. \A n : n \in OutstandingNodes' <=> \/ \E t \in pool' : n \in Range(t)
                                          \/ \E c \in Threads : n \in Counts(thread'[c])
    <2> TAKE n
    <2> DEFINE A == UNION {Range(t) : t \in pool'}
               B == UNION {Range(thread'[c].inline) \cup Range(thread'[c].rest) : c \in Threads}
               C == {thread'[c].node : c \in {d \in Threads : Active(d)'}}
               E == UNION {Range(thread'[c].ready) : c \in {d \in Threads : thread'[d].pc = "schedule"}}
    <2>1. n \in A <=> \E t \in pool' : n \in Range(t)
      OBVIOUS
    <2>2. n \in B <=> \E c \in Threads : n \in Waiting(thread'[c])
      BY DEF Waiting
    <2>3. n \in C <=> \E c \in Threads : n \in Current(thread'[c])
      BY DEF Current, Busy, Active
    <2>4. n \in E <=> \E c \in Threads : thread'[c].pc = "schedule" /\ n \in Range(thread'[c].ready)
      OBVIOUS
    <2>5. OutstandingNodes' = A \cup B \cup C \cup E
      BY DEF OutstandingNodes, Queued
    <2>6. \A c \in Threads : n \in Counts(thread'[c]) <=>
             \/ n \in Waiting(thread'[c]) \/ n \in Current(thread'[c])
             \/ thread'[c].pc = "schedule" /\ n \in Range(thread'[c].ready)
      BY DEF Counts
    <2> HIDE DEF A, B, C, E
    <2> QED BY <2>1, <2>2, <2>3, <2>4, <2>5, <2>6
  <1> QED BY <1>1, <1>2

LEMMA OutstandingFinite ==
    ASSUME TypeOK, NEW g \in Graphs, FramesInv(g), PlaceInv(g)
    PROVE  OutstandingNodes \subseteq Nodes /\ IsFiniteSet(OutstandingNodes)
  <1>1. \A t \in pool : Range(t) \subseteq Nodes
    BY GraphFacts DEF PlaceInv
  <1>2. \A c \in Threads : Counts(thread[c]) \subseteq Nodes
    BY HoldsIs, GraphFacts DEF FramesInv, FrameOK
  <1>3. OutstandingNodes \subseteq Nodes
    BY <1>1, <1>2, OutstandingIs
  <1> QED BY <1>3, GraphsAssumption, FS_Subset

LEMMA OutstandingStay ==
    ASSUME thread \in [Threads -> Frame], NEW c, NEW f2, Replaces(c, f2), pool' = pool,
           NEW g \in Graphs, FramesInv(g), PlaceInv(g)
    PROVE  OutstandingNodes' = (OutstandingNodes \ Counts(thread[c])) \cup Counts(f2)
  <1>1. \A d \in Threads : thread'[d] = IF d = c THEN f2 ELSE thread[d]
    BY Replaced
  <1>2. c \in Threads
    BY DEF Replaces
  <1>3. \A d \in Threads, n \in Counts(thread[c]) : d # c => n \notin Counts(thread[d])
    BY <1>2, HoldsIs, GraphFacts DEF PlaceInv, FramesInv, FrameOK
  <1>4. \A t \in pool, n \in Counts(thread[c]) : n \notin Range(t)
    BY <1>2, HoldsIs, GraphFacts DEF PlaceInv, FramesInv, FrameOK
  <1>5. ASSUME NEW n \in OutstandingNodes' PROVE n \in (OutstandingNodes \ Counts(thread[c])) \cup Counts(f2)
    <2>1. CASE \E t \in pool : n \in Range(t)
      BY <1>4, <2>1, OutstandingIs
    <2>2. CASE \E d \in Threads : n \in Counts(thread'[d])
      BY <1>1, <1>3, <2>2, OutstandingIs
    <2> QED BY <1>5, <2>1, <2>2, OutstandingIs
  <1>6. ASSUME NEW n \in (OutstandingNodes \ Counts(thread[c])) \cup Counts(f2) PROVE n \in OutstandingNodes'
    <2>1. CASE n \in Counts(f2)
      BY <1>1, <1>2, <2>1, OutstandingIs
    <2>2. CASE n \in OutstandingNodes /\ n \notin Counts(thread[c])
      BY <1>1, <2>2, OutstandingIs
    <2> QED BY <1>6, <2>1, <2>2
  <1> QED BY <1>5, <1>6

(* The count of a step that keeps the nodes of its thread.                 *)
LEMMA CountStays ==
    ASSUME thread \in [Threads -> Frame], NEW c, NEW f2, Replaces(c, f2), pool' = pool,
           NEW g \in Graphs, FramesInv(g), PlaceInv(g), Accounting,
           Counts(f2) = Counts(thread[c]), num_outstanding_ops' = num_outstanding_ops
    PROVE  Accounting'
  <1>1. Counts(thread[c]) \subseteq OutstandingNodes
    BY OutstandingIs DEF Replaces
  <1>2. OutstandingNodes' = OutstandingNodes
    BY <1>1, OutstandingStay
  <1> QED BY <1>2 DEF Accounting

(* While a node is counted the step has not ended.                         *)
LEMMA StillRuns ==
    ASSUME NEW g \in Graphs, NEW D, ExecInv(g, D), NEW n \in OutstandingNodes
    PROVE  /\ num_outstanding_ops \in Nat \ {0} /\ Runs /\ ~deleted /\ started
           /\ finish_calls = 0 /\ finish.pc = "none" /\ ~finish_when_deferred_ops_done
           /\ \A c \in Threads : ~thread[c].completed
  <1>1. num_outstanding_ops = Cardinality(OutstandingNodes) /\ IsFiniteSet(OutstandingNodes)
    BY OutstandingFinite DEF ExecInv, Accounting
  <1>2. num_outstanding_ops # 0
    BY <1>1, FS_EmptySet
  <1>3. num_outstanding_ops \in Nat
    BY DEF ExecInv, TypeOK
  <1> QED BY <1>2, <1>3 DEF ExecInv, FinishInv, Runs

(* Nodes that a thread has are of the graph and nowhere else.              *)
LEMMA HeldOnce ==
    ASSUME NEW g \in Graphs, NEW D, ExecInv(g, D), NEW c \in Threads, NEW n \in Holds(thread[c])
    PROVE  /\ n \in DOMAIN g.out /\ n \in Nodes
           /\ \A d \in Threads : d # c => n \notin Holds(thread[d])
           /\ \A t \in pool : n \notin Range(t)
  <1>1. n \in DOMAIN g.out /\ n \in Nodes
    BY GraphFacts DEF ExecInv, FramesInv, FrameOK
  <1> QED BY <1>1 DEF ExecInv, PlaceInv

(* What is ready has not been processed, and has all its inputs.           *)
LEMMA ReadyNodes ==
    ASSUME NEW g \in Graphs, NEW D, ExecInv(g, D), NEW c \in Threads,
           NEW n \in Waiting(thread[c]) \cup Range(thread[c].ready)
    PROVE  n \in Holds(thread[c]) /\ n \in DOMAIN g.out /\ n \in Nodes /\ ReadyNode(g, D, n)
  <1>1. n \in Holds(thread[c])
    BY HoldsIs
  <1>2. ReadyNode(g, D, n)
    BY DEF ExecInv, NodeInv
  <1> QED BY <1>1, <1>2, HeldOnce

(* Work that the kernel of n defers is counted.                            *)
LEMMA Deferring ==
    ASSUME deferred \subseteq Nodes, num_deferred_ops = Cardinality(deferred),
           \A m \in deferred : processed[m] = 1, NEW n \in Nodes, processed[n] = 0, MayDefer(n),
           processed'[n] = 1, \A m \in Nodes : m # n => processed'[m] = processed[m]
    PROVE  num_deferred_ops' = Cardinality(deferred') /\ \A m \in deferred' : processed'[m] = 1
  <1>1. IsFiniteSet(deferred)
    BY GraphsAssumption, FS_Subset
  <1>2. n \notin deferred
    OBVIOUS
  <1>3. Cardinality(deferred \cup {n}) = Cardinality(deferred) + 1
    BY <1>1, <1>2, FS_AddElement
  <1>4. CASE UNCHANGED counters
    BY <1>2, <1>4 DEF counters
  <1>5. CASE ~UNCHANGED counters
    BY <1>2, <1>3, <1>5 DEF MayDefer
  <1> QED BY <1>4, <1>5

(* A thread takes node n from inline_ready, processes it, and its kernel   *)
(* ends with s: ProcessTrivial, PrepareInputsFails and ProcessSync.        *)
LEMMA KernelEnds ==
    ASSUME NEW g \in Graphs, NEW D, ExecInv(g, D), NEW c \in Threads,
           thread[c].pc = "loop", thread[c].inline # <<>>, NEW n, n = Next1(c),
           NEW s \in Status \ {"DERIVED"},
           thread' = [thread EXCEPT ![c] = AfterKernel(Popped(c), n, s)],
           Processes(n, TRUE), MayDefer(n),
           failed' = failed \/ failed' = failed \cup {n}, s = "OK" => failed' = failed,
           s # "OK" => n \in failed' \/ (status # "OK" /\ failed # {}),
           UNCHANGED <<step, pending, num_outstanding_ops, status, pool, ending, environment>>
    PROVE  ExecInv(g, D)'
  <1>1. PICK f : f = thread[c]
    OBVIOUS
  <1>2. f \in Frame /\ FrameOK(g, c, f) /\ f.pc = "loop" /\ f.inline # <<>> /\ n = Head(f.inline)
    BY <1>1 DEF ExecInv, TypeOK, FramesInv, Next1
  <1>3. /\ n \in DOMAIN g.out /\ n \in Waiting(f) /\ n \in Nodes /\ c[1] = "process" /\ n \in Holds(f)
        /\ n \in Counts(f) /\ ~Busy(f) /\ f.ready = <<>>
    BY <1>2, PopFrame, GraphFacts, HoldsIs DEF Busy
  <1>4. PICK f2 : f2 = EndFrame(g, f, n, s)
    OBVIOUS
  <1>5. graph = g /\ g \in Graphs /\ thread \in [Threads -> Frame]
    BY DEF ExecInv, NodeInv, TypeOK
  <1>6. AfterKernel(Popped(c), n, s) = f2
    <2>1. AtEdge(n, 1) = EdgeStep(g, n, 1)
      BY <1>3, <1>5, AtEdgeIs
    <2> QED BY <1>1, <1>4, <2>1 DEF AfterKernel, Popped, EndFrame
  <1>7. /\ f2 \in Frame /\ FrameOK(g, c, f2) /\ Busy(f2) /\ f2.node = n /\ f2.s = s /\ f2.edge = 1
        /\ s = "OK" => f2.pc = EdgeStep(g, n, 1)
        /\ s # "OK" => f2.pc = "node_done"
        /\ f2.ready = <<>> /\ f2.completed = f.completed
        /\ Waiting(f2) = Waiting(f) \ {n} /\ Range(f2.inline) = Range(f.inline) \ {n}
        /\ Holds(f2) = Holds(f) /\ Counts(f2) = Counts(f)
    <2>1. s \in Status
      OBVIOUS
    <2>2. f2 \in Frame /\ FrameOK(g, c, f2) /\ Busy(f2)
      BY <1>2, <1>4, <2>1, KernelFrame
    <2>3. /\ f2.node = n /\ f2.s = s /\ f2.edge = 1 /\ f2.ready = <<>>
          /\ f2.completed = f.completed
      BY <1>2, <1>4, <2>1, KernelFrame
    <2>4. (s = "OK" => f2.pc = EdgeStep(g, n, 1)) /\ (s # "OK" => f2.pc = "node_done")
      BY <1>2, <1>4, <2>1, KernelFrame
    <2>5. Waiting(f2) = Waiting(f) \ {n} /\ Range(f2.inline) = Range(f.inline) \ {n}
      BY <1>2, <1>4, <2>1, KernelFrame
    <2>6. Holds(f2) = Holds(f) /\ Counts(f2) = Counts(f)
      BY <1>2, <1>4, <2>1, KernelFrame
    <2> QED BY <2>2, <2>3, <2>4, <2>5, <2>6
  <1>8. Replaces(c, f2)
    BY <1>6, <1>7 DEF Replaces
  <1>9. /\ thread' \in [Threads -> Frame] /\ thread'[c] = f2
        /\ \A d \in Threads : d # c => thread'[d] = thread[d]
    BY <1>5, <1>8, Replaced
  <1>10. ReadyNode(g, D, n) /\ D \subseteq EdgesAll(g)
    BY <1>1, <1>3 DEF ExecInv, NodeInv
  <1>11. /\ \A d \in Threads : d # c => n \notin Holds(thread[d])
         /\ \A t \in pool : n \notin Range(t)
    BY <1>1, <1>3, HeldOnce
  <1>12. n \in OutstandingNodes
    BY <1>1, <1>3, OutstandingIs
  <1>13. /\ num_outstanding_ops \in Nat \ {0} /\ Runs /\ ~deleted /\ started
         /\ finish_calls = 0 /\ finish.pc = "none" /\ ~finish_when_deferred_ops_done
         /\ \A d \in Threads : ~thread[d].completed
    BY <1>12, StillRuns
  <1>14. /\ processed' = [processed EXCEPT ![n] = processed[n] + 1] /\ processed[n] = 0
         /\ full' = full \ {e \in InputsOf(g, n) : DataEdge(g, e)}
    <2>1. DataInto(n) = {e \in InputsOf(g, n) : DataEdge(g, e)}
      BY <1>5, GraphIs
    <2> QED BY <1>10, <2>1 DEF Processes, ReadyNode
  <1>15. processed \in [Nodes -> Nat] /\ full \subseteq Nodes \X Nat
    BY DEF ExecInv, TypeOK
  <1>16. processed' \in [Nodes -> Nat] /\ processed'[n] = 1 /\ \A m \in Nodes : m # n => processed'[m] = processed[m]
    <2>1. processed[n] + 1 = 1 /\ 1 \in Nat
      BY <1>14
    <2> QED BY <1>3, <1>14, <1>15, <2>1
  <1>17. /\ EdgeStep(g, n, 1) \in {"write", "decrement", "node_done"}
         /\ EdgeStep(g, n, 1) = "decrement" => ~DataEdge(g, <<n, 1>>)
         /\ EdgeStep(g, n, 1) = "node_done" => 1 > Len(EdgesOf(g, n))
    <2>1. 1 \in Nat \ {0}
      OBVIOUS
    <2> QED BY <1>3, <2>1, AtEdgeFrame
  <1>20. TypeOK'
    <2>1. num_deferred_ops' \in Nat /\ finish_when_deferred_ops_done' \in BOOLEAN /\ deferred' \subseteq Nodes
      BY <1>3 DEF MayDefer, counters, ExecInv, TypeOK
    <2>2. full' \subseteq Nodes \X Nat /\ failed' \subseteq Nodes
      BY <1>3, <1>14, <1>15 DEF ExecInv, TypeOK
    <2> QED BY <1>9, <1>16, <2>1, <2>2 DEF ExecInv, TypeOK, step, ending, environment
  <1>21. FramesInv(g)'
    BY <1>5, <1>7, <1>8, FramesStay DEF ExecInv
  <1>22. PlaceInv(g)'
    BY <1>1, <1>5, <1>7, <1>8, PlacesStay DEF ExecInv
  <1>23. Accounting'
    BY <1>1, <1>5, <1>7, <1>8, CountStays DEF ExecInv
  <1>24. NodeInv(g, D)'
    <2>1. \A m : Held(m) => Held(m)'
      BY <1>1, <1>7, <1>9 DEF Held
    <2>2. \A m \in DOMAIN g.out : m \in Nodes
      BY GraphFacts
    <2>3. \A m \in DOMAIN g.out : m # n => ReadyNode(g, D, m)' = ReadyNode(g, D, m)
      BY <1>16, <2>2 DEF ReadyNode
    <2>4. ASSUME NEW m \in DOMAIN g.out
          PROVE  /\ pending'[m] = Cardinality(InputsOf(g, m) \ D)
                 /\ processed'[m] \in {0, 1}
                 /\ processed'[m] = 1 => InputsOf(g, m) \subseteq D
                 /\ Runs' /\ ReadyNode(g, D, m)' => Held(m)'
      BY <1>10, <1>13, <1>16, <2>1, <2>2, <2>3 DEF ExecInv, NodeInv, ReadyNode
    <2>5. \A t \in pool' : \A m \in Range(t) : ReadyNode(g, D, m)'
      BY <1>11, <2>3 DEF ExecInv, NodeInv, PlaceInv
    <2>6. \A d \in Threads : \A m \in Waiting(thread[d]) \cup Range(thread[d].ready) :
             m \in DOMAIN g.out /\ (d # c => m # n) /\ ReadyNode(g, D, m)
      BY <1>11, ReadyNodes
    <2>7. ASSUME NEW d \in Threads
          PROVE  /\ \A m \in Waiting(thread'[d]) \cup Range(thread'[d].ready) : ReadyNode(g, D, m)'
                 /\ Busy(thread'[d]) => processed'[thread'[d].node] = 1
      <3>1. CASE d = c
        BY <1>1, <1>7, <1>9, <1>16, <2>3, <2>6, <3>1, EmptyRange
      <3>2. CASE d # c
        <4>1. Busy(thread[d]) => thread[d].node # n /\ thread[d].node \in Nodes
          BY <1>11, <3>2, HoldsIs, HeldOnce
        <4> QED BY <1>9, <1>16, <2>3, <2>6, <3>2, <4>1 DEF ExecInv, NodeInv
      <3> QED BY <3>1, <3>2
    <2>8. ASSUME NEW m \in Nodes
          PROVE  /\ thread'[<<"process", m>>].pc # "idle" =>
                       processed'[m] = 1 \/ m \in Range(thread'[<<"process", m>>].inline)
                 /\ thread'[<<"done", m>>].pc # "idle" => processed'[m] = 1
      <3>1. <<"process", m>> \in Threads /\ <<"done", m>> \in Threads
        BY DEF Threads
      <3>2. <<"done", m>> # c
        BY <1>3
      <3>3. processed[m] = 1 => processed'[m] = 1
        BY <1>14, <1>16
      <3>4. thread[<<"process", m>>].pc # "idle" =>
               processed[m] = 1 \/ m \in Range(thread[<<"process", m>>].inline)
        BY DEF ExecInv, NodeInv
      <3>5. CASE c = <<"process", m>>
        BY <1>1, <1>2, <1>7, <1>9, <1>16, <3>3, <3>4, <3>5, <3>2, <3>1 DEF ExecInv, NodeInv
      <3>6. CASE c # <<"process", m>>
        BY <1>9, <3>1, <3>2, <3>3, <3>4, <3>6 DEF ExecInv, NodeInv
      <3> QED BY <3>5, <3>6
    <2> QED BY <1>5, <1>10, <2>4, <2>5, <2>7, <2>8 DEF NodeInv, step
  <1>25. EdgeInv(g, D)'
    <2>1. \A e \in D : e[1] # n /\ e[1] \in Nodes
      BY <1>10, <1>14, EdgeFacts, GraphFacts DEF ExecInv, EdgeInv
    <2>2. \A e \in D : processed'[e[1]] = 1 /\ e[1] \notin failed'
      BY <1>16, <2>1 DEF ExecInv, EdgeInv
    <2>3. \A e : e \in full /\ e \notin InputsOf(g, n) => e \in full'
      BY <1>14
    <2>4. ASSUME NEW d \in Threads, NEW x, x = thread'[d]
          PROVE  /\ x.pc \in {"kernel", "write", "decrement"} => x.node \notin failed'
                 /\ x.pc = "kernel" =>
                       /\ \A e \in D : e[1] # x.node
                       /\ \A e \in InputsOf(g, x.node) : DataEdge(g, e) => e \in full'
                 /\ x.pc \in {"write", "decrement"} =>
                       \A i \in DOMAIN EdgesOf(g, x.node) : <<x.node, i>> \in D <=> i < x.edge
                 /\ x.pc = "decrement" /\ DataEdge(g, <<x.node, x.edge>>) => <<x.node, x.edge>> \in full'
                 /\ x.pc = "node_done" /\ x.s = "OK" =>
                       \A i \in DOMAIN EdgesOf(g, x.node) : <<x.node, i>> \in D
      <3>1. CASE d = c
        <4>1. x = f2
          BY <1>9, <2>4, <3>1
        <4>2. \A i : <<n, i>> \notin D
          BY <2>1
        <4>3. \A i \in DOMAIN EdgesOf(g, n) : i >= 1 /\ i <= Len(EdgesOf(g, n)) /\ i \in Nat
          BY <1>3, GraphFacts
        <4>4. x.pc = "node_done" /\ x.s = "OK" => DOMAIN EdgesOf(g, n) = {}
          BY <1>3, <1>7, <1>17, <4>1, GraphFacts
        <4>5. x.pc \in {"kernel", "write", "decrement"} => x.node \notin failed'
          BY <1>7, <1>14, <4>1 DEF ExecInv, EdgeInv
        <4> QED BY <1>7, <1>17, <4>1, <4>2, <4>3, <4>4, <4>5
      <3>2. CASE d # c
        <4>1. x = thread[d]
          BY <1>9, <2>4, <3>2
        <4>2. Busy(x) => x.node # n
          BY <1>11, <3>2, <4>1, HoldsIs
        <4>3. x.pc = "kernel" => \A e \in InputsOf(g, x.node) : e \notin InputsOf(g, n)
          BY <4>2 DEF Busy, InputsOf
        <4>4. ASSUME x.pc = "decrement" PROVE <<x.node, x.edge>> \notin InputsOf(g, n)
          <5>1. x.edge \in DOMAIN EdgesOf(g, x.node) /\ x.edge \in Nat
            BY <4>1, <4>4, FrameFields DEF ExecInv, FramesInv, FrameOK, TypeOK
          <5>2. <<x.node, x.edge>> \notin D
            BY <4>1, <4>4, <5>1 DEF ExecInv, EdgeInv
          <5> QED BY <1>10, <5>2 DEF ReadyNode
        <4>5. x.pc \in {"kernel", "write", "decrement"} => x.node \notin failed'
          BY <4>1, <4>2 DEF ExecInv, EdgeInv, Busy
        <4> QED BY <2>3, <4>1, <4>3, <4>4, <4>5 DEF ExecInv, EdgeInv
      <3> QED BY <3>1, <3>2
    <2>5. ASSUME NEW m \in DOMAIN g.out, processed'[m] = 1
          PROVE  \/ status' # "OK"
                 \/ \E d \in Threads : Busy(thread'[d]) /\ thread'[d].node = m
                 \/ \A i \in DOMAIN EdgesOf(g, m) : <<m, i>> \in D
      <3>1. CASE m = n
        BY <1>7, <1>9, <3>1
      <3>2. CASE m # n
        <4>1. processed[m] = 1
          BY <1>16, <2>5, <3>2, GraphFacts
        <4>2. \A d \in Threads : Busy(thread[d]) => d # c
          BY <1>1, <1>3
        <4> QED BY <1>9, <4>1, <4>2 DEF ExecInv, EdgeInv
      <3> QED BY <3>1, <3>2
    <2>6. ASSUME NEW e \in D, DataEdge(g, e), processed'[Target(g, e)] = 0 PROVE e \in full'
      <3>1. Target(g, e) \in Nodes /\ e \in EdgesAll(g)
        BY <1>10, EdgeFacts, GraphFacts
      <3>2. Target(g, e) # n /\ processed[Target(g, e)] = 0
        BY <1>16, <2>6, <3>1
      <3>3. e \in full /\ e \notin InputsOf(g, n)
        BY <2>6, <3>2 DEF ExecInv, EdgeInv, InputsOf
      <3> QED BY <2>3, <3>3
    <2>7. \A m \in failed' : processed'[m] = 1
      BY <1>3, <1>16 DEF ExecInv, EdgeInv, TypeOK
    <2> QED BY <2>2, <2>4, <2>5, <2>6, <2>7 DEF EdgeInv
  <1>26. StatusInv'
    <2>1. \A d \in Threads : d # c => thread'[d] = thread[d]
      BY <1>9
    <2>2. f2.pc \notin {"abort", "cancel", "error"}
      BY <1>7, <1>17
    <2> QED BY <1>1, <1>3, <1>7, <1>9, <2>2 DEF ExecInv, StatusInv, environment, ending
  <1>27. FinishInv'
    <2>1. num_deferred_ops' = Cardinality(deferred') /\ \A m \in deferred' : processed'[m] = 1
      BY <1>3, <1>14, <1>16, Deferring DEF ExecInv, TypeOK, FinishInv
    <2> QED BY <1>1, <1>7, <1>9, <1>13, <2>1 DEF ExecInv, FinishInv, ending, step, Runs, MayDefer, counters
  <1>28. ReportInv'
    BY DEF ExecInv, ReportInv, Runs, GraphNodes, step, ending, environment
  <1> QED BY <1>20, <1>21, <1>22, <1>23, <1>24, <1>25, <1>26, <1>27, <1>28 DEF ExecInv

LEMMA TrivialKeeps ==
    ASSUME NEW g \in Graphs, NEW D, ExecInv(g, D), NEW c \in Threads, ProcessTrivial(c)
    PROVE  ExecInv(g, D)'
  <1>1. thread[c].pc = "loop" /\ thread[c].inline # <<>>
    BY DEF ProcessTrivial, Looping
  <1>2. thread[c].s \in Status \ {"DERIVED"} /\ (thread[c].s # "OK" => status # "OK" /\ failed # {})
    BY <1>1, FrameFields DEF ExecInv, StatusInv, TypeOK, Busy
  <1> QED BY <1>1, <1>2, KernelEnds DEF ProcessTrivial, MayDefer

LEMMA PrepareKeeps ==
    ASSUME NEW g \in Graphs, NEW D, ExecInv(g, D), NEW c \in Threads, PrepareInputsFails(c)
    PROVE  ExecInv(g, D)'
  <1>1. thread[c].pc = "loop" /\ thread[c].inline # <<>> /\ "ERROR" \in Status \ {"DERIVED"}
    BY DEF PrepareInputsFails, Looping, Status
  <1> QED BY <1>1, KernelEnds DEF PrepareInputsFails, MayDefer, Fails

LEMMA SyncKeeps ==
    ASSUME NEW g \in Graphs, NEW D, ExecInv(g, D), NEW c \in Threads, ProcessSync(c)
    PROVE  ExecInv(g, D)'
  <1>1. thread[c].pc = "loop" /\ thread[c].inline # <<>>
    BY DEF ProcessSync, Looping
  <1>2. PICK s \in Outcome :
           /\ thread' = [thread EXCEPT ![c] = AfterKernel(Popped(c), Next1(c), s)]
           /\ failed' = IF s = "OK" THEN failed ELSE failed \cup {Next1(c)}
    BY DEF ProcessSync, Fails
  <1>3. s \in Status \ {"DERIVED"}
    BY DEF Outcome, Status
  <1> QED BY <1>1, <1>2, <1>3, KernelEnds DEF ProcessSync

-----------------------------------------------------------------------------
(* Steps of a thread that is busy and keeps its lists: f becomes f2.       *)
Quiet(f, f2) ==
    /\ Busy(f) /\ f2.pc \in {"decrement", "loop", "schedule", "abort", "cancel", "error"}
    /\ f2.inline = f.inline /\ f2.rest = f.rest /\ f2.ready = f.ready
    /\ f2.node = f.node /\ f2.edge = f.edge /\ f2.s = f.s

LEMMA QuietLists ==
    ASSUME NEW f, NEW f2, Quiet(f, f2)
    PROVE  /\ Waiting(f2) = Waiting(f) /\ Holds(f2) \subseteq Holds(f) /\ f.node \in Holds(f)
           /\ Holds(f) \subseteq Holds(f2) \cup {f.node}
           /\ Busy(f2) <=> f2.pc \in {"decrement", "abort", "cancel", "error"}
           /\ f2.pc \in {"decrement", "abort", "cancel", "error"} => Counts(f2) = Counts(f)
           /\ f2.pc = "loop" => Counts(f2) = Waiting(f)
           /\ f2.pc = "schedule" => Counts(f2) = Waiting(f) \cup Range(f.ready)
           /\ Counts(f) = Waiting(f) \cup {f.node}
  BY DEF Quiet, Waiting, Holds, Counts, Current, Busy

LEMMA QuietFrame ==
    ASSUME NEW g \in Graphs, NEW c \in Threads, NEW f \in Frame, FrameOK(g, c, f),
           NEW f2 \in Frame, Quiet(f, f2),
           f2.pc \in {"loop", "abort", "cancel", "error"} => f.ready = <<>>,
           f2.pc = "schedule" => f.ready # <<>>,
           f2.pc = "decrement" => f.pc = "write"
    PROVE  FrameOK(g, c, f2)
  <1>1. Waiting(f2) = Waiting(f) /\ Holds(f2) \subseteq Holds(f)
    BY QuietLists
  <1>2. f2.pc # "idle" /\ f2.pc # "kernel" /\ f2.pc # "write"
    BY DEF Quiet
  <1>3. /\ IsInjective(f2.inline) /\ IsInjective(f2.rest) /\ IsInjective(f2.ready)
        /\ Range(f2.inline) \cap Range(f2.rest) = {} /\ Waiting(f2) \cap Range(f2.ready) = {}
        /\ f2.node \notin Waiting(f2) \cup Range(f2.ready) /\ Holds(f2) \subseteq DOMAIN g.out
    BY <1>1 DEF Quiet, FrameOK
  <1>4. /\ f2.ready # <<>> => f2.pc \in {"write", "decrement", "node_done", "schedule"} /\ f2.s = "OK"
        /\ f2.pc = "schedule" => f2.ready # <<>>
        /\ f2.pc = "decrement" => f2.s = "OK" /\ f2.edge \in DOMAIN EdgesOf(g, f2.node)
    BY DEF Quiet, FrameOK
  <1>5. c[1] = "done" => f2.inline = <<>> /\ f2.rest = <<>> /\ f2.node = c[2]
    BY DEF Quiet, FrameOK
  <1> QED BY <1>2, <1>3, <1>4, <1>5 DEF FrameOK

(* Such a step leaves the nodes where they are, except f.node perhaps,      *)
(* which has been processed.                                                *)
LEMMA QuietPlaces ==
    ASSUME NEW g \in Graphs, NEW D, ExecInv(g, D), NEW c \in Threads, NEW f, f = thread[c],
           NEW f2, Replaces(c, f2), Quiet(f, f2),
           UNCHANGED <<graph, pending, processed, pool, started, deleted, finish_calls>>
    PROVE  PlaceInv(g)' /\ NodeInv(g, D)'
  <1>1. /\ Waiting(f2) = Waiting(f) /\ Holds(f2) \subseteq Holds(f) /\ f.node \in Holds(f)
        /\ Holds(f) \subseteq Holds(f2) \cup {f.node} /\ f2.pc # "idle"
        /\ f2.node = f.node /\ Busy(f) /\ f2.ready = f.ready /\ f2.inline = f.inline
    BY QuietLists DEF Quiet
  <1>2. /\ thread' \in [Threads -> Frame] /\ thread'[c] = f2
        /\ \A d \in Threads : d # c => thread'[d] = thread[d]
    BY Replaced DEF ExecInv, TypeOK
  <1>3. PlaceInv(g)'
    <2>1. thread \in [Threads -> Frame] /\ \A n \in Holds(f2) : n \in Holds(thread[c])
      BY <1>1 DEF ExecInv, TypeOK
    <2> QED BY <2>1, PlacesStay DEF ExecInv
  <1>4. processed[f.node] = 1 /\ f.pc # "idle"
    BY <1>1 DEF ExecInv, NodeInv, Busy
  <1>5. \A n : Held(n) => Held(n)' \/ n = f.node
    <2> SUFFICES ASSUME NEW n, Held(n), n # f.node PROVE Held(n)'
      OBVIOUS
    <2>1. CASE \E t \in pool : n \in Range(t)
      BY <2>1 DEF Held
    <2>2. CASE \E d \in Threads : n \in Holds(thread[d])
      BY <1>1, <1>2, <2>2 DEF Held
    <2> QED BY <2>1, <2>2 DEF Held
  <1>6. \A n : ReadyNode(g, D, n)' <=> ReadyNode(g, D, n)
    BY DEF ReadyNode
  <1>7. ASSUME NEW n \in DOMAIN g.out
        PROVE  /\ pending'[n] = Cardinality(InputsOf(g, n) \ D)
               /\ processed'[n] \in {0, 1}
               /\ processed'[n] = 1 => InputsOf(g, n) \subseteq D
               /\ Runs' /\ ReadyNode(g, D, n)' => Held(n)'
    <2>1. Runs' => Runs
      BY DEF Runs
    <2>2. Runs /\ ReadyNode(g, D, n) => Held(n) /\ n # f.node
      <3>1. Runs /\ ReadyNode(g, D, n) => Held(n)
        BY DEF ExecInv, NodeInv
      <3>2. ReadyNode(g, D, n) => n # f.node
        BY <1>4 DEF ReadyNode
      <3> QED BY <3>1, <3>2
    <2>3. Runs' /\ ReadyNode(g, D, n)' => Held(n)'
      BY <1>5, <1>6, <2>1, <2>2
    <2> QED BY <2>3 DEF ExecInv, NodeInv
  <1>8. ASSUME NEW d \in Threads
        PROVE  /\ \A n \in Waiting(thread'[d]) \cup Range(thread'[d].ready) : ReadyNode(g, D, n)'
               /\ Busy(thread'[d]) => processed'[thread'[d].node] = 1
    BY <1>1, <1>2, <1>4, <1>6 DEF ExecInv, NodeInv
  <1>9. ASSUME NEW n \in Nodes
        PROVE  /\ thread'[<<"process", n>>].pc # "idle" =>
                     processed'[n] = 1 \/ n \in Range(thread'[<<"process", n>>].inline)
               /\ thread'[<<"done", n>>].pc # "idle" => processed'[n] = 1
    <2>1. <<"process", n>> \in Threads /\ <<"done", n>> \in Threads
      BY DEF Threads
    <2> QED BY <1>1, <1>2, <1>4, <2>1 DEF ExecInv, NodeInv
  <1>10. NodeInv(g, D)'
    BY <1>6, <1>7, <1>8, <1>9 DEF ExecInv, NodeInv
  <1> QED BY <1>3, <1>10

(* Nor does it disturb the edges.                                          *)
LEMMA QuietEdges ==
    ASSUME NEW g \in Graphs, NEW D, ExecInv(g, D), NEW c \in Threads, NEW f, f = thread[c],
           NEW f2, Replaces(c, f2), Quiet(f, f2), full \subseteq full', failed' = failed,
           processed' = processed, status # "OK" => status' # "OK",
           f2.pc = "decrement" => f.pc = "write" /\ <<f.node, f.edge>> \in full',
           f2.pc \in {"loop", "schedule"} =>
              status' # "OK" \/ \A i \in DOMAIN EdgesOf(g, f.node) : <<f.node, i>> \in D
    PROVE  EdgeInv(g, D)'
  <1>1. /\ f2.node = f.node /\ f2.edge = f.edge /\ Busy(f)
        /\ Busy(f2) <=> f2.pc \in {"decrement", "abort", "cancel", "error"}
        /\ f2.pc \in {"decrement", "loop", "schedule", "abort", "cancel", "error"}
    BY QuietLists DEF Quiet
  <1>2. /\ thread' \in [Threads -> Frame] /\ thread'[c] = f2
        /\ \A d \in Threads : d # c => thread'[d] = thread[d]
    BY Replaced DEF ExecInv, TypeOK
  <1>3. \A e \in D : processed'[e[1]] = 1 /\ e[1] \notin failed'
    BY DEF ExecInv, EdgeInv
  <1>4. ASSUME NEW d \in Threads, NEW x, x = thread'[d]
        PROVE  /\ x.pc \in {"kernel", "write", "decrement"} => x.node \notin failed'
               /\ x.pc = "kernel" =>
                     /\ \A e \in D : e[1] # x.node
                     /\ \A e \in InputsOf(g, x.node) : DataEdge(g, e) => e \in full'
               /\ x.pc \in {"write", "decrement"} =>
                     \A i \in DOMAIN EdgesOf(g, x.node) : <<x.node, i>> \in D <=> i < x.edge
               /\ x.pc = "decrement" /\ DataEdge(g, <<x.node, x.edge>>) => <<x.node, x.edge>> \in full'
               /\ x.pc = "node_done" /\ x.s = "OK" =>
                     \A i \in DOMAIN EdgesOf(g, x.node) : <<x.node, i>> \in D
    <2>1. CASE d = c
      BY <1>1, <1>2, <1>4, <2>1 DEF ExecInv, EdgeInv
    <2>2. CASE d # c
      BY <1>2, <1>4, <2>2 DEF ExecInv, EdgeInv
    <2> QED BY <2>1, <2>2
  <1>5. ASSUME NEW m \in DOMAIN g.out, processed'[m] = 1
        PROVE  \/ status' # "OK"
               \/ \E d \in Threads : Busy(thread'[d]) /\ thread'[d].node = m
               \/ \A i \in DOMAIN EdgesOf(g, m) : <<m, i>> \in D
    <2>1. \/ status # "OK"
          \/ \E d \in Threads : Busy(thread[d]) /\ thread[d].node = m
          \/ \A i \in DOMAIN EdgesOf(g, m) : <<m, i>> \in D
      BY <1>5 DEF ExecInv, EdgeInv
    <2>2. CASE \E d \in Threads : Busy(thread[d]) /\ thread[d].node = m
      <3>1. PICK d \in Threads : Busy(thread[d]) /\ thread[d].node = m
        BY <2>2
      <3>2. CASE d = c
        BY <1>1, <1>2, <3>1, <3>2
      <3>3. CASE d # c
        BY <1>2, <3>1, <3>3
      <3> QED BY <3>2, <3>3
    <2> QED BY <2>1, <2>2
  <1>6. \A e \in D : DataEdge(g, e) /\ processed'[Target(g, e)] = 0 => e \in full'
    BY DEF ExecInv, EdgeInv
  <1>7. \A m \in failed' : processed'[m] = 1
    BY DEF ExecInv, EdgeInv
  <1> QED BY <1>3, <1>4, <1>5, <1>6, <1>7 DEF EdgeInv

LEMMA QuietStatus ==
    ASSUME NEW g \in Graphs, NEW D, ExecInv(g, D), NEW c \in Threads, NEW f, f = thread[c],
           NEW f2, Replaces(c, f2), Quiet(f, f2), failed' = failed, foreign_cancel' = foreign_cancel,
           finish' = finish,
           status' # "OK" \/ (status = "OK" /\ f.s = "OK" /\ cancelled' = cancelled),
           status' # "OK" => status # "OK" \/ f.s # "OK",
           status' = "DERIVED" => foreign_cancel,
           f2.pc \in {"abort", "cancel", "error"} => status' # "OK" /\ f.s # "OK"
    PROVE  StatusInv'
  <1>1. f2.s = f.s /\ f2.node = f.node /\ Busy(f)
    BY DEF Quiet
  <1>2. /\ thread' \in [Threads -> Frame] /\ thread'[c] = f2
        /\ \A d \in Threads : d # c => thread'[d] = thread[d]
    BY Replaced DEF ExecInv, TypeOK
  <1>3. status # "OK" => status' # "OK"
    OBVIOUS
  <1>4. ASSUME NEW d \in Threads, NEW x, x = thread'[d]
        PROVE  /\ x.s # "OK" => failed' # {}
               /\ x.s # "OK" /\ ~Busy(x) => status' # "OK"
               /\ x.pc \in {"abort", "cancel", "error"} => status' # "OK" /\ x.s # "OK"
               /\ x.s # "DERIVED"
    <2>1. CASE d = c
      BY <1>1, <1>2, <1>4, <2>1 DEF ExecInv, StatusInv
    <2>2. CASE d # c
      BY <1>2, <1>3, <1>4, <2>2 DEF ExecInv, StatusInv
    <2> QED BY <2>1, <2>2
  <1>5. ASSUME NEW m \in failed
        PROVE  \/ status' # "OK"
               \/ \E d \in Threads : Busy(thread'[d]) /\ thread'[d].node = m /\ thread'[d].s # "OK"
    <2>1. CASE status' = "OK"
      <3>1. PICK d \in Threads : Busy(thread[d]) /\ thread[d].node = m /\ thread[d].s # "OK"
        BY <2>1 DEF ExecInv, StatusInv
      <3>2. d # c
        BY <2>1, <3>1
      <3> QED BY <1>2, <3>1, <3>2
    <2> QED BY <2>1
  <1>6. status' # "OK" => failed' # {}
    BY DEF ExecInv, StatusInv
  <1>7. cancelled' => \/ foreign_cancel' \/ status' # "OK"
                     \/ finish'.pc \in {"delete", "call", "end"}
    BY DEF ExecInv, StatusInv
  <1> QED BY <1>4, <1>5, <1>6, <1>7 DEF StatusInv

LEMMA QuietKeeps ==
    ASSUME NEW g \in Graphs, NEW D, ExecInv(g, D), NEW c \in Threads, NEW f, f = thread[c],
           NEW f2, Replaces(c, f2), Quiet(f, f2),
           UNCHANGED <<step, pending, processed, failed, pool, counters, ending, foreign_cancel,
                       device_ok>>,
           full \subseteq full', full' \subseteq Nodes \X Nat, status' \in Status,
           {aborted', cancelled'} \subseteq BOOLEAN, num_outstanding_ops' \in Nat,
           f2.pc \in {"loop", "abort", "cancel", "error"} => f.ready = <<>>,
           f2.pc = "schedule" => f.ready # <<>>,
           f2.pc = "decrement" => f.pc = "write" /\ <<f.node, f.edge>> \in full',
           f2.pc \in {"loop", "schedule"} =>
              status' # "OK" \/ \A i \in DOMAIN EdgesOf(g, f.node) : <<f.node, i>> \in D,
           f2.completed => num_outstanding_ops' = 0,
           StatusInv', Accounting', status # "OK" => status' # "OK"
    PROVE  ExecInv(g, D)'
  <1>1. f \in Frame /\ FrameOK(g, c, f) /\ f2 \in Frame
    BY DEF ExecInv, TypeOK, FramesInv, Replaces
  <1>2. /\ thread' \in [Threads -> Frame] /\ thread'[c] = f2
        /\ \A d \in Threads : d # c => thread'[d] = thread[d]
    BY Replaced DEF ExecInv, TypeOK
  <1>3. f.node \in OutstandingNodes
    BY HoldsIs, OutstandingIs DEF Quiet
  <1>4. /\ num_outstanding_ops \in Nat \ {0} /\ Runs /\ ~deleted /\ started
        /\ finish_calls = 0 /\ finish.pc = "none" /\ ~finish_when_deferred_ops_done
        /\ \A d \in Threads : ~thread[d].completed
    BY <1>3, StillRuns
  <1>5. TypeOK'
    BY <1>2 DEF ExecInv, TypeOK, step, counters, ending
  <1>6. FramesInv(g)'
    <2>1. FrameOK(g, c, f2)
      BY <1>1, QuietFrame
    <2> QED BY <2>1, FramesStay DEF ExecInv, TypeOK
  <1>7. PlaceInv(g)' /\ NodeInv(g, D)'
    BY QuietPlaces DEF step, ending
  <1>8. EdgeInv(g, D)'
    BY QuietEdges
  <1>9. FinishInv'
    <2>1. \A d \in Threads : thread'[d].completed => d = c /\ num_outstanding_ops' = 0
      BY <1>2, <1>4
    <2> QED BY <1>4, <2>1 DEF ExecInv, FinishInv, ending, counters, step, Runs
  <1>10. ReportInv'
    BY <1>4 DEF ExecInv, ReportInv, ending, step, Runs
  <1> QED BY <1>5, <1>6, <1>7, <1>8, <1>9, <1>10 DEF ExecInv

LEMMA WriteKeeps ==
    ASSUME NEW g \in Graphs, NEW D, ExecInv(g, D), NEW c \in Threads, thread[c].pc = "write",
           PropagateOutputs(c)
    PROVE  ExecInv(g, D)'
  <1>1. PICK f : f = thread[c]
    OBVIOUS
  <1>2. PICK f2 : f2 = [f EXCEPT !.pc = "decrement"]
    OBVIOUS
  <1>3. f \in Frame /\ FrameOK(g, c, f) /\ f.pc = "write" /\ f.s = "OK" /\ f.node \in Nodes /\ f.edge \in Nat
    BY <1>1, FrameFields DEF ExecInv, TypeOK, FramesInv, FrameOK
  <1>4. /\ thread' = [thread EXCEPT ![c] = f2] /\ full' = full \cup {<<f.node, f.edge>>}
        /\ pending' = pending
    BY <1>1, <1>2 DEF PropagateOutputs, Put
  <1>5. UNCHANGED <<step, num_outstanding_ops, status, pool, counters, ending, environment, history>>
    BY DEF PropagateOutputs
  <1>6. Quiet(f, f2) /\ f2 \in Frame /\ f2.pc = "decrement" /\ f2.completed = f.completed
    BY <1>2, <1>3 DEF Quiet, Busy, Frame
  <1>7. Replaces(c, f2)
    BY <1>4, <1>6 DEF Replaces
  <1>8. StatusInv'
    <2>1. failed' = failed /\ foreign_cancel' = foreign_cancel /\ finish' = finish
          /\ status' = status /\ cancelled' = cancelled
      BY <1>5 DEF environment, history, ending
    <2>2. status' = "DERIVED" => foreign_cancel
      BY <2>1 DEF ExecInv, StatusInv
    <2>3. status' # "OK" \/ (status = "OK" /\ f.s = "OK" /\ cancelled' = cancelled)
      BY <1>3, <2>1
    <2> QED BY <1>1, <1>6, <1>7, <2>1, <2>2, <2>3, QuietStatus
  <1>9. Accounting'
    <2>1. Counts(f2) = Counts(f)
      BY <1>6, QuietLists
    <2> QED BY <1>1, <1>5, <1>7, <2>1, CountStays DEF ExecInv, TypeOK
  <1>10. /\ full \subseteq full' /\ full' \subseteq Nodes \X Nat /\ status' \in Status
         /\ {aborted', cancelled'} \subseteq BOOLEAN /\ num_outstanding_ops' \in Nat
    BY <1>3, <1>4, <1>5 DEF ExecInv, TypeOK, environment
  <1>11. ~f.completed
    BY <1>1, <1>3, StillRuns, OutstandingIs, HoldsIs DEF Busy
  <1>12. <<f.node, f.edge>> \in full' /\ (status # "OK" => status' # "OK")
    BY <1>4, <1>5
  <1>13. UNCHANGED <<step, pending, processed, failed, pool, counters, ending, foreign_cancel,
                       device_ok>>
    BY <1>4, <1>5 DEF environment, history
  <1> QED BY <1>1, <1>3, <1>6, <1>7, <1>8, <1>9, <1>10, <1>11, <1>12, <1>13, QuietKeeps

(* One node of the thread is no longer counted.                            *)
LEMMA CountDrops ==
    ASSUME NEW g \in Graphs, NEW D, ExecInv(g, D), NEW c \in Threads, NEW f, f = thread[c],
           NEW f2, Replaces(c, f2), pool' = pool, NEW R \in SUBSET Nodes,
           Counts(f) = Waiting(f) \cup {f.node}, Counts(f2) = Waiting(f) \cup R,
           f.node \notin Waiting(f) \cup R, \A n \in R : n \notin OutstandingNodes,
           num_outstanding_ops' = num_outstanding_ops + (Cardinality(R) - 1)
    PROVE  Accounting' /\ num_outstanding_ops' \in Nat
  <1>1. /\ OutstandingNodes \subseteq Nodes /\ IsFiniteSet(OutstandingNodes)
        /\ num_outstanding_ops = Cardinality(OutstandingNodes)
    BY OutstandingFinite DEF ExecInv, Accounting
  <1>2. Counts(f) \subseteq OutstandingNodes
    BY OutstandingIs
  <1>3. OutstandingNodes' = (OutstandingNodes \ {f.node}) \cup R
    <2>1. OutstandingNodes' = (OutstandingNodes \ Counts(thread[c])) \cup Counts(f2)
      BY OutstandingStay DEF ExecInv, TypeOK
    <2> QED BY <1>2, <2>1
  <1>4. IsFiniteSet(R) /\ Cardinality(R) \in Nat /\ Cardinality(OutstandingNodes) \in Nat
    BY <1>1, GraphsAssumption, FS_Subset, FS_CardinalityType
  <1>5. /\ IsFiniteSet(OutstandingNodes \ {f.node})
        /\ Cardinality(OutstandingNodes \ {f.node}) = Cardinality(OutstandingNodes) - 1
    BY <1>1, <1>2, FS_RemoveElement
  <1>6. Cardinality(OutstandingNodes \ {f.node}) \in Nat
    BY <1>5, FS_CardinalityType
  <1>7. (OutstandingNodes \ {f.node}) \cap R = {}
    OBVIOUS
  <1>8. Cardinality(OutstandingNodes') = Cardinality(OutstandingNodes \ {f.node}) + Cardinality(R)
    <2> DEFINE A == OutstandingNodes \ {f.node}
    <2>1. Cardinality(A \cup R) = Cardinality(A) + Cardinality(R) - Cardinality(A \cap R)
      BY <1>4, <1>5, FS_Union
    <2>2. Cardinality(A \cap R) = 0
      BY <1>7, FS_EmptySet
    <2> QED BY <1>3, <1>4, <1>6, <2>1, <2>2
  <1> QED BY <1>1, <1>4, <1>5, <1>6, <1>8 DEF Accounting

(* fetch_sub: the node that was the last leaves a completed thread.        *)
LEMMA SubKeeps ==
    ASSUME NEW g \in Graphs, NEW D, ExecInv(g, D), NEW c \in Threads,
           thread[c].ready = <<>>,
           \/ thread[c].pc = "node_done" /\ thread[c].s = "OK"
           \/ thread[c].pc = "error",
           FetchSub(c),
           UNCHANGED <<step, propagation, status, pool, counters, ending, environment, history>>
    PROVE  ExecInv(g, D)'
  <1>1. PICK f : f = thread[c]
    OBVIOUS
  <1>2. PICK f2 : f2 = [f EXCEPT !.pc = "loop", !.completed = (num_outstanding_ops = 1)]
    OBVIOUS
  <1>3. f \in Frame /\ FrameOK(g, c, f) /\ f.node \in Nodes /\ Busy(f) /\ f.ready = <<>>
    BY <1>1, FrameFields DEF ExecInv, TypeOK, FramesInv, Busy
  <1>4. thread' = [thread EXCEPT ![c] = f2] /\ num_outstanding_ops' = num_outstanding_ops - 1
    <2>1. thread \in [Threads -> Frame]
      BY DEF ExecInv, TypeOK
    <2> QED BY <1>1, <1>2, <2>1 DEF FetchSub
  <1>5. /\ f2 \in Frame /\ f2.pc = "loop" /\ (f2.completed <=> num_outstanding_ops = 1)
        /\ f2.inline = f.inline /\ f2.rest = f.rest /\ f2.ready = f.ready
        /\ f2.node = f.node /\ f2.edge = f.edge /\ f2.s = f.s
    BY <1>2, <1>3 DEF Frame
  <1>6. Quiet(f, f2)
    BY <1>3, <1>5 DEF Quiet
  <1>7. Replaces(c, f2)
    BY <1>4, <1>5 DEF Replaces
  <1>8. status = "OK" => f.pc = "node_done" /\ f.s = "OK"
    BY <1>1 DEF ExecInv, StatusInv
  <1>9. StatusInv'
    <2>1. failed' = failed /\ foreign_cancel' = foreign_cancel /\ finish' = finish
          /\ status' = status /\ cancelled' = cancelled
      BY DEF environment, history, ending
    <2>2. status' = "DERIVED" => foreign_cancel
      BY <2>1 DEF ExecInv, StatusInv
    <2>3. status' # "OK" \/ (status = "OK" /\ f.s = "OK" /\ cancelled' = cancelled)
      BY <1>8, <2>1
    <2>4. f2.pc \notin {"abort", "cancel", "error"}
      BY <1>5
    <2> QED BY <1>1, <1>6, <1>7, <2>1, <2>2, <2>3, <2>4, QuietStatus
  <1>10. num_outstanding_ops \in Nat
    BY DEF ExecInv, TypeOK
  <1>11. Accounting' /\ num_outstanding_ops' \in Nat
    <2>1. Counts(f2) = Waiting(f) \cup {} /\ Counts(f) = Waiting(f) \cup {f.node}
      BY <1>5, <1>6, QuietLists
    <2>2. f.node \notin Waiting(f) \cup {}
      BY <1>3 DEF FrameOK
    <2>3. num_outstanding_ops' = num_outstanding_ops + (Cardinality({}) - 1)
      BY <1>4, <1>10, FS_EmptySet
    <2>4. {} \in SUBSET Nodes
      OBVIOUS
    <2> QED BY <1>1, <1>7, <2>1, <2>2, <2>3, <2>4, CountDrops
  <1>12. f2.completed => num_outstanding_ops' = 0
    BY <1>4, <1>5
  <1>13. status' # "OK" \/ \A i \in DOMAIN EdgesOf(g, f.node) : <<f.node, i>> \in D
    BY <1>1, <1>8 DEF ExecInv, EdgeInv
  <1>14. /\ full \subseteq full' /\ full' \subseteq Nodes \X Nat /\ status' \in Status
         /\ {aborted', cancelled'} \subseteq BOOLEAN /\ (status # "OK" => status' # "OK")
    BY DEF ExecInv, TypeOK, environment, propagation
  <1>15. UNCHANGED <<step, pending, processed, failed, pool, counters, ending, foreign_cancel,
                       device_ok>>
    BY DEF environment, history, propagation
  <1>16. f2.pc # "schedule" /\ f2.pc # "decrement"
    BY <1>5
  <1> QED BY <1>1, <1>3, <1>6, <1>7, <1>9, <1>11, <1>12, <1>13, <1>14, <1>15, <1>16, QuietKeeps

LEMMA NodeDoneKeeps ==
    ASSUME NEW g \in Graphs, NEW D, ExecInv(g, D), NEW c \in Threads, NodeDone(c)
    PROVE  ExecInv(g, D)'
  <1>0. CASE thread[c].ready = <<>>
    BY <1>0, SubKeeps DEF NodeDone
  <1> SUFFICES ASSUME thread[c].ready # <<>> PROVE ExecInv(g, D)'
    BY <1>0
  <1>1. PICK f : f = thread[c]
    OBVIOUS
  <1>2. PICK f2 : f2 = [f EXCEPT !.pc = "schedule"]
    OBVIOUS
  <1>3. /\ f \in Frame /\ FrameOK(g, c, f) /\ f.node \in Nodes /\ Busy(f) /\ f.ready # <<>>
        /\ f.ready \in Seq(Nodes) /\ f.pc = "node_done" /\ f.s = "OK"
    BY <1>1, FrameFields DEF ExecInv, TypeOK, FramesInv, Busy, NodeDone
  <1>4. /\ thread' = [thread EXCEPT ![c] = f2]
        /\ num_outstanding_ops' = num_outstanding_ops + (Len(f.ready) - 1)
    <2>1. thread \in [Threads -> Frame]
      BY DEF ExecInv, TypeOK
    <2> QED BY <1>1, <1>2, <2>1 DEF NodeDone, FetchAdd
  <1>5. /\ f2 \in Frame /\ f2.pc = "schedule" /\ f2.completed = f.completed
        /\ f2.inline = f.inline /\ f2.rest = f.rest /\ f2.ready = f.ready
        /\ f2.node = f.node /\ f2.edge = f.edge /\ f2.s = f.s
    BY <1>2, <1>3 DEF Frame
  <1>6. Quiet(f, f2)
    BY <1>3, <1>5 DEF Quiet
  <1>7. Replaces(c, f2)
    BY <1>4, <1>5 DEF Replaces
  <1>8. UNCHANGED <<step, propagation, status, pool, counters, ending, environment, history>>
    BY DEF NodeDone
  <1>9. StatusInv'
    <2>1. failed' = failed /\ foreign_cancel' = foreign_cancel /\ finish' = finish
          /\ status' = status /\ cancelled' = cancelled
      BY <1>8 DEF environment, history, ending
    <2>2. status' = "DERIVED" => foreign_cancel
      BY <2>1 DEF ExecInv, StatusInv
    <2>3. status' # "OK" \/ (status = "OK" /\ f.s = "OK" /\ cancelled' = cancelled)
      BY <1>3, <2>1
    <2>4. f2.pc \notin {"abort", "cancel", "error"}
      BY <1>5
    <2> QED BY <1>1, <1>6, <1>7, <2>1, <2>2, <2>3, <2>4, QuietStatus
  <1>10. Range(f.ready) \in SUBSET Nodes /\ Cardinality(Range(f.ready)) = Len(f.ready)
    BY <1>3, RangeIn, RangeCardinality DEF FrameOK
  <1>11. Accounting' /\ num_outstanding_ops' \in Nat
    <2>1. Counts(f2) = Waiting(f) \cup Range(f.ready) /\ Counts(f) = Waiting(f) \cup {f.node}
      BY <1>5, <1>6, QuietLists
    <2>2. f.node \notin Waiting(f) \cup Range(f.ready)
      BY <1>3 DEF FrameOK
    <2>3. num_outstanding_ops' = num_outstanding_ops + (Cardinality(Range(f.ready)) - 1)
      BY <1>4, <1>10
    <2>4. ASSUME NEW n \in Range(f.ready) PROVE n \notin OutstandingNodes
      <3>1. n \in Holds(f) /\ n \notin Counts(f)
        BY <1>3, <2>1, HoldsIs DEF FrameOK
      <3>2. /\ \A d \in Threads : d # c => n \notin Holds(thread[d])
            /\ \A t \in pool : n \notin Range(t)
        BY <1>1, <3>1, HeldOnce
      <3>3. \A d \in Threads : n \notin Counts(thread[d])
        BY <1>1, <3>1, <3>2, HoldsIs
      <3> QED BY <3>2, <3>3, OutstandingIs
    <2>5. pool' = pool
      BY <1>8
    <2> QED BY <1>1, <1>7, <1>10, <2>1, <2>2, <2>3, <2>4, <2>5, CountDrops
  <1>12. ~f.completed
    BY <1>1, <1>3, StillRuns, OutstandingIs, HoldsIs
  <1>13. \A i \in DOMAIN EdgesOf(g, f.node) : <<f.node, i>> \in D
    BY <1>1, <1>3 DEF ExecInv, EdgeInv
  <1>14. /\ full \subseteq full' /\ full' \subseteq Nodes \X Nat /\ status' \in Status
         /\ {aborted', cancelled'} \subseteq BOOLEAN /\ (status # "OK" => status' # "OK")
    BY <1>8 DEF ExecInv, TypeOK, environment, propagation
  <1>15. UNCHANGED <<step, pending, processed, failed, pool, counters, ending, foreign_cancel,
                       device_ok>>
    BY <1>8 DEF environment, history, propagation
  <1>16. f2.pc \notin {"loop", "abort", "cancel", "error", "decrement"}
    BY <1>5
  <1> QED BY <1>1, <1>3, <1>5, <1>6, <1>7, <1>9, <1>11, <1>12, <1>13, <1>14, <1>15, <1>16, QuietKeeps

(* A node that failed: status_ is kept, the step is aborted.               *)
LEMMA FailureKeeps ==
    ASSUME NEW g \in Graphs, NEW D, ExecInv(g, D), NEW c \in Threads, thread[c].s # "OK",
           NEW p, thread' = [thread EXCEPT ![c].pc = p],
           \/ thread[c].pc = "node_done" /\ p \in {"abort", "error"}
           \/ thread[c].pc \in {"abort", "cancel"} /\ p \in {"cancel", "error"},
           status' \in Status \ {"OK"}, status' = "DERIVED" => foreign_cancel,
           {aborted', cancelled'} \subseteq BOOLEAN,
           UNCHANGED <<step, propagation, num_outstanding_ops, pool, counters, ending,
                       foreign_cancel, device_ok, history>>
    PROVE  ExecInv(g, D)'
  <1>1. PICK f : f = thread[c]
    OBVIOUS
  <1>2. PICK f2 : f2 = [f EXCEPT !.pc = p]
    OBVIOUS
  <1>3. /\ f \in Frame /\ FrameOK(g, c, f) /\ f.node \in Nodes /\ Busy(f) /\ f.s # "OK"
        /\ p \in {"abort", "cancel", "error"}
    BY <1>1, FrameFields DEF ExecInv, TypeOK, FramesInv, Busy
  <1>4. thread' = [thread EXCEPT ![c] = f2]
    <2>1. thread \in [Threads -> Frame]
      BY DEF ExecInv, TypeOK
    <2> QED BY <1>1, <1>2, <2>1
  <1>5. /\ f2 \in Frame /\ f2.pc = p /\ f2.completed = f.completed
        /\ f2.inline = f.inline /\ f2.rest = f.rest /\ f2.ready = f.ready
        /\ f2.node = f.node /\ f2.edge = f.edge /\ f2.s = f.s
    BY <1>2, <1>3 DEF Frame
  <1>6. Quiet(f, f2) /\ f.ready = <<>>
    BY <1>3, <1>5 DEF Quiet, FrameOK
  <1>7. Replaces(c, f2)
    BY <1>4, <1>5 DEF Replaces
  <1>9. StatusInv'
    <2>1. failed' = failed /\ foreign_cancel' = foreign_cancel /\ finish' = finish
      BY DEF history, ending
    <2> QED BY <1>1, <1>3, <1>6, <1>7, <2>1, QuietStatus
  <1>11. Accounting' /\ num_outstanding_ops' \in Nat
    <2>1. Counts(f2) = Counts(f)
      BY <1>3, <1>5, <1>6, QuietLists
    <2> QED BY <1>1, <1>7, <2>1, CountStays DEF ExecInv, TypeOK
  <1>12. ~f.completed
    BY <1>1, <1>3, StillRuns, OutstandingIs, HoldsIs
  <1>14. full \subseteq full' /\ full' \subseteq Nodes \X Nat
    BY DEF ExecInv, TypeOK, propagation
  <1>15. UNCHANGED <<step, pending, processed, failed, pool, counters, ending, foreign_cancel,
                       device_ok>>
    BY DEF history, propagation
  <1>16. f2.pc \notin {"loop", "schedule", "decrement"}
    BY <1>3, <1>5
  <1> QED BY <1>1, <1>5, <1>6, <1>7, <1>9, <1>11, <1>12, <1>14, <1>15, <1>16, QuietKeeps

LEMMA NodeFailedKeeps ==
    ASSUME NEW g \in Graphs, NEW D, ExecInv(g, D), NEW c \in Threads,
           NodeFailed(c) \/ StartAbort(c) \/ StartCancel(c)
    PROVE  ExecInv(g, D)'
  <1>1. {aborted, cancelled} \subseteq BOOLEAN /\ status \in Status /\ thread[c] \in Frame
    BY DEF ExecInv, TypeOK
  <1>2. status = "DERIVED" => foreign_cancel
    BY DEF ExecInv, StatusInv
  <1>3. CASE NodeFailed(c)
    <2>1. thread[c].pc = "node_done" /\ thread[c].s # "OK" /\ thread[c].s \in Status /\ thread[c].s # "DERIVED"
      BY <1>1, <1>3, FrameFields DEF NodeFailed, ExecInv, StatusInv
    <2>2. finish.pc = "none"
      <3>1. thread[c].node \in OutstandingNodes
        BY <2>1, OutstandingIs, HoldsIs DEF Busy
      <3> QED BY <3>1, StillRuns
    <2>3. status' \in Status \ {"OK"} /\ (status' = "DERIVED" => foreign_cancel)
      <3>1. status = "OK" /\ cancelled => foreign_cancel
        BY <2>2 DEF ExecInv, StatusInv
      <3>2. FirstFailure(thread[c].s) \in Status \ {"OK"}
            /\ (FirstFailure(thread[c].s) = "DERIVED" => cancelled)
        BY <2>1 DEF FirstFailure, Status
      <3> QED BY <1>1, <1>2, <1>3, <3>1, <3>2 DEF NodeFailed, KeepStatus
    <2>4. AbortRun \in {"abort", "error"} /\ thread' = [thread EXCEPT ![c].pc = AbortRun]
      BY <1>3 DEF NodeFailed, AbortRun
    <2>5. /\ {aborted', cancelled'} \subseteq BOOLEAN
          /\ UNCHANGED <<step, propagation, num_outstanding_ops, pool, counters, ending,
                         foreign_cancel, device_ok, history>>
      BY <1>1, <1>3 DEF NodeFailed, environment
    <2> QED BY <2>1, <2>3, <2>4, <2>5, FailureKeeps
  <1>4. CASE StartAbort(c)
    <2>1. thread[c].pc = "abort" /\ thread[c].s # "OK" /\ status # "OK"
      BY <1>4 DEF StartAbort, ExecInv, StatusInv
    <2>2. /\ thread' = [thread EXCEPT ![c].pc = "cancel"] /\ status' = status
          /\ {aborted', cancelled'} \subseteq BOOLEAN
          /\ UNCHANGED <<step, propagation, num_outstanding_ops, pool, counters, ending,
                         foreign_cancel, device_ok, history>>
      BY <1>1, <1>4 DEF StartAbort
    <2> QED BY <1>1, <1>2, <2>1, <2>2, FailureKeeps
  <1>5. CASE StartCancel(c)
    <2>1. thread[c].pc = "cancel" /\ thread[c].s # "OK" /\ status # "OK"
      BY <1>5 DEF StartCancel, ExecInv, StatusInv
    <2>2. /\ thread' = [thread EXCEPT ![c].pc = "error"] /\ status' = status
          /\ {aborted', cancelled'} \subseteq BOOLEAN
          /\ UNCHANGED <<step, propagation, num_outstanding_ops, pool, counters, ending,
                         foreign_cancel, device_ok, history>>
      BY <1>1, <1>5 DEF StartCancel
    <2> QED BY <1>1, <1>2, <2>1, <2>2, FailureKeeps
  <1> QED BY <1>3, <1>4, <1>5

LEMMA ErrorDoneKeeps ==
    ASSUME NEW g \in Graphs, NEW D, ExecInv(g, D), NEW c \in Threads, ErrorDone(c)
    PROVE  ExecInv(g, D)'
  <1>1. thread[c].pc = "error" /\ FrameOK(g, c, thread[c])
    BY DEF ErrorDone, ExecInv, FramesInv
  <1>2. thread[c].ready = <<>>
    BY <1>1 DEF FrameOK
  <1> QED BY <1>1, <1>2, SubKeeps DEF ErrorDone

-----------------------------------------------------------------------------
(* An asynchronous kernel calls done.                                      *)
CallbackFrame(g, f, n, s) ==
    [f EXCEPT !.pc = IF s = "OK" THEN EdgeStep(g, n, 1) ELSE "node_done",
              !.node = n, !.edge = 1, !.s = s]

CalledBack(g, c, f, n, s, f2) ==
    /\ f2 \in Frame /\ FrameOK(g, c, f2) /\ Busy(f2) /\ f2.node = n /\ f2.s = s /\ f2.edge = 1
    /\ f2.pc \in {"write", "decrement", "node_done"}
    /\ f2.pc = "decrement" => ~DataEdge(g, <<n, 1>>)
    /\ f2.pc = "node_done" /\ s = "OK" => 1 > Len(EdgesOf(g, n))
    /\ f2.completed = f.completed /\ n \in DOMAIN g.out /\ f.node = n
    /\ Holds(f2) = Holds(f) /\ Counts(f2) = Counts(f) /\ Waiting(f2) = {} /\ f2.ready = <<>>

LEMMA CallbackFrameOK ==
    ASSUME NEW g \in Graphs, NEW n \in Nodes, NEW c \in Threads, c[1] = "done", c[2] = n,
           NEW f \in Frame, FrameOK(g, c, f), f.pc = "kernel",
           NEW s \in Status, NEW f2, f2 = CallbackFrame(g, f, n, s)
    PROVE  CalledBack(g, c, f, n, s, f2)
  <1>1. /\ Busy(f) /\ f.inline = <<>> /\ f.rest = <<>> /\ f.ready = <<>> /\ f.node = n
        /\ Holds(f) \subseteq DOMAIN g.out
    BY DEF FrameOK, Busy
  <1>2. n \in DOMAIN g.out
    BY <1>1, HoldsIs
  <1>3. /\ EdgeStep(g, n, 1) \in {"write", "decrement", "node_done"}
        /\ EdgeStep(g, n, 1) \in {"write", "decrement"} => 1 \in DOMAIN EdgesOf(g, n)
        /\ EdgeStep(g, n, 1) = "write" => DataEdge(g, <<n, 1>>)
        /\ EdgeStep(g, n, 1) = "decrement" => ~DataEdge(g, <<n, 1>>)
        /\ EdgeStep(g, n, 1) = "node_done" => 1 > Len(EdgesOf(g, n))
    <2>1. 1 \in Nat \ {0}
      OBVIOUS
    <2> QED BY <1>2, <2>1, AtEdgeFrame
  <1>4. f2 \in Frame
    BY <1>3 DEF Frame, CallbackFrame
  <1>5. /\ f2.pc = (IF s = "OK" THEN EdgeStep(g, n, 1) ELSE "node_done") /\ f2.node = n
        /\ f2.edge = 1 /\ f2.s = s /\ f2.inline = <<>> /\ f2.rest = <<>>
        /\ f2.ready = <<>> /\ f2.completed = f.completed
    BY <1>1 DEF Frame, CallbackFrame
  <1>6. Busy(f2)
    BY <1>3, <1>5 DEF Busy
  <1>7. Waiting(f2) = {} /\ Waiting(f) = {} /\ Range(f2.ready) = {} /\ Range(f.ready) = {}
    BY <1>1, <1>5, EmptyRange DEF Waiting
  <1>8. /\ Holds(f2) = Holds(f) /\ Counts(f2) = Counts(f)
    BY <1>1, <1>3, <1>5, <1>6, <1>7 DEF Holds, Counts, Current
  <1>9. FrameOK(g, c, f2)
    BY <1>1, <1>3, <1>5, <1>6, <1>7, <1>8, EmptyRange DEF FrameOK
  <1> QED BY <1>1, <1>2, <1>3, <1>4, <1>5, <1>6, <1>7, <1>8, <1>9 DEF CalledBack

LEMMA AsyncDoneKeeps ==
    ASSUME NEW g \in Graphs, NEW D, ExecInv(g, D), NEW n \in Nodes, AsyncDone(n)
    PROVE  ExecInv(g, D)'
  <1>1. PICK c : c = <<"done", n>>
    OBVIOUS
  <1>2. PICK f : f = thread[c]
    OBVIOUS
  <1>3. /\ c \in Threads /\ f \in Frame /\ FrameOK(g, c, f) /\ f.pc = "kernel" /\ Busy(f)
        /\ c[1] = "done" /\ c[2] = n
    BY <1>1, <1>2 DEF ExecInv, TypeOK, FramesInv, Threads, AsyncDone, Busy
  <1>4. PICK s \in Outcome : /\ thread' = [thread EXCEPT ![c] = AfterKernel(thread[c], n, s)]
                            /\ failed' = IF s = "OK" THEN failed ELSE failed \cup {n}
    BY <1>1 DEF AsyncDone, Fails
  <1>5. s \in Status /\ s # "DERIVED"
    BY DEF Outcome, Status
  <1>6. PICK f2 : f2 = CallbackFrame(g, f, n, s)
    OBVIOUS
  <1>0. CalledBack(g, c, f, n, s, f2)
    BY <1>3, <1>5, <1>6, CallbackFrameOK
  <1>7. f2 \in Frame /\ FrameOK(g, c, f2) /\ Busy(f2) /\ f2.node = n /\ f2.s = s /\ f2.edge = 1
    BY <1>0 DEF CalledBack
  <1>8. /\ f2.pc \in {"write", "decrement", "node_done"}
        /\ f2.pc = "decrement" => ~DataEdge(g, <<n, 1>>)
        /\ f2.pc = "node_done" /\ s = "OK" => 1 > Len(EdgesOf(g, n))
    BY <1>0 DEF CalledBack
  <1>9. /\ f2.completed = f.completed /\ n \in DOMAIN g.out /\ f.node = n
        /\ Holds(f2) = Holds(f) /\ Counts(f2) = Counts(f) /\ Waiting(f2) = {} /\ f2.ready = <<>>
    BY <1>0 DEF CalledBack
  <1>10. graph = g /\ thread \in [Threads -> Frame] /\ processed[n] = 1 /\ D \subseteq EdgesAll(g)
    BY <1>2, <1>3, <1>9 DEF ExecInv, NodeInv, TypeOK
  <1>11. Replaces(c, f2)
    <2>1. AtEdge(n, 1) = EdgeStep(g, n, 1)
      BY <1>9, <1>10, AtEdgeIs
    <2>2. AfterKernel(thread[c], n, s) = f2
      BY <1>2, <1>6, <2>1 DEF AfterKernel, CallbackFrame
    <2> QED BY <1>3, <1>4, <1>7, <2>2 DEF Replaces
  <1>12. /\ thread' \in [Threads -> Frame] /\ thread'[c] = f2
         /\ \A d \in Threads : d # c => thread'[d] = thread[d]
    BY <1>10, <1>11, Replaced
  <1>13. full' = full \ {e \in InputsOf(g, n) : DataEdge(g, e)}
    BY <1>10, GraphIs DEF AsyncDone
  <1>14. UNCHANGED <<step, pending, num_outstanding_ops, status, pool, counters, ending,
                     environment, processed>>
    BY DEF AsyncDone
  <1>15. n \in OutstandingNodes
    BY <1>2, <1>3, <1>9, OutstandingIs, HoldsIs
  <1>16. /\ Runs /\ finish_calls = 0 /\ finish.pc = "none"
         /\ \A d \in Threads : ~thread[d].completed
    BY <1>15, StillRuns
  <1>17. \A e \in D : e[1] # n
    BY <1>2, <1>3, <1>9 DEF ExecInv, EdgeInv
  <1>18. \A d \in Threads : d # c => n \notin Holds(thread[d])
    BY <1>2, <1>3, <1>9, HeldOnce, HoldsIs
  <1>20. TypeOK'
    <2>1. full' \subseteq Nodes \X Nat /\ failed' \subseteq Nodes
      BY <1>4, <1>13 DEF ExecInv, TypeOK
    <2> QED BY <1>12, <1>14, <2>1 DEF ExecInv, TypeOK, step, ending, environment, counters
  <1>21. FramesInv(g)'
    BY <1>7, <1>10, <1>11, FramesStay DEF ExecInv
  <1>22. PlaceInv(g)'
    <2>1. PlaceInv(g) /\ \A m \in Holds(f2) : m \in Holds(thread[c])
      BY <1>2, <1>9 DEF ExecInv
    <2> QED BY <1>10, <1>11, <1>14, <2>1, PlacesStay
  <1>23. Accounting'
    <2>1. PlaceInv(g) /\ FramesInv(g) /\ Accounting /\ Counts(f2) = Counts(thread[c])
      BY <1>2, <1>9 DEF ExecInv
    <2> QED BY <1>10, <1>11, <1>14, <2>1, CountStays
  <1>24. NodeInv(g, D)'
    <2>1. \A m : Held(m) => Held(m)'
      <3>1. Holds(f2) = Holds(thread[c]) /\ pool' = pool
        BY <1>2, <1>9, <1>14
      <3> QED BY <1>3, <1>12, <3>1 DEF Held
    <2>2. \A m : ReadyNode(g, D, m)' <=> ReadyNode(g, D, m)
      BY <1>14 DEF ReadyNode
    <2>3. Runs' <=> Runs
      BY <1>14 DEF Runs, step, ending
    <2>4. ASSUME NEW m \in DOMAIN g.out
          PROVE  /\ pending'[m] = Cardinality(InputsOf(g, m) \ D)
                 /\ processed'[m] \in {0, 1}
                 /\ processed'[m] = 1 => InputsOf(g, m) \subseteq D
                 /\ Runs' /\ ReadyNode(g, D, m)' => Held(m)'
      BY <1>14, <2>1, <2>2, <2>3 DEF ExecInv, NodeInv
    <2>5. \A t \in pool' : \A m \in Range(t) : ReadyNode(g, D, m)'
      BY <1>14, <2>2 DEF ExecInv, NodeInv
    <2>6. ASSUME NEW d \in Threads
          PROVE  /\ \A m \in Waiting(thread'[d]) \cup Range(thread'[d].ready) : ReadyNode(g, D, m)'
                 /\ Busy(thread'[d]) => processed'[thread'[d].node] = 1
      <3>1. CASE d = c
        BY <1>7, <1>9, <1>10, <1>12, <1>14, <3>1, EmptyRange
      <3>2. CASE d # c
        BY <1>12, <1>14, <2>2, <3>2 DEF ExecInv, NodeInv
      <3> QED BY <3>1, <3>2
    <2>7. ASSUME NEW m \in Nodes
          PROVE  /\ thread'[<<"process", m>>].pc # "idle" =>
                       processed'[m] = 1 \/ m \in Range(thread'[<<"process", m>>].inline)
                 /\ thread'[<<"done", m>>].pc # "idle" => processed'[m] = 1
      <3>1. <<"process", m>> \in Threads /\ <<"done", m>> \in Threads /\ <<"process", m>> # c
        BY <1>1 DEF Threads
      <3>2. CASE m = n
        BY <1>10, <1>12, <1>14, <3>1, <3>2 DEF ExecInv, NodeInv
      <3>3. CASE m # n
        <4>1. <<"done", m>> # c
          BY <1>1, <3>3
        <4> QED BY <1>12, <1>14, <3>1, <4>1 DEF ExecInv, NodeInv
      <3> QED BY <3>2, <3>3
    <2> QED BY <1>10, <1>14, <2>4, <2>5, <2>6, <2>7 DEF NodeInv, step
  <1>25. EdgeInv(g, D)'
    <2>1. \A e \in D : processed'[e[1]] = 1 /\ e[1] \notin failed'
      BY <1>4, <1>14, <1>17 DEF ExecInv, EdgeInv
    <2>2. \A e : e \in full /\ e \notin InputsOf(g, n) => e \in full'
      BY <1>13
    <2>3. InputsOf(g, n) \subseteq D
      BY <1>9, <1>10 DEF ExecInv, NodeInv
    <2>4. ASSUME NEW d \in Threads, NEW x, x = thread'[d]
          PROVE  /\ x.pc \in {"kernel", "write", "decrement"} => x.node \notin failed'
                 /\ x.pc = "kernel" =>
                       /\ \A e \in D : e[1] # x.node
                       /\ \A e \in InputsOf(g, x.node) : DataEdge(g, e) => e \in full'
                 /\ x.pc \in {"write", "decrement"} =>
                       \A i \in DOMAIN EdgesOf(g, x.node) : <<x.node, i>> \in D <=> i < x.edge
                 /\ x.pc = "decrement" /\ DataEdge(g, <<x.node, x.edge>>) => <<x.node, x.edge>> \in full'
                 /\ x.pc = "node_done" /\ x.s = "OK" =>
                       \A i \in DOMAIN EdgesOf(g, x.node) : <<x.node, i>> \in D
      <3>1. CASE d = c
        <4>1. x = f2
          BY <1>12, <2>4, <3>1
        <4>2. \A i : <<n, i>> \notin D
          BY <1>17
        <4>3. \A i \in DOMAIN EdgesOf(g, n) : i >= 1 /\ i <= Len(EdgesOf(g, n)) /\ i \in Nat
          BY <1>9, GraphFacts
        <4>4. x.pc = "node_done" /\ x.s = "OK" => DOMAIN EdgesOf(g, n) = {}
          BY <1>7, <1>8, <1>9, <4>1, GraphFacts
        <4>5. x.pc \in {"kernel", "write", "decrement"} => x.node \notin failed'
          <5>1. n \notin failed
            BY <1>2, <1>3, <1>9 DEF ExecInv, EdgeInv
          <5>2. x.pc \in {"kernel", "write", "decrement"} => s = "OK"
            BY <1>7, <1>8, <4>1 DEF FrameOK
          <5> QED BY <1>4, <1>7, <4>1, <5>1, <5>2
        <4> QED BY <1>7, <1>8, <4>1, <4>2, <4>3, <4>4, <4>5
      <3>2. CASE d # c
        <4>1. x = thread[d]
          BY <1>12, <2>4, <3>2
        <4>2. Busy(x) => x.node # n
          BY <1>18, <3>2, <4>1, HoldsIs
        <4>3. x.pc = "kernel" => \A e \in InputsOf(g, x.node) : e \notin InputsOf(g, n)
          BY <4>2 DEF Busy, InputsOf
        <4>4. ASSUME x.pc = "decrement" PROVE <<x.node, x.edge>> \notin InputsOf(g, n)
          <5>1. x.edge \in DOMAIN EdgesOf(g, x.node) /\ x.edge \in Nat
            BY <4>1, <4>4, FrameFields DEF ExecInv, FramesInv, FrameOK, TypeOK
          <5>2. <<x.node, x.edge>> \notin D
            BY <4>1, <4>4, <5>1 DEF ExecInv, EdgeInv
          <5> QED BY <2>3, <5>2
        <4>5. x.pc \in {"kernel", "write", "decrement"} => x.node \notin failed'
          BY <1>4, <4>1, <4>2 DEF ExecInv, EdgeInv, Busy
        <4> QED BY <2>2, <4>1, <4>3, <4>4, <4>5 DEF ExecInv, EdgeInv
      <3> QED BY <3>1, <3>2
    <2>5. ASSUME NEW m \in DOMAIN g.out, processed'[m] = 1
          PROVE  \/ status' # "OK"
                 \/ \E d \in Threads : Busy(thread'[d]) /\ thread'[d].node = m
                 \/ \A i \in DOMAIN EdgesOf(g, m) : <<m, i>> \in D
      <3>1. CASE m = n
        BY <1>3, <1>7, <1>12, <3>1
      <3>2. CASE m # n
        <4>1. processed[m] = 1
          BY <1>14, <2>5
        <4>2. \A d \in Threads : thread[d].node = m => d # c
          BY <1>2, <1>9, <3>2
        <4> QED BY <1>12, <1>14, <4>1, <4>2 DEF ExecInv, EdgeInv
      <3> QED BY <3>1, <3>2
    <2>6. ASSUME NEW e \in D, DataEdge(g, e), processed'[Target(g, e)] = 0 PROVE e \in full'
      <3>1. Target(g, e) # n /\ processed[Target(g, e)] = 0
        BY <1>10, <1>14, <2>6
      <3>2. e \in full /\ e \notin InputsOf(g, n)
        BY <2>6, <3>1 DEF ExecInv, EdgeInv, InputsOf
      <3> QED BY <2>2, <3>2
    <2>7. \A m \in failed' : processed'[m] = 1
      BY <1>4, <1>10, <1>14 DEF ExecInv, EdgeInv
    <2> QED BY <2>1, <2>4, <2>5, <2>6, <2>7 DEF EdgeInv
  <1>26. StatusInv'
    <2>1. ASSUME NEW d \in Threads, NEW x, x = thread'[d]
          PROVE  /\ x.s # "OK" => failed' # {}
                 /\ x.s # "OK" /\ ~Busy(x) => status' # "OK"
                 /\ x.pc \in {"abort", "cancel", "error"} => status' # "OK" /\ x.s # "OK"
                 /\ x.s # "DERIVED"
      <3>1. CASE d = c
        BY <1>4, <1>5, <1>7, <1>8, <1>12, <2>1, <3>1
      <3>2. CASE d # c
        BY <1>4, <1>12, <1>14, <2>1, <3>2 DEF ExecInv, StatusInv
      <3> QED BY <3>1, <3>2
    <2>2. ASSUME NEW m \in failed'
          PROVE  \/ status' # "OK"
                 \/ \E d \in Threads : Busy(thread'[d]) /\ thread'[d].node = m /\ thread'[d].s # "OK"
      <3>1. CASE m = n /\ s # "OK"
        BY <1>3, <1>7, <1>12, <3>1
      <3>2. CASE m \in failed /\ (m # n \/ s = "OK")
        <4>1. \A d \in Threads : thread[d].s # "OK" => d # c
          BY <1>2, <1>3 DEF FrameOK
        <4> QED BY <1>12, <1>14, <3>2, <4>1 DEF ExecInv, StatusInv
      <3> QED BY <1>4, <2>2, <3>1, <3>2
    <2> QED BY <1>4, <1>14, <2>1, <2>2 DEF ExecInv, StatusInv, environment, ending
  <1>27. FinishInv'
    <2>1. \A d \in Threads : ~thread'[d].completed
      BY <1>2, <1>3, <1>9, <1>12, <1>16
    <2> QED BY <1>14, <1>16, <2>1 DEF ExecInv, FinishInv, ending, step, Runs, counters
  <1>28. ReportInv'
    BY <1>14, <1>16 DEF ExecInv, ReportInv, Runs, step, ending
  <1> QED BY <1>20, <1>21, <1>22, <1>23, <1>24, <1>25, <1>26, <1>27, <1>28 DEF ExecInv

-----------------------------------------------------------------------------
(* A thread takes node n and leaves it to an asynchronous kernel: f becomes *)
(* f2, and k waits for the kernel.                                          *)
LaunchFrame(f) == [[f EXCEPT !.inline = Tail(@)] EXCEPT !.s = "OK"]
WaitFrame(n) == [Idle EXCEPT !.pc = "kernel", !.node = n]

Launched(g, c, f, n, f2, k) ==
    /\ f2 \in Frame /\ FrameOK(g, c, f2) /\ f2.pc = "loop" /\ f2.s = "OK" /\ f2.ready = <<>>
    /\ f2.completed = f.completed /\ Range(f2.inline) = Range(f.inline) \ {n}
    /\ Waiting(f2) = Waiting(f) \ {n} /\ Holds(f2) = Holds(f) \ {n} /\ Counts(f2) = Counts(f) \ {n}
    /\ k \in Frame /\ FrameOK(g, <<"done", n>>, k) /\ k.pc = "kernel" /\ k.s = "OK" /\ k.node = n
    /\ ~k.completed /\ Waiting(k) = {} /\ k.ready = <<>> /\ Holds(k) = {n} /\ Counts(k) = {n}

LEMMA LaunchFrameOK ==
    ASSUME NEW g \in Graphs, NEW c \in Threads, NEW f \in Frame, FrameOK(g, c, f),
           f.pc = "loop", f.inline # <<>>, NEW n, n = Head(f.inline)
    PROVE  Launched(g, c, f, n, LaunchFrame(f), WaitFrame(n))
  <1>1. PICK f2 : f2 = LaunchFrame(f)
    OBVIOUS
  <1>2. PICK k : k = WaitFrame(n)
    OBVIOUS
  <1>3. /\ n \in DOMAIN g.out /\ n \in Waiting(f) /\ c[1] = "process" /\ f.ready = <<>>
        /\ f.inline \in Seq(Nodes) /\ n \in Nodes
    BY PopFrame, GraphFacts
  <1>4. Tail(f.inline) \in Seq(Nodes) /\ "OK" \in Status
    BY <1>3 DEF Status
  <1>5. f2 \in Frame
    BY <1>1, <1>4 DEF Frame, LaunchFrame
  <1>6. /\ f2.pc = "loop" /\ f2.s = "OK" /\ f2.inline = Tail(f.inline) /\ f2.rest = f.rest
        /\ f2.ready = <<>> /\ f2.completed = f.completed /\ f2.node = f.node
    BY <1>1, <1>3 DEF Frame, LaunchFrame
  <1>7. /\ Waiting(f2) = Waiting(f) \ {n} /\ IsInjective(f2.inline)
        /\ Range(f2.inline) \cap Range(f2.rest) = {} /\ Waiting(f2) \cap Range(f2.ready) = {}
        /\ Range(f2.inline) = Range(f.inline) \ {n}
    <2>1. \A x \in Frame : x.inline = Tail(f.inline) /\ x.rest = f.rest /\ x.ready = <<>> =>
             /\ Waiting(x) = Waiting(f) \ {n} /\ IsInjective(x.inline)
             /\ Range(x.inline) \cap Range(x.rest) = {} /\ Waiting(x) \cap Range(x.ready) = {}
             /\ Range(x.inline) = Range(f.inline) \ {n}
      BY PopFrame
    <2> QED BY <1>5, <1>6, <2>1
  <1>8. ~Busy(f2) /\ ~Busy(f)
    BY <1>6 DEF Busy
  <1>9. Holds(f2) = Holds(f) \ {n} /\ Counts(f2) = Counts(f) \ {n}
    BY <1>3, <1>6, <1>7, <1>8, EmptyRange DEF Holds, Counts, Current
  <1>10. FrameOK(g, c, f2)
    <2>1. Range(f2.ready) = {} /\ IsInjective(f2.ready) /\ IsInjective(f2.rest)
      BY <1>6, EmptyRange DEF FrameOK
    <2>2. Holds(f2) \subseteq DOMAIN g.out
      BY <1>9 DEF FrameOK
    <2> QED BY <1>3, <1>6, <1>7, <1>8, <2>1, <2>2 DEF FrameOK
  <1>11. k \in Frame
    BY <1>2, <1>3, IdleFrame DEF Frame, WaitFrame
  <1>12. /\ k.pc = "kernel" /\ k.s = "OK" /\ k.node = n /\ ~k.completed /\ k.ready = <<>>
         /\ k.inline = <<>> /\ k.rest = <<>>
    BY <1>2, <1>3, IdleFrame DEF Frame, WaitFrame
  <1>13. /\ Busy(k) /\ Waiting(k) = {} /\ Range(k.ready) = {} /\ Holds(k) = {n} /\ Counts(k) = {n}
    BY <1>12, EmptyRange DEF Busy, Waiting, Holds, Counts, Current
  <1>14. FrameOK(g, <<"done", n>>, k)
    BY <1>3, <1>12, <1>13, EmptyRange DEF FrameOK
  <1> QED BY <1>1, <1>2, <1>5, <1>6, <1>7, <1>9, <1>10, <1>11, <1>12, <1>13, <1>14 DEF Launched

LEMMA AsyncKeeps ==
    ASSUME NEW g \in Graphs, NEW D, ExecInv(g, D), NEW c \in Threads, ProcessAsync(c)
    PROVE  ExecInv(g, D)'
  <1>1. PICK f : f = thread[c]
    OBVIOUS
  <1>2. PICK n : n = Next1(c)
    OBVIOUS
  <1>3. f \in Frame /\ FrameOK(g, c, f) /\ f.pc = "loop" /\ f.inline # <<>> /\ n = Head(f.inline)
    BY <1>1, <1>2 DEF ExecInv, TypeOK, FramesInv, Next1, ProcessAsync, Looping
  <1>4. /\ n \in DOMAIN g.out /\ n \in Waiting(f) /\ n \in Nodes /\ c[1] = "process" /\ n \in Holds(f)
        /\ n \in Counts(f) /\ ~Busy(f) /\ f.ready = <<>>
    BY <1>3, PopFrame, GraphFacts, HoldsIs DEF Busy
  <1>5. PICK f2 : f2 = LaunchFrame(f)
    OBVIOUS
  <1>6. PICK k : k = WaitFrame(n)
    OBVIOUS
  <1>7. Launched(g, c, f, n, f2, k)
    BY <1>3, <1>5, <1>6, LaunchFrameOK
  <1>8. PICK a : a = <<"done", n>>
    OBVIOUS
  <1>9. a \in Threads /\ a # c /\ a[1] = "done" /\ a[2] = n
    BY <1>4, <1>8 DEF Threads
  <1>10. graph = g /\ thread \in [Threads -> Frame] /\ D \subseteq EdgesAll(g) /\ ReadyNode(g, D, n)
    BY <1>1, <1>4 DEF ExecInv, NodeInv, TypeOK
  <1>11. thread[a] = Idle
    <2>1. \A m \in Nodes : thread[<<"done", m>>].pc # "idle" => processed[m] = 1
      BY DEF ExecInv, NodeInv
    <2>2. thread[a].pc = "idle"
      BY <1>4, <1>8, <1>10, <2>1 DEF ReadyNode
    <2> QED BY <1>9, <2>2 DEF ExecInv, FramesInv, FrameOK
  <1>12. /\ thread' \in [Threads -> Frame] /\ thread'[c] = f2 /\ thread'[a] = k
         /\ \A d \in Threads : d # c /\ d # a => thread'[d] = thread[d]
    <2>1. thread' = [thread EXCEPT ![c] = f2, ![a] = k]
      BY <1>1, <1>2, <1>5, <1>6, <1>8 DEF ProcessAsync, Popped, LaunchFrame, WaitFrame
    <2>2. f2 \in Frame /\ k \in Frame
      BY <1>7 DEF Launched
    <2> QED BY <1>9, <1>10, <2>1, <2>2
  <1>13. /\ \A d \in Threads : d # c => n \notin Holds(thread[d])
         /\ \A t \in pool : n \notin Range(t)
    BY <1>1, <1>4, HeldOnce
  <1>14. n \in OutstandingNodes
    BY <1>1, <1>4, OutstandingIs
  <1>15. /\ num_outstanding_ops \in Nat \ {0} /\ Runs /\ ~deleted /\ started
         /\ finish_calls = 0 /\ finish.pc = "none" /\ ~finish_when_deferred_ops_done
         /\ \A d \in Threads : ~thread[d].completed
    BY <1>14, StillRuns
  <1>16. /\ processed' = [processed EXCEPT ![n] = processed[n] + 1] /\ processed[n] = 0 /\ full' = full
         /\ MayDefer(n)
    BY <1>2, <1>10 DEF ProcessAsync, Processes, ReadyNode
  <1>17. processed' \in [Nodes -> Nat] /\ processed'[n] = 1 /\ \A m \in Nodes : m # n => processed'[m] = processed[m]
    <2>1. processed[n] + 1 = 1 /\ 1 \in Nat /\ processed \in [Nodes -> Nat]
      BY <1>16 DEF ExecInv, TypeOK
    <2> QED BY <1>4, <1>16, <2>1
  <1>18. UNCHANGED <<step, pending, num_outstanding_ops, status, pool, ending, environment, failed>>
    BY DEF ProcessAsync
  <1>19. Idle.s = "OK" /\ Holds(Idle) = {} /\ Counts(Idle) = {} /\ Idle.pc = "idle" /\ ~Busy(Idle)
    BY <1>4, IdleFrame
  <1>20. TypeOK'
    <2>1. num_deferred_ops' \in Nat /\ finish_when_deferred_ops_done' \in BOOLEAN /\ deferred' \subseteq Nodes
      BY <1>4, <1>16 DEF MayDefer, counters, ExecInv, TypeOK
    <2> QED BY <1>12, <1>16, <1>17, <1>18, <2>1 DEF ExecInv, TypeOK, step, ending, environment
  <1>21. FramesInv(g)'
    BY <1>7, <1>8, <1>12 DEF ExecInv, FramesInv, Launched
  <1>22. PlaceInv(g)'
    <2>1. \A d \in Threads, m \in Nodes : m \in Holds(thread'[d]) =>
             IF m = n THEN d = a ELSE m \in Holds(thread[d])
      BY <1>1, <1>7, <1>12, <1>13 DEF Launched
    <2> QED BY <1>13, <1>18, <2>1 DEF ExecInv, PlaceInv
  <1>23. Accounting'
    <2>1. \A d \in Threads : \A m : m \in Counts(thread[d]) => \E b \in Threads : m \in Counts(thread'[b])
      BY <1>1, <1>7, <1>9, <1>11, <1>12, <1>19 DEF Launched
    <2>2. \A d \in Threads : \A m : m \in Counts(thread'[d]) => \E b \in Threads : m \in Counts(thread[b])
      BY <1>1, <1>4, <1>7, <1>12 DEF Launched
    <2>3. \A m : m \in OutstandingNodes' <=> m \in OutstandingNodes
      BY <1>18, <2>1, <2>2, OutstandingIs
    <2>4. OutstandingNodes' = OutstandingNodes
      BY <2>3
    <2> QED BY <1>18, <2>4 DEF ExecInv, Accounting
  <1>24. NodeInv(g, D)'
    <2>1. \A m : Held(m) => Held(m)'
      <3>1. \A d \in Threads : \A m : m \in Holds(thread[d]) => \E b \in Threads : m \in Holds(thread'[b])
        BY <1>1, <1>7, <1>9, <1>11, <1>12, <1>19 DEF Launched
      <3> QED BY <1>18, <3>1 DEF Held
    <2>2. \A m \in DOMAIN g.out : m \in Nodes
      BY GraphFacts
    <2>3. \A m \in DOMAIN g.out : m # n => ReadyNode(g, D, m)' = ReadyNode(g, D, m)
      BY <1>17, <2>2 DEF ReadyNode
    <2>4. ASSUME NEW m \in DOMAIN g.out
          PROVE  /\ pending'[m] = Cardinality(InputsOf(g, m) \ D)
                 /\ processed'[m] \in {0, 1}
                 /\ processed'[m] = 1 => InputsOf(g, m) \subseteq D
                 /\ Runs' /\ ReadyNode(g, D, m)' => Held(m)'
      BY <1>10, <1>15, <1>17, <1>18, <2>1, <2>2, <2>3 DEF ExecInv, NodeInv, ReadyNode
    <2>5. \A t \in pool' : \A m \in Range(t) : ReadyNode(g, D, m)'
      BY <1>13, <1>18, <2>3 DEF ExecInv, NodeInv, PlaceInv
    <2>6. \A d \in Threads : \A m \in Waiting(thread[d]) \cup Range(thread[d].ready) :
             m \in DOMAIN g.out /\ (d # c => m # n) /\ ReadyNode(g, D, m)
      BY <1>13, ReadyNodes
    <2>7. ASSUME NEW d \in Threads
          PROVE  /\ \A m \in Waiting(thread'[d]) \cup Range(thread'[d].ready) : ReadyNode(g, D, m)'
                 /\ Busy(thread'[d]) => processed'[thread'[d].node] = 1
      <3>1. CASE d = c
        <4>1. Waiting(f2) = Waiting(f) \ {n} /\ Range(f2.ready) = {} /\ ~Busy(f2)
          BY <1>7, EmptyRange DEF Launched, Busy
        <4> QED BY <1>1, <1>12, <2>3, <2>6, <3>1, <4>1
      <3>2. CASE d = a
        BY <1>7, <1>12, <1>17, <3>2, EmptyRange DEF Launched
      <3>3. CASE d # c /\ d # a
        <4>1. Busy(thread[d]) => thread[d].node # n /\ thread[d].node \in Nodes
          BY <1>13, <3>3, HoldsIs, HeldOnce
        <4> QED BY <1>12, <1>17, <2>3, <2>6, <3>3, <4>1 DEF ExecInv, NodeInv
      <3> QED BY <3>1, <3>2, <3>3
    <2>8. ASSUME NEW m \in Nodes
          PROVE  /\ thread'[<<"process", m>>].pc # "idle" =>
                       processed'[m] = 1 \/ m \in Range(thread'[<<"process", m>>].inline)
                 /\ thread'[<<"done", m>>].pc # "idle" => processed'[m] = 1
      <3>1. <<"process", m>> \in Threads /\ <<"done", m>> \in Threads
        BY DEF Threads
      <3>2. <<"done", m>> # c /\ <<"process", m>> # a
        BY <1>4, <1>9
      <3>3. processed[m] = 1 => processed'[m] = 1
        BY <1>16, <1>17
      <3>4. thread[<<"process", m>>].pc # "idle" =>
               processed[m] = 1 \/ m \in Range(thread[<<"process", m>>].inline)
        BY DEF ExecInv, NodeInv
      <3>5. thread'[<<"process", m>>].pc # "idle" =>
               processed'[m] = 1 \/ m \in Range(thread'[<<"process", m>>].inline)
        <4>1. CASE c = <<"process", m>>
          <5>1. Range(f2.inline) = Range(f.inline) \ {n}
            BY <1>7 DEF Launched
          <5> QED BY <1>1, <1>3, <1>12, <1>17, <3>3, <3>4, <4>1, <5>1
        <4>2. CASE c # <<"process", m>>
          BY <1>12, <3>1, <3>2, <3>3, <3>4, <4>2
        <4> QED BY <4>1, <4>2
      <3>6. thread'[<<"done", m>>].pc # "idle" => processed'[m] = 1
        <4>1. CASE m = n
          BY <1>17, <4>1
        <4>2. CASE m # n
          <5>1. <<"done", m>> # a
            BY <1>8, <4>2
          <5> QED BY <1>12, <3>1, <3>2, <3>3, <5>1 DEF ExecInv, NodeInv
        <4> QED BY <4>1, <4>2
      <3> QED BY <3>5, <3>6
    <2> QED BY <1>10, <1>18, <2>4, <2>5, <2>7, <2>8 DEF NodeInv, step
  <1>25. EdgeInv(g, D)'
    <2>1. \A e \in D : e[1] # n /\ e[1] \in Nodes
      BY <1>10, <1>16, EdgeFacts, GraphFacts DEF ExecInv, EdgeInv
    <2>2. \A e \in D : processed'[e[1]] = 1 /\ e[1] \notin failed'
      BY <1>17, <1>18, <2>1 DEF ExecInv, EdgeInv
    <2>3. \A e \in InputsOf(g, n) : DataEdge(g, e) => e \in full'
      BY <1>10, <1>16 DEF ExecInv, EdgeInv, ReadyNode, InputsOf
    <2>4. ASSUME NEW d \in Threads, NEW x, x = thread'[d]
          PROVE  /\ x.pc \in {"kernel", "write", "decrement"} => x.node \notin failed'
                 /\ x.pc = "kernel" =>
                       /\ \A e \in D : e[1] # x.node
                       /\ \A e \in InputsOf(g, x.node) : DataEdge(g, e) => e \in full'
                 /\ x.pc \in {"write", "decrement"} =>
                       \A i \in DOMAIN EdgesOf(g, x.node) : <<x.node, i>> \in D <=> i < x.edge
                 /\ x.pc = "decrement" /\ DataEdge(g, <<x.node, x.edge>>) => <<x.node, x.edge>> \in full'
                 /\ x.pc = "node_done" /\ x.s = "OK" =>
                       \A i \in DOMAIN EdgesOf(g, x.node) : <<x.node, i>> \in D
      <3>1. CASE d = c
        <4>1. x.pc = "loop"
          BY <1>7, <1>12, <2>4, <3>1 DEF Launched
        <4> QED BY <4>1
      <3>2. CASE d = a
        <4>1. x.pc = "kernel" /\ x.node = n
          BY <1>7, <1>12, <2>4, <3>2 DEF Launched
        <4>2. n \notin failed'
          BY <1>16, <1>18 DEF ExecInv, EdgeInv
        <4> QED BY <2>1, <2>3, <4>1, <4>2
      <3>3. CASE d # c /\ d # a
        BY <1>12, <1>16, <1>18, <2>4, <3>3 DEF ExecInv, EdgeInv
      <3> QED BY <3>1, <3>2, <3>3
    <2>5. ASSUME NEW m \in DOMAIN g.out, processed'[m] = 1
          PROVE  \/ status' # "OK"
                 \/ \E d \in Threads : Busy(thread'[d]) /\ thread'[d].node = m
                 \/ \A i \in DOMAIN EdgesOf(g, m) : <<m, i>> \in D
      <3>1. CASE m = n
        <4>1. Busy(k) /\ k.node = n
          BY <1>7 DEF Launched, Busy
        <4> QED BY <1>9, <1>12, <3>1, <4>1
      <3>2. CASE m # n
        <4>1. processed[m] = 1
          BY <1>17, <2>5, <3>2, GraphFacts
        <4>2. \A d \in Threads : Busy(thread[d]) => d # c /\ d # a
          BY <1>1, <1>4, <1>11, <1>19
        <4> QED BY <1>12, <1>18, <4>1, <4>2 DEF ExecInv, EdgeInv
      <3> QED BY <3>1, <3>2
    <2>6. ASSUME NEW e \in D, DataEdge(g, e), processed'[Target(g, e)] = 0 PROVE e \in full'
      <3>1. Target(g, e) \in Nodes /\ e \in EdgesAll(g)
        BY <1>10, EdgeFacts, GraphFacts
      <3>2. processed[Target(g, e)] = 0
        BY <1>17, <2>6, <3>1
      <3> QED BY <1>16, <2>6, <3>2 DEF ExecInv, EdgeInv
    <2>7. \A m \in failed' : processed'[m] = 1
      BY <1>16, <1>17, <1>18 DEF ExecInv, EdgeInv, TypeOK
    <2> QED BY <2>2, <2>4, <2>5, <2>6, <2>7 DEF EdgeInv
  <1>26. StatusInv'
    <2>1. ASSUME NEW d \in Threads, NEW x, x = thread'[d]
          PROVE  /\ x.s # "OK" => failed' # {}
                 /\ x.s # "OK" /\ ~Busy(x) => status' # "OK"
                 /\ x.pc \in {"abort", "cancel", "error"} => status' # "OK" /\ x.s # "OK"
                 /\ x.s # "DERIVED"
      <3>1. CASE d = c \/ d = a
        BY <1>7, <1>12, <2>1, <3>1 DEF Launched
      <3>2. CASE d # c /\ d # a
        BY <1>12, <1>18, <2>1, <3>2 DEF ExecInv, StatusInv
      <3> QED BY <3>1, <3>2
    <2>2. ASSUME NEW m \in failed
          PROVE  \/ status' # "OK"
                 \/ \E d \in Threads : Busy(thread'[d]) /\ thread'[d].node = m /\ thread'[d].s # "OK"
      <3>1. \A d \in Threads : Busy(thread[d]) => d # c /\ d # a
        BY <1>1, <1>4, <1>11, <1>19
      <3> QED BY <1>12, <1>18, <3>1 DEF ExecInv, StatusInv
    <2> QED BY <1>18, <2>1, <2>2 DEF ExecInv, StatusInv, environment, ending
  <1>27. FinishInv'
    <2>1. num_deferred_ops' = Cardinality(deferred') /\ \A m \in deferred' : processed'[m] = 1
      BY <1>4, <1>16, <1>17, Deferring DEF ExecInv, TypeOK, FinishInv
    <2>2. \A d \in Threads : ~thread'[d].completed
      BY <1>1, <1>7, <1>12, <1>15 DEF Launched
    <2>3. finish_when_deferred_ops_done' = finish_when_deferred_ops_done
      BY <1>16 DEF MayDefer, counters
    <2> QED BY <1>15, <1>18, <2>1, <2>2, <2>3 DEF ExecInv, FinishInv, ending, step, Runs
  <1>28. ReportInv'
    BY <1>15, <1>18 DEF ExecInv, ReportInv, Runs, step, ending
  <1> QED BY <1>20, <1>21, <1>22, <1>23, <1>24, <1>25, <1>26, <1>27, <1>28 DEF ExecInv

-----------------------------------------------------------------------------
(* PropagateOutputs has counted edge e = <<f.node, f.edge>> into w; `fresh' *)
(* says whether it was the last one w waited for.                           *)
CountedFrame(g, f, w, fresh) ==
    [f EXCEPT !.pc = EdgeStep(g, f.node, f.edge + 1), !.edge = f.edge + 1,
              !.ready = IF fresh THEN Append(f.ready, w) ELSE f.ready]

Decremented(g, c, f, w, fresh, f2) ==
    /\ f2 \in Frame /\ FrameOK(g, c, f2) /\ Busy(f2) /\ f2.node = f.node /\ f2.s = "OK"
    /\ f2.edge = f.edge + 1 /\ f2.pc = EdgeStep(g, f.node, f.edge + 1)
    /\ f2.completed = f.completed /\ f2.inline = f.inline
    /\ Waiting(f2) = Waiting(f) /\ Counts(f2) = Counts(f)
    /\ Range(f2.ready) = Range(f.ready) \cup (IF fresh THEN {w} ELSE {})
    /\ Holds(f2) = Holds(f) \cup (IF fresh THEN {w} ELSE {})

LEMMA CountedFrameOK ==
    ASSUME NEW g \in Graphs, NEW c \in Threads, NEW f \in Frame, FrameOK(g, c, f),
           f.pc = "decrement", NEW w \in DOMAIN g.out, w \notin Holds(f), NEW fresh \in BOOLEAN
    PROVE  Decremented(g, c, f, w, fresh, CountedFrame(g, f, w, fresh))
  <1>1. PICK f2 : f2 = CountedFrame(g, f, w, fresh)
    OBVIOUS
  <1>2. /\ f.node \in Nodes /\ f.edge \in Nat /\ f.ready \in Seq(Nodes) /\ f.s = "OK" /\ Busy(f)
        /\ f.node \in DOMAIN g.out /\ w \in Nodes /\ w \notin Range(f.ready) /\ w \notin Waiting(f)
        /\ w # f.node
    BY FrameFields, HoldsIs, GraphFacts DEF FrameOK, Busy
  <1>3. f.edge + 1 \in Nat \ {0}
    BY <1>2
  <1>4. /\ EdgeStep(g, f.node, f.edge + 1) \in {"write", "decrement", "node_done"}
        /\ EdgeStep(g, f.node, f.edge + 1) \in {"write", "decrement"} => f.edge + 1 \in DOMAIN EdgesOf(g, f.node)
        /\ EdgeStep(g, f.node, f.edge + 1) = "write" => DataEdge(g, <<f.node, f.edge + 1>>)
    BY <1>2, <1>3, AtEdgeFrame
  <1>5. PICK r : r = IF fresh THEN Append(f.ready, w) ELSE f.ready
    OBVIOUS
  <1>6. /\ r \in Seq(Nodes) /\ Range(r) = Range(f.ready) \cup (IF fresh THEN {w} ELSE {}) /\ IsInjective(r)
    BY <1>2, <1>5, AppendRange DEF FrameOK
  <1>7. f2 \in Frame
    BY <1>1, <1>3, <1>4, <1>5, <1>6 DEF Frame, CountedFrame
  <1>8. /\ f2.pc = EdgeStep(g, f.node, f.edge + 1) /\ f2.node = f.node /\ f2.edge = f.edge + 1 /\ f2.s = "OK"
        /\ f2.ready = r /\ f2.inline = f.inline /\ f2.rest = f.rest /\ f2.completed = f.completed
    BY <1>1, <1>2, <1>5 DEF Frame, CountedFrame
  <1>9. Busy(f2) /\ Waiting(f2) = Waiting(f)
    BY <1>4, <1>8 DEF Busy, Waiting
  <1>10. /\ Counts(f2) = Counts(f) /\ Holds(f2) = Holds(f) \cup (IF fresh THEN {w} ELSE {})
    BY <1>2, <1>4, <1>6, <1>8, <1>9 DEF Counts, Holds, Current
  <1>11. FrameOK(g, c, f2)
    <2>1. Waiting(f2) \cap Range(f2.ready) = {} /\ f2.node \notin Waiting(f2) \cup Range(f2.ready)
      BY <1>2, <1>6, <1>8, <1>9 DEF FrameOK
    <2>2. Holds(f2) \subseteq DOMAIN g.out
      BY <1>10 DEF FrameOK
    <2>3. /\ IsInjective(f2.inline) /\ IsInjective(f2.rest) /\ IsInjective(f2.ready)
          /\ Range(f2.inline) \cap Range(f2.rest) = {}
      BY <1>6, <1>8 DEF FrameOK
    <2>4. /\ c[1] = "done" => f2.inline = <<>> /\ f2.rest = <<>> /\ f2.node = c[2]
          /\ c[1] = "process" => f2.pc # "kernel"
      BY <1>2, <1>4, <1>8 DEF FrameOK
    <2> QED BY <1>4, <1>8, <1>9, <2>1, <2>2, <2>3, <2>4 DEF FrameOK
  <1> QED BY <1>1, <1>6, <1>7, <1>8, <1>9, <1>10, <1>11 DEF Decremented

(* One input less to wait for.                                             *)
LEMMA CountedInputs ==
    ASSUME NEW g \in Graphs, NEW D, NEW w, NEW e \in InputsOf(g, w), e \notin D, NEW E, E = D \cup {e}
    PROVE  /\ Cardinality(InputsOf(g, w) \ E) = Cardinality(InputsOf(g, w) \ D) - 1
           /\ Cardinality(InputsOf(g, w) \ D) \in Nat \ {0}
           /\ Cardinality(InputsOf(g, w) \ D) = 1 => InputsOf(g, w) \subseteq E
           /\ InputsOf(g, w) \subseteq E => Cardinality(InputsOf(g, w) \ D) = 1
  <1> DEFINE S == InputsOf(g, w) \ D
             T == InputsOf(g, w) \ E
  <1>1. IsFiniteSet(S) /\ e \in S /\ T = S \ {e}
    BY EdgeFacts, FS_Subset
  <1>2. IsFiniteSet(T) /\ Cardinality(T) = Cardinality(S) - 1 /\ Cardinality(S) \in Nat /\ Cardinality(T) \in Nat
    BY <1>1, FS_RemoveElement, FS_CardinalityType
  <1>3. Cardinality(T) = 0 <=> T = {}
    BY <1>2, FS_EmptySet
  <1>4. T = {} <=> InputsOf(g, w) \subseteq E
    OBVIOUS
  <1>8. Cardinality(S) # 0
    BY <1>2
  <1> HIDE DEF S, T
  <1>9. Cardinality(S) = 1 <=> T = {}
    BY <1>2, <1>3
  <1> QED BY <1>2, <1>4, <1>8, <1>9 DEF S, T

LEMMA DecrementKeeps ==
    ASSUME NEW g \in Graphs, NEW D, ExecInv(g, D), NEW c \in Threads, thread[c].pc = "decrement",
           PropagateOutputs(c)
    PROVE  \E E \in SUBSET EdgesAll(g) : ExecInv(g, E)'
  <1>1. PICK f : f = thread[c]
    OBVIOUS
  <1>2. PICK n : n = f.node
    OBVIOUS
  <1>3. PICK e : e = <<n, f.edge>>
    OBVIOUS
  <1>4. PICK w : w = Target(g, e)
    OBVIOUS
  <1>5. PICK E : E = D \cup {e}
    OBVIOUS
  <1>6. PICK fresh \in BOOLEAN : fresh <=> pending[w] = 1
    OBVIOUS
  <1>7. PICK f2 : f2 = CountedFrame(g, f, w, fresh)
    OBVIOUS
  <1>8. /\ f \in Frame /\ FrameOK(g, c, f) /\ f.pc = "decrement" /\ f.s = "OK" /\ Busy(f) /\ n \in DOMAIN g.out
        /\ f.edge \in DOMAIN EdgesOf(g, n) /\ f.edge \in Nat /\ n \in Holds(f)
    BY <1>1, <1>2, FrameFields, HoldsIs DEF ExecInv, TypeOK, FramesInv, FrameOK, Busy
  <1>9. graph = g /\ thread \in [Threads -> Frame] /\ D \subseteq EdgesAll(g)
    BY DEF ExecInv, NodeInv, TypeOK
  <1>10. /\ e[1] = n /\ e[2] = f.edge /\ e \in EdgesAll(g) /\ w \in DOMAIN g.out /\ w \in Nodes /\ e \in InputsOf(g, w)
         /\ E \subseteq EdgesAll(g)
    BY <1>3, <1>4, <1>5, <1>8, <1>9, EdgeFacts, GraphFacts DEF InputsOf
  <1>11. /\ processed[n] = 1 /\ e \notin D /\ n \notin failed
         /\ \A i \in DOMAIN EdgesOf(g, n) : <<n, i>> \in D <=> i < f.edge
    BY <1>1, <1>2, <1>3, <1>8 DEF ExecInv, NodeInv, EdgeInv
  <1>12. processed[w] = 0
    BY <1>10, <1>11 DEF ExecInv, NodeInv
  <1>13. \A d \in Threads : w \notin Holds(thread[d])
    <2> SUFFICES ASSUME NEW d \in Threads, w \in Holds(thread[d]) PROVE FALSE
      OBVIOUS
    <2>1. w \in Waiting(thread[d]) \cup Range(thread[d].ready) => ReadyNode(g, D, w)
      BY DEF ExecInv, NodeInv
    <2>2. Busy(thread[d]) /\ w = thread[d].node => processed[w] = 1
      BY DEF ExecInv, NodeInv
    <2> QED BY <1>10, <1>11, <1>12, <2>1, <2>2 DEF Holds, Current, ReadyNode
  <1>14. \A t \in pool : w \notin Range(t)
    BY <1>10, <1>11 DEF ExecInv, NodeInv, ReadyNode
  <1>15. ~Held(w)
    BY <1>13, <1>14 DEF Held
  <1>16. Decremented(g, c, f, w, fresh, f2)
    BY <1>1, <1>7, <1>8, <1>10, <1>13, CountedFrameOK
  <1>17. /\ thread' = [thread EXCEPT ![c] = f2] /\ pending' = [pending EXCEPT ![w] = pending[w] - 1]
         /\ full' = full
    <2>1. Dst(f) = w
      BY <1>2, <1>3, <1>4, <1>8, <1>9, GraphIs DEF Dst, Target
    <2>2. AtEdge(n, f.edge + 1) = EdgeStep(g, n, f.edge + 1)
      <3>1. f.edge + 1 \in Nat
        BY <1>8
      <3> QED BY <1>8, <1>9, <3>1, AtEdgeIs
    <2>3. Advance(Counted(f)) = f2
      <3>1. CASE fresh
        <4>1. Counted(f) = [f EXCEPT !.ready = Append(f.ready, w)]
          BY <1>6, <2>1, <3>1 DEF Counted, LastPending
        <4> QED BY <1>2, <1>7, <1>8, <2>2, <3>1, <4>1 DEF Advance, CountedFrame, Frame
      <3>2. CASE ~fresh
        <4>1. Counted(f) = f
          BY <1>6, <2>1, <3>2 DEF Counted, LastPending
        <4> QED BY <1>2, <1>7, <1>8, <2>2, <3>2, <4>1 DEF Advance, CountedFrame, Frame
      <3> QED BY <3>1, <3>2
    <2> QED BY <1>1, <1>8, <2>1, <2>3 DEF PropagateOutputs, CountDown
  <1>18. UNCHANGED <<step, num_outstanding_ops, status, pool, counters, ending, environment, history>>
    BY DEF PropagateOutputs
  <1>19. Replaces(c, f2)
    BY <1>16, <1>17 DEF Replaces, Decremented
  <1>20. /\ thread' \in [Threads -> Frame] /\ thread'[c] = f2
         /\ \A d \in Threads : d # c => thread'[d] = thread[d]
    BY <1>9, <1>19, Replaced
  <1>21. n \in OutstandingNodes
    BY <1>1, <1>2, <1>8, OutstandingIs, HoldsIs
  <1>22. /\ Runs /\ finish_calls = 0 /\ finish.pc = "none"
         /\ \A d \in Threads : ~thread[d].completed
    BY <1>21, StillRuns
  <1>23. /\ Cardinality(InputsOf(g, w) \ E) = Cardinality(InputsOf(g, w) \ D) - 1
         /\ Cardinality(InputsOf(g, w) \ D) \in Nat \ {0}
         /\ Cardinality(InputsOf(g, w) \ D) = 1 <=> InputsOf(g, w) \subseteq E
    <2>1. Cardinality(InputsOf(g, w) \ E) = Cardinality(InputsOf(g, w) \ D) - 1
      BY <1>5, <1>10, <1>11, CountedInputs
    <2>2. Cardinality(InputsOf(g, w) \ D) \in Nat \ {0}
      BY <1>10, <1>11, CountedInputs
    <2>3. Cardinality(InputsOf(g, w) \ D) = 1 <=> InputsOf(g, w) \subseteq E
      BY <1>5, <1>10, <1>11, CountedInputs
    <2> QED BY <2>1, <2>2, <2>3
  <1>24. /\ \A m : m # w => InputsOf(g, m) \ E = InputsOf(g, m) \ D
         /\ \A m : m # w => (InputsOf(g, m) \subseteq E <=> InputsOf(g, m) \subseteq D)
    <2>1. \A m : m # w => e \notin InputsOf(g, m)
      BY <1>4 DEF InputsOf
    <2> QED BY <1>5, <2>1
  <1>25. pending \in [Nodes -> Nat] /\ pending[w] = Cardinality(InputsOf(g, w) \ D)
    BY <1>10 DEF ExecInv, NodeInv, TypeOK
  <1>26. /\ pending' \in [Nodes -> Nat] /\ pending'[w] = Cardinality(InputsOf(g, w) \ E)
         /\ \A m \in Nodes : m # w => pending'[m] = pending[m]
    <2>1. pending[w] - 1 \in Nat
      BY <1>23, <1>25
    <2> QED BY <1>10, <1>17, <1>23, <1>25, <2>1
  <1>30. TypeOK'
    BY <1>17, <1>18, <1>20, <1>26 DEF ExecInv, TypeOK, step, ending, environment, history, counters
  <1>31. FramesInv(g)'
    BY <1>9, <1>16, <1>19, FramesStay DEF ExecInv, Decremented
  <1>32. PlaceInv(g)'
    <2>1. PlaceInv(g) /\ \A m \in Holds(f2) : m \in Holds(thread[c]) \/ ~Held(m)
      BY <1>1, <1>15, <1>16 DEF ExecInv, Decremented
    <2> QED BY <1>9, <1>18, <1>19, <2>1, PlacesStay
  <1>33. Accounting'
    <2>1. PlaceInv(g) /\ FramesInv(g) /\ Accounting /\ Counts(f2) = Counts(thread[c])
      BY <1>1, <1>16 DEF ExecInv, Decremented
    <2> QED BY <1>9, <1>18, <1>19, <2>1, CountStays
  <1>34. NodeInv(g, E)'
    <2>1. \A m : Held(m) => Held(m)'
      <3>1. Holds(thread[c]) \subseteq Holds(f2) /\ pool' = pool
        BY <1>1, <1>16, <1>18 DEF Decremented
      <3> QED BY <1>20, <3>1 DEF Held
    <2>2. fresh => Held(w)'
      BY <1>16, <1>20 DEF Held, Decremented
    <2>3. processed' = processed /\ (Runs' <=> Runs)
      BY <1>18 DEF history, Runs, step, ending
    <2>4. \A m : m # w => (ReadyNode(g, E, m)' <=> ReadyNode(g, D, m))
      BY <1>24, <2>3 DEF ReadyNode
    <2>5. ReadyNode(g, E, w)' <=> fresh
      BY <1>6, <1>12, <1>23, <1>25, <2>3 DEF ReadyNode
    <2>6. ~ReadyNode(g, D, w)
      BY <1>10, <1>11 DEF ReadyNode
    <2>7. \A m : ReadyNode(g, D, m) => ReadyNode(g, E, m)'
      BY <2>4, <2>6
    <2>8. ASSUME NEW m \in DOMAIN g.out
          PROVE  /\ pending'[m] = Cardinality(InputsOf(g, m) \ E)
                 /\ processed'[m] \in {0, 1}
                 /\ processed'[m] = 1 => InputsOf(g, m) \subseteq E
                 /\ Runs' /\ ReadyNode(g, E, m)' => Held(m)'
      <3>1. CASE m = w
        BY <1>12, <1>26, <2>2, <2>3, <2>5, <3>1
      <3>2. CASE m # w
        <4>1. m \in Nodes
          BY GraphFacts
        <4>2. pending'[m] = Cardinality(InputsOf(g, m) \ E)
          BY <1>24, <1>26, <3>2, <4>1 DEF ExecInv, NodeInv
        <4>3. processed'[m] \in {0, 1} /\ (processed'[m] = 1 => InputsOf(g, m) \subseteq E)
          BY <1>24, <2>3, <3>2 DEF ExecInv, NodeInv
        <4>4. Runs' /\ ReadyNode(g, E, m)' => Held(m)'
          BY <2>1, <2>3, <2>4, <3>2 DEF ExecInv, NodeInv
        <4> QED BY <4>2, <4>3, <4>4
      <3> QED BY <3>1, <3>2
    <2>9. \A t \in pool' : \A m \in Range(t) : ReadyNode(g, E, m)'
      BY <1>18, <2>7 DEF ExecInv, NodeInv
    <2>10. ASSUME NEW d \in Threads
           PROVE  /\ \A m \in Waiting(thread'[d]) \cup Range(thread'[d].ready) : ReadyNode(g, E, m)'
                  /\ Busy(thread'[d]) => processed'[thread'[d].node] = 1
      <3>1. /\ \A m \in Waiting(thread[d]) \cup Range(thread[d].ready) : ReadyNode(g, E, m)'
            /\ Busy(thread[d]) => processed[thread[d].node] = 1
        BY <2>7 DEF ExecInv, NodeInv
      <3>2. CASE d = c
        <4>1. /\ Waiting(f2) = Waiting(f) /\ Range(f2.ready) = Range(f.ready) \cup (IF fresh THEN {w} ELSE {})
              /\ f2.node = n
          BY <1>2, <1>16 DEF Decremented
        <4> QED BY <1>1, <1>11, <1>20, <2>3, <2>5, <3>1, <3>2, <4>1
      <3>3. CASE d # c
        BY <1>20, <2>3, <3>1, <3>3
      <3> QED BY <3>2, <3>3
    <2>11. ASSUME NEW m \in Nodes
           PROVE  /\ thread'[<<"process", m>>].pc # "idle" =>
                        processed'[m] = 1 \/ m \in Range(thread'[<<"process", m>>].inline)
                  /\ thread'[<<"done", m>>].pc # "idle" => processed'[m] = 1
      <3>1. <<"process", m>> \in Threads /\ <<"done", m>> \in Threads
        BY DEF Threads
      <3>2. f2.inline = f.inline /\ f.pc # "idle"
        BY <1>8, <1>16 DEF Decremented
      <3> QED BY <1>1, <1>20, <2>3, <3>1, <3>2 DEF ExecInv, NodeInv
    <2>12. graph' = g
      BY <1>9, <1>18 DEF step
    <2> QED BY <1>10, <2>8, <2>9, <2>10, <2>11, <2>12 DEF NodeInv
  <1>35. EdgeInv(g, E)'
    <2>0. processed' = processed /\ failed' = failed /\ status' = status
      BY <1>18 DEF history
    <2>1. \A x \in E : processed'[x[1]] = 1 /\ x[1] \notin failed'
      BY <1>5, <1>10, <1>11, <2>0 DEF ExecInv, EdgeInv
    <2>2. \A m, i : <<m, i>> \in E <=> (<<m, i>> \in D \/ (m = n /\ i = f.edge))
      BY <1>3, <1>5
    <2>3. \A d \in Threads : d # c /\ Busy(thread[d]) => thread[d].node # n
      <3>1. \A d \in Threads : d # c => n \notin Holds(thread[d])
        BY <1>1, <1>8, HeldOnce
      <3> QED BY <3>1, HoldsIs
    <2>4. ASSUME NEW d \in Threads, NEW x, x = thread'[d]
          PROVE  /\ x.pc \in {"kernel", "write", "decrement"} => x.node \notin failed'
                 /\ x.pc = "kernel" =>
                       /\ \A y \in E : y[1] # x.node
                       /\ \A y \in InputsOf(g, x.node) : DataEdge(g, y) => y \in full'
                 /\ x.pc \in {"write", "decrement"} =>
                       \A i \in DOMAIN EdgesOf(g, x.node) : <<x.node, i>> \in E <=> i < x.edge
                 /\ x.pc = "decrement" /\ DataEdge(g, <<x.node, x.edge>>) => <<x.node, x.edge>> \in full'
                 /\ x.pc = "node_done" /\ x.s = "OK" =>
                       \A i \in DOMAIN EdgesOf(g, x.node) : <<x.node, i>> \in E
      <3>1. CASE d = c
        <4>1. x.node = n /\ x.edge = f.edge + 1 /\ x.pc = EdgeStep(g, n, f.edge + 1)
          BY <1>2, <1>16, <1>20, <2>4, <3>1 DEF Decremented
        <4>2. \A i \in DOMAIN EdgesOf(g, n) : /\ i \in Nat /\ i <= Len(EdgesOf(g, n))
                                             /\ <<n, i>> \in E <=> i < f.edge + 1
          <5>1. \A i \in DOMAIN EdgesOf(g, n) : i \in Nat /\ i <= Len(EdgesOf(g, n))
            BY <1>8, GraphFacts
          <5> QED BY <1>8, <1>11, <2>2, <5>1
        <4>3. f.edge + 1 \in Nat \ {0}
          BY <1>8
        <4>4. /\ x.pc \in {"write", "decrement", "node_done"}
              /\ x.pc = "decrement" => ~DataEdge(g, <<n, f.edge + 1>>)
              /\ x.pc = "node_done" => f.edge + 1 > Len(EdgesOf(g, n))
          BY <1>8, <4>1, <4>3, AtEdgeFrame
        <4>5. Len(EdgesOf(g, n)) \in Nat
          BY <1>8, GraphFacts
        <4>6. x.pc = "node_done" => \A i \in DOMAIN EdgesOf(g, n) : <<n, i>> \in E
          BY <4>2, <4>3, <4>4, <4>5
        <4> QED BY <1>11, <2>0, <4>1, <4>2, <4>4, <4>6
      <3>2. CASE d # c
        <4>1. x = thread[d]
          BY <1>20, <2>4, <3>2
        <4>2. Busy(x) => x.node # n
          BY <2>3, <3>2, <4>1
        <4>3. Busy(x) => \A i : <<x.node, i>> \in E <=> <<x.node, i>> \in D
          BY <2>2, <4>2
        <4>4. x.pc = "kernel" => \A y \in E : y[1] # x.node
          BY <1>5, <1>10, <4>1, <4>2 DEF ExecInv, EdgeInv, Busy
        <4>5. x.pc = "kernel" => \A y \in InputsOf(g, x.node) : DataEdge(g, y) => y \in full'
          BY <1>17, <4>1 DEF ExecInv, EdgeInv
        <4>6. x.pc \in {"write", "decrement"} =>
                 \A i \in DOMAIN EdgesOf(g, x.node) : <<x.node, i>> \in E <=> i < x.edge
          BY <4>1, <4>3 DEF ExecInv, EdgeInv, Busy
        <4>7. x.pc = "decrement" /\ DataEdge(g, <<x.node, x.edge>>) => <<x.node, x.edge>> \in full'
          BY <1>17, <4>1 DEF ExecInv, EdgeInv
        <4>8. x.pc = "node_done" /\ x.s = "OK" =>
                 \A i \in DOMAIN EdgesOf(g, x.node) : <<x.node, i>> \in E
          BY <4>1, <4>3 DEF ExecInv, EdgeInv, Busy
        <4>9. x.pc \in {"kernel", "write", "decrement"} => x.node \notin failed'
          BY <2>0, <4>1 DEF ExecInv, EdgeInv
        <4> QED BY <4>4, <4>5, <4>6, <4>7, <4>8, <4>9
      <3> QED BY <3>1, <3>2
    <2>5. ASSUME NEW m \in DOMAIN g.out, processed'[m] = 1
          PROVE  \/ status' # "OK"
                 \/ \E d \in Threads : Busy(thread'[d]) /\ thread'[d].node = m
                 \/ \A i \in DOMAIN EdgesOf(g, m) : <<m, i>> \in E
      <3>1. CASE m = n
        BY <1>2, <1>16, <1>20, <3>1 DEF Decremented
      <3>2. CASE m # n
        <4>1. \A d \in Threads : thread[d].node = m => d # c
          BY <1>1, <1>2, <3>2
        <4> QED BY <1>20, <2>0, <2>2, <2>5, <4>1 DEF ExecInv, EdgeInv
      <3> QED BY <3>1, <3>2
    <2>6. ASSUME NEW y \in E, DataEdge(g, y), processed'[Target(g, y)] = 0 PROVE y \in full'
      <3>1. CASE y = e
        BY <1>1, <1>2, <1>3, <1>8, <1>17, <2>6, <3>1 DEF ExecInv, EdgeInv
      <3>2. CASE y \in D
        BY <1>17, <2>0, <2>6, <3>2 DEF ExecInv, EdgeInv
      <3> QED BY <1>5, <3>1, <3>2
    <2>7. \A m \in failed' : processed'[m] = 1
      BY <2>0 DEF ExecInv, EdgeInv
    <2> QED BY <2>1, <2>4, <2>5, <2>6, <2>7 DEF EdgeInv
  <1>36. StatusInv'
    <2>1. failed' = failed /\ status' = status
      BY <1>18 DEF history
    <2>2. ASSUME NEW d \in Threads, NEW x, x = thread'[d]
          PROVE  /\ x.s # "OK" => failed' # {}
                 /\ x.s # "OK" /\ ~Busy(x) => status' # "OK"
                 /\ x.pc \in {"abort", "cancel", "error"} => status' # "OK" /\ x.s # "OK"
                 /\ x.s # "DERIVED"
      <3>1. CASE d = c
        <4>1. f2.s = "OK" /\ f2.pc = EdgeStep(g, n, f.edge + 1)
          BY <1>2, <1>16 DEF Decremented
        <4>2. f2.pc \notin {"abort", "cancel", "error"}
          BY <4>1 DEF EdgeStep
        <4> QED BY <1>20, <2>2, <3>1, <4>1, <4>2
      <3>2. CASE d # c
        BY <1>20, <2>1, <2>2, <3>2 DEF ExecInv, StatusInv
      <3> QED BY <3>1, <3>2
    <2>3. ASSUME NEW m \in failed
          PROVE  \/ status' # "OK"
                 \/ \E d \in Threads : Busy(thread'[d]) /\ thread'[d].node = m /\ thread'[d].s # "OK"
      <3>1. \A d \in Threads : thread[d].s # "OK" => d # c
        BY <1>1, <1>8
      <3> QED BY <1>20, <2>1, <3>1 DEF ExecInv, StatusInv
    <2> QED BY <1>18, <2>1, <2>2, <2>3 DEF ExecInv, StatusInv, environment, ending
  <1>37. FinishInv'
    <2>1. \A d \in Threads : ~thread'[d].completed
      BY <1>1, <1>16, <1>20, <1>22 DEF Decremented
    <2> QED BY <1>18, <1>22, <2>1 DEF ExecInv, FinishInv, ending, step, Runs, counters, history
  <1>38. ReportInv'
    BY <1>18, <1>22 DEF ExecInv, ReportInv, Runs, step, ending
  <1>39. ExecInv(g, E)'
    BY <1>30, <1>31, <1>32, <1>33, <1>34, <1>35, <1>36, <1>37, <1>38 DEF ExecInv
  <1> QED BY <1>10, <1>39

-----------------------------------------------------------------------------
(* Steps that only move ready nodes between the pool and a thread that has  *)
(* no node in process, before or after.                                     *)
LEMMA MoveKeeps ==
    ASSUME NEW g \in Graphs, NEW D, ExecInv(g, D), NEW c \in Threads, NEW f, f = thread[c],
           NEW f2, Replaces(c, f2), ~Busy(f), ~Busy(f2), FrameOK(g, c, f2), TypeOK', PlaceInv(g)',
           UNCHANGED <<step, propagation, num_outstanding_ops, status, environment, history>>,
           \A t \in pool' : \A n \in Range(t) : ReadyNode(g, D, n),
           \A n \in Holds(f2) : ReadyNode(g, D, n),
           \A n : Held(n) => Held(n)',
           OutstandingNodes' = OutstandingNodes,
           c[1] = "process" /\ f2.pc # "idle" => processed[c[2]] = 1 \/ c[2] \in Range(f2.inline),
           c[1] = "done" /\ f2.pc # "idle" => processed[c[2]] = 1,
           f2.s = "OK" \/ f2.s = f.s, Runs' => Runs,
           finish'.pc = finish.pc \/ finish.pc = "none", FinishInv', ReportInv'
    PROVE  ExecInv(g, D)'
  <1>1. /\ thread' \in [Threads -> Frame] /\ thread'[c] = f2
        /\ \A d \in Threads : d # c => thread'[d] = thread[d]
    BY Replaced DEF ExecInv, TypeOK
  <1>2. FramesInv(g)'
    BY FramesStay DEF ExecInv, TypeOK
  <1>3. Accounting'
    BY DEF ExecInv, Accounting
  <1>4. processed' = processed /\ failed' = failed /\ pending' = pending /\ full' = full /\ graph' = graph
    BY DEF history, propagation, step
  <1>5. NodeInv(g, D)'
    <2>1. \A m : ReadyNode(g, D, m)' <=> ReadyNode(g, D, m)
      BY <1>4 DEF ReadyNode
    <2>2. ASSUME NEW m \in DOMAIN g.out
          PROVE  /\ pending'[m] = Cardinality(InputsOf(g, m) \ D)
                 /\ processed'[m] \in {0, 1}
                 /\ processed'[m] = 1 => InputsOf(g, m) \subseteq D
                 /\ Runs' /\ ReadyNode(g, D, m)' => Held(m)'
      <3>1. Runs /\ ReadyNode(g, D, m) => Held(m)
        BY DEF ExecInv, NodeInv
      <3>2. Runs' /\ ReadyNode(g, D, m)' => Held(m)'
        BY <2>1, <3>1
      <3> QED BY <1>4, <3>2 DEF ExecInv, NodeInv
    <2>3. \A t \in pool' : \A m \in Range(t) : ReadyNode(g, D, m)'
      BY <2>1
    <2>4. ASSUME NEW d \in Threads
          PROVE  /\ \A m \in Waiting(thread'[d]) \cup Range(thread'[d].ready) : ReadyNode(g, D, m)'
                 /\ Busy(thread'[d]) => processed'[thread'[d].node] = 1
      <3>1. CASE d = c
        BY <1>1, <2>1, <3>1, HoldsIs
      <3>2. CASE d # c
        BY <1>1, <1>4, <2>1, <3>2 DEF ExecInv, NodeInv
      <3> QED BY <3>1, <3>2
    <2>5. ASSUME NEW m \in Nodes
          PROVE  /\ thread'[<<"process", m>>].pc # "idle" =>
                       processed'[m] = 1 \/ m \in Range(thread'[<<"process", m>>].inline)
                 /\ thread'[<<"done", m>>].pc # "idle" => processed'[m] = 1
      <3>1. <<"process", m>> \in Threads /\ <<"done", m>> \in Threads
        BY DEF Threads
      <3>2. thread'[<<"process", m>>].pc # "idle" =>
               processed'[m] = 1 \/ m \in Range(thread'[<<"process", m>>].inline)
        <4>1. CASE c = <<"process", m>>
          BY <1>1, <1>4, <4>1
        <4>2. CASE c # <<"process", m>>
          BY <1>1, <1>4, <3>1, <4>2 DEF ExecInv, NodeInv
        <4> QED BY <4>1, <4>2
      <3>3. thread'[<<"done", m>>].pc # "idle" => processed'[m] = 1
        <4>1. CASE c = <<"done", m>>
          BY <1>1, <1>4, <4>1
        <4>2. CASE c # <<"done", m>>
          BY <1>1, <1>4, <3>1, <4>2 DEF ExecInv, NodeInv
        <4> QED BY <4>1, <4>2
      <3> QED BY <3>2, <3>3
    <2> QED BY <1>4, <2>2, <2>3, <2>4, <2>5 DEF ExecInv, NodeInv
  <1>6. \A d \in Threads : Busy(thread[d]) => d # c /\ thread'[d] = thread[d]
    BY <1>1
  <1>7. EdgeInv(g, D)'
    <2>1. \A e \in D : processed'[e[1]] = 1 /\ e[1] \notin failed'
      BY <1>4 DEF ExecInv, EdgeInv
    <2>2. ASSUME NEW d \in Threads, NEW x, x = thread'[d]
          PROVE  /\ x.pc \in {"kernel", "write", "decrement"} => x.node \notin failed'
                 /\ x.pc = "kernel" =>
                       /\ \A e \in D : e[1] # x.node
                       /\ \A e \in InputsOf(g, x.node) : DataEdge(g, e) => e \in full'
                 /\ x.pc \in {"write", "decrement"} =>
                       \A i \in DOMAIN EdgesOf(g, x.node) : <<x.node, i>> \in D <=> i < x.edge
                 /\ x.pc = "decrement" /\ DataEdge(g, <<x.node, x.edge>>) => <<x.node, x.edge>> \in full'
                 /\ x.pc = "node_done" /\ x.s = "OK" =>
                       \A i \in DOMAIN EdgesOf(g, x.node) : <<x.node, i>> \in D
      <3>1. CASE d = c
        <4>1. x.pc \in {"idle", "loop", "schedule"}
          BY <1>1, <2>2, <3>1 DEF Busy
        <4> QED BY <4>1
      <3>2. CASE d # c
        BY <1>1, <1>4, <2>2, <3>2 DEF ExecInv, EdgeInv
      <3> QED BY <3>1, <3>2
    <2>3. ASSUME NEW m \in DOMAIN g.out, processed'[m] = 1
          PROVE  \/ status' # "OK"
                 \/ \E d \in Threads : Busy(thread'[d]) /\ thread'[d].node = m
                 \/ \A i \in DOMAIN EdgesOf(g, m) : <<m, i>> \in D
      BY <1>4, <1>6, <2>3 DEF ExecInv, EdgeInv
    <2>4. \A e \in D : DataEdge(g, e) /\ processed'[Target(g, e)] = 0 => e \in full'
      BY <1>4 DEF ExecInv, EdgeInv
    <2>5. \A m \in failed' : processed'[m] = 1
      BY <1>4 DEF ExecInv, EdgeInv
    <2> QED BY <2>1, <2>2, <2>3, <2>4, <2>5 DEF EdgeInv
  <1>8. StatusInv'
    <2>1. ASSUME NEW d \in Threads, NEW x, x = thread'[d]
          PROVE  /\ x.s # "OK" => failed' # {}
                 /\ x.s # "OK" /\ ~Busy(x) => status' # "OK"
                 /\ x.pc \in {"abort", "cancel", "error"} => status' # "OK" /\ x.s # "OK"
                 /\ x.s # "DERIVED"
      <3>1. CASE d = c
        <4>1. x.pc \in {"idle", "loop", "schedule"} /\ (x.s = "OK" \/ x.s = f.s)
          BY <1>1, <2>1, <3>1 DEF Busy
        <4>2. f.s # "OK" => failed' # {} /\ status' # "OK" /\ f.s # "DERIVED"
          BY <1>4 DEF ExecInv, StatusInv
        <4> QED BY <4>1, <4>2
      <3>2. CASE d # c
        BY <1>1, <1>4, <2>1, <3>2 DEF ExecInv, StatusInv
      <3> QED BY <3>1, <3>2
    <2>2. ASSUME NEW m \in failed
          PROVE  \/ status' # "OK"
                 \/ \E d \in Threads : Busy(thread'[d]) /\ thread'[d].node = m /\ thread'[d].s # "OK"
      BY <1>6 DEF ExecInv, StatusInv
    <2>3. cancelled' => \/ foreign_cancel' \/ status' # "OK"
                       \/ finish'.pc \in {"delete", "call", "end"}
      BY DEF ExecInv, StatusInv, environment
    <2> QED BY <1>4, <2>1, <2>2, <2>3 DEF ExecInv, StatusInv, environment
  <1> QED BY <1>2, <1>3, <1>5, <1>7, <1>8 DEF ExecInv

(* The closures N have the nodes R, each in one of them.                   *)
Handed(N, R) ==
    /\ \A u \in N : u \in Seq(Nodes) /\ u # <<>> /\ IsInjective(u) /\ Range(u) \subseteq R
    /\ \A u, v \in N, n \in Nodes : n \in Range(u) /\ n \in Range(v) => u = v
    /\ \A n \in R : \E u \in N : n \in Range(u)

(* Some of the nodes of thread c go to new closures N of the pool.         *)
LEMMA SpreadPlaces ==
    ASSUME NEW g \in Graphs, NEW D, ExecInv(g, D), NEW c \in Threads, NEW f, f = thread[c],
           NEW f2, Replaces(c, f2), NEW N, pool' = pool \cup N, Holds(f2) \subseteq Holds(f),
           NEW R, Handed(N, R), R \subseteq Holds(f), R \cap Holds(f2) = {}
    PROVE  PlaceInv(g)'
  <1>0. /\ \A u \in N : /\ IsInjective(u) /\ Range(u) \subseteq Holds(f)
                       /\ \A n \in Range(u) : n \notin Holds(f2)
        /\ \A u, v \in N, n \in Nodes : n \in Range(u) /\ n \in Range(v) => u = v
    BY DEF Handed
  <1>1. /\ thread' \in [Threads -> Frame] /\ thread'[c] = f2
        /\ \A d \in Threads : d # c => thread'[d] = thread[d]
    BY Replaced DEF ExecInv, TypeOK
  <1>2. \A n \in Holds(f) : /\ n \in DOMAIN g.out /\ \A d \in Threads : d # c => n \notin Holds(thread[d])
                            /\ \A t \in pool : n \notin Range(t)
    BY HeldOnce
  <1>3. PlaceInv(g)
    BY DEF ExecInv
  <1>4. \A t \in pool' : IsInjective(t) /\ Range(t) \subseteq DOMAIN g.out
    BY <1>0, <1>2, <1>3 DEF PlaceInv
  <1>5. \A t, u \in pool', n \in Nodes : n \in Range(t) /\ n \in Range(u) => t = u
    BY <1>0, <1>2, <1>3 DEF PlaceInv
  <1>6. \A t \in pool', d \in Threads, n \in Nodes : ~ (n \in Range(t) /\ n \in Holds(thread'[d]))
    <2> SUFFICES ASSUME NEW t \in pool', NEW d \in Threads, NEW n \in Nodes,
                        n \in Range(t), n \in Holds(thread'[d])
                 PROVE  FALSE
      OBVIOUS
    <2>1. CASE d = c
      BY <1>0, <1>1, <1>2, <2>1
    <2>2. CASE d # c /\ t \in pool
      BY <1>1, <1>3, <2>2 DEF PlaceInv
    <2>3. CASE d # c /\ t \in N
      BY <1>0, <1>1, <1>2, <2>3
    <2> QED BY <2>1, <2>2, <2>3
  <1>7. \A b, d \in Threads, n \in Nodes : n \in Holds(thread'[b]) /\ n \in Holds(thread'[d]) => b = d
    BY <1>1, <1>2, <1>3 DEF PlaceInv
  <1> QED BY <1>4, <1>5, <1>6, <1>7 DEF PlaceInv

-----------------------------------------------------------------------------
(* ScheduleReady: il is the new inline_ready, N are the new closures.      *)
ScheduledFrame(f, il) ==
    [f EXCEPT !.pc = "loop", !.ready = <<>>, !.inline = il, !.completed = FALSE]

Scheduled(g, c, f, il, f2) ==
    /\ f2 \in Frame /\ FrameOK(g, c, f2) /\ f2.pc = "loop" /\ f2.s = f.s /\ f2.inline = il
    /\ f2.completed = FALSE /\ ~Busy(f2) /\ ~Busy(f)
    /\ Holds(f2) = Range(il) \cup Range(f.rest) /\ Counts(f2) = Holds(f2)
    /\ Holds(f) = Range(f.inline) \cup Range(f.rest) \cup Range(f.ready) /\ Counts(f) = Holds(f)
    /\ Range(f.rest) \cap Range(f.ready) = {} /\ Range(f.rest) \cap Range(il) = {}

LEMMA ScheduledFrameOK ==
    ASSUME NEW g \in Graphs, NEW c \in Threads, NEW f \in Frame, FrameOK(g, c, f), f.pc = "schedule",
           NEW il \in Seq(Nodes), IsInjective(il), Range(il) \subseteq Range(f.inline) \cup Range(f.ready),
           c[1] = "done" => il = <<>>
    PROVE  Scheduled(g, c, f, il, ScheduledFrame(f, il))
  <1>1. PICK f2 : f2 = ScheduledFrame(f, il)
    OBVIOUS
  <1>2. f2 \in Frame
    <2>1. <<>> \in Seq(Nodes)
      BY EmptyRange
    <2> QED BY <1>1, <2>1 DEF ScheduledFrame, Frame
  <1>3. /\ f2.pc = "loop" /\ f2.s = f.s /\ f2.inline = il /\ f2.completed = FALSE /\ f2.ready = <<>>
        /\ f2.rest = f.rest
    BY <1>1 DEF ScheduledFrame, Frame
  <1>4. ~Busy(f2) /\ ~Busy(f)
    BY <1>3 DEF Busy
  <1>5. Range(f2.ready) = {} /\ IsInjective(f2.ready)
    BY <1>3, EmptyRange
  <1>6. Holds(f2) = Range(il) \cup Range(f.rest) /\ Counts(f2) = Holds(f2) /\ Waiting(f2) = Holds(f2)
    BY <1>3, <1>4, <1>5 DEF Holds, Counts, Waiting, Current
  <1>7. Holds(f) = Range(f.inline) \cup Range(f.rest) \cup Range(f.ready) /\ Counts(f) = Holds(f)
    BY <1>4 DEF Holds, Counts, Waiting, Current
  <1>8. Range(f.rest) \cap Range(f.ready) = {} /\ Range(f.rest) \cap Range(f.inline) = {}
    BY DEF FrameOK, Waiting
  <1>9. Range(f.rest) \cap Range(il) = {}
    BY <1>8
  <1>10. FrameOK(g, c, f2)
    <2>1. Holds(f2) \subseteq DOMAIN g.out /\ IsInjective(f2.rest)
      BY <1>3, <1>6, <1>7 DEF FrameOK
    <2>2. c[1] = "done" => f2.inline = <<>> /\ f2.rest = <<>>
      BY <1>3 DEF FrameOK
    <2> QED BY <1>3, <1>4, <1>5, <1>6, <1>9, <2>1, <2>2 DEF FrameOK
  <1> QED BY <1>1, <1>2, <1>3, <1>4, <1>6, <1>7, <1>8, <1>9, <1>10 DEF Scheduled

LEMMA ScheduleStep ==
    ASSUME NEW g \in Graphs, NEW D, ExecInv(g, D), NEW c \in Threads, NEW f, f = thread[c],
           f.pc = "schedule", NEW il \in Seq(Nodes), IsInjective(il),
           Range(il) \subseteq Range(f.inline) \cup Range(f.ready), Range(f.inline) \subseteq Range(il),
           c[1] = "done" => il = <<>>, NEW N, pool' = pool \cup N,
           thread' = [thread EXCEPT ![c] = ScheduledFrame(f, il)],
           Handed(N, Range(f.ready) \ Range(il)),
           UNCHANGED <<step, propagation, num_outstanding_ops, status, counters, ending,
                       environment, history>>
    PROVE  ExecInv(g, D)'
  <1>1. PICK f2 : f2 = ScheduledFrame(f, il)
    OBVIOUS
  <1>2. f \in Frame /\ FrameOK(g, c, f) /\ f.ready # <<>> /\ f.ready \in Seq(Nodes)
    BY FrameFields DEF ExecInv, TypeOK, FramesInv, FrameOK
  <1>3. Scheduled(g, c, f, il, f2)
    BY <1>1, <1>2, ScheduledFrameOK
  <1>4. Replaces(c, f2)
    BY <1>1, <1>3 DEF Scheduled, Replaces
  <1>5. /\ thread' \in [Threads -> Frame] /\ thread'[c] = f2
        /\ \A d \in Threads : d # c => thread'[d] = thread[d]
    BY <1>4, Replaced DEF ExecInv, TypeOK
  <1>6. /\ Holds(f2) = Range(il) \cup Range(f.rest) /\ Counts(f2) = Holds(f2)
        /\ Holds(f) = Range(f.inline) \cup Range(f.rest) \cup Range(f.ready) /\ Counts(f) = Holds(f)
        /\ Range(f.rest) \cap Range(f.ready) = {} /\ ~Busy(f) /\ ~Busy(f2)
    BY <1>3 DEF Scheduled
  <1>7. Holds(f2) \subseteq Holds(f) /\ \A n \in Holds(f) : n \in Holds(f2) \/ \E u \in N : n \in Range(u)
    BY <1>6 DEF Handed
  <1>8. \A u \in N : IsInjective(u) /\ Range(u) \subseteq Holds(f) /\ \A n \in Range(u) : n \notin Holds(f2)
    BY <1>6 DEF Handed
  <1>9. PlaceInv(g)'
    <2>1. PICK R : R = Range(f.ready) \ Range(il)
      OBVIOUS
    <2>2. Handed(N, R) /\ R \subseteq Holds(f) /\ R \cap Holds(f2) = {}
      BY <1>6, <2>1
    <2> QED BY <1>4, <1>7, <2>2, SpreadPlaces
  <1>10. \A n \in Holds(f) : ReadyNode(g, D, n)
    BY <1>6 DEF ExecInv, NodeInv, Waiting
  <1>11. \A t \in pool' : \A n \in Range(t) : ReadyNode(g, D, n)
    BY <1>8, <1>10 DEF ExecInv, NodeInv
  <1>12. \A n : Held(n) => Held(n)'
    <2> SUFFICES ASSUME NEW n, Held(n) PROVE Held(n)'
      OBVIOUS
    <2>1. CASE \E t \in pool : n \in Range(t)
      BY <2>1 DEF Held
    <2>2. CASE n \in Holds(f)
      BY <1>5, <1>7, <2>2 DEF Held
    <2>3. CASE \E d \in Threads : d # c /\ n \in Holds(thread[d])
      BY <1>5, <2>3 DEF Held
    <2> QED BY <2>1, <2>2, <2>3 DEF Held
  <1>13. OutstandingNodes' = OutstandingNodes
    <2>1. ASSUME NEW n \in OutstandingNodes PROVE n \in OutstandingNodes'
      <3>1. CASE \E t \in pool : n \in Range(t)
        BY <3>1, OutstandingIs
      <3>2. CASE n \in Counts(f)
        BY <1>5, <1>6, <1>7, <3>2, OutstandingIs
      <3>3. CASE \E d \in Threads : d # c /\ n \in Counts(thread[d])
        BY <1>5, <3>3, OutstandingIs
      <3> QED BY <2>1, <3>1, <3>2, <3>3, OutstandingIs
    <2>2. ASSUME NEW n \in OutstandingNodes' PROVE n \in OutstandingNodes
      <3>1. CASE \E t \in pool : n \in Range(t)
        BY <3>1, OutstandingIs
      <3>2. CASE \E t \in N : n \in Range(t)
        BY <1>6, <1>8, <3>2, OutstandingIs
      <3>3. CASE \E d \in Threads : n \in Counts(thread'[d])
        BY <1>5, <1>6, <1>7, <3>3, OutstandingIs
      <3> QED BY <2>2, <3>1, <3>2, <3>3, OutstandingIs
    <2> QED BY <2>1, <2>2
  <1>14. PICK n \in Range(f.ready) : TRUE
    BY <1>2, EmptyRange
  <1>15. /\ num_outstanding_ops \in Nat \ {0} /\ Runs /\ ~deleted /\ started
         /\ finish_calls = 0 /\ finish.pc = "none" /\ ~finish_when_deferred_ops_done
         /\ \A d \in Threads : ~thread[d].completed
    <2>1. n \in OutstandingNodes
      BY <1>6, OutstandingIs
    <2> QED BY <2>1, StillRuns
  <1>16. TypeOK'
    BY <1>5 DEF ExecInv, TypeOK, step, propagation, counters, ending, environment, history, Handed
  <1>17. c[1] = "process" => processed[c[2]] = 1 \/ c[2] \in Range(f2.inline)
    <2>1. c[2] \in Nodes /\ (c[1] = "process" => c = <<"process", c[2]>>)
      BY DEF Threads
    <2>2. f2.inline = il
      BY <1>3 DEF Scheduled
    <2> QED BY <2>1, <2>2 DEF ExecInv, NodeInv
  <1>18. c[1] = "done" => processed[c[2]] = 1
    <2>1. c[2] \in Nodes /\ (c[1] = "done" => c = <<"done", c[2]>>)
      BY DEF Threads
    <2> QED BY <2>1 DEF ExecInv, NodeInv
  <1>19. FinishInv'
    <2>1. \A d \in Threads : ~thread'[d].completed
      BY <1>3, <1>5, <1>15 DEF Scheduled
    <2> QED BY <1>15, <2>1 DEF ExecInv, FinishInv, ending, step, Runs, counters, history
  <1>20. ReportInv'
    BY <1>15 DEF ExecInv, ReportInv, Runs, step, ending
  <1>21. FrameOK(g, c, f2) /\ f2.s = f.s
    BY <1>3 DEF Scheduled
  <1>22. \A m \in Holds(f2) : ReadyNode(g, D, m)
    BY <1>7, <1>10
  <1>23. finish'.pc = finish.pc /\ (Runs' => Runs)
    BY DEF ending, step, Runs
  <1> QED BY <1>4, <1>6, <1>9, <1>11, <1>12, <1>13, <1>16, <1>17, <1>18, <1>19, <1>20, <1>21, <1>22,
             <1>23, MoveKeeps

(* The closures that ScheduleReady hands over.                             *)
LEMMA SingleClosures ==
    ASSUME NEW R \in SUBSET Nodes, NEW N, N = {<<n>> : n \in R}
    PROVE  Handed(N, R)
  <1>1. \A n \in R : /\ <<n>> \in Seq(Nodes) /\ Range(<<n>>) = {n} /\ IsInjective(<<n>>)
                    /\ Len(<<n>>) = 1
    BY SingleRange
  <1>3. ASSUME NEW u \in N PROVE u \in Seq(Nodes) /\ u # <<>> /\ IsInjective(u) /\ Range(u) \subseteq R
    <2>1. PICK a \in R : u = <<a>>
      OBVIOUS
    <2>2. u \in Seq(Nodes) /\ Range(u) = {a} /\ IsInjective(u)
      BY <1>1, <2>1
    <2>3. u # <<>>
      BY <2>2, EmptyRange
    <2> QED BY <2>2, <2>3
  <1>4. ASSUME NEW u \in N, NEW v \in N, NEW n \in Nodes, n \in Range(u), n \in Range(v) PROVE u = v
    <2>1. PICK a \in R : u = <<a>>
      OBVIOUS
    <2>2. PICK b \in R : v = <<b>>
      OBVIOUS
    <2>3. n = a /\ n = b
      BY <1>1, <1>4, <2>1, <2>2
    <2> QED BY <2>1, <2>2, <2>3
  <1>5. ASSUME NEW n \in R PROVE \E u \in N : n \in Range(u)
    <2>1. <<n>> \in N /\ n \in Range(<<n>>)
      BY <1>1
    <2> QED BY <2>1
  <1> QED BY <1>3, <1>4, <1>5 DEF Handed

LEMMA ClosuresOf ==
    ASSUME NEW r \in Seq(Nodes), r # <<>>, IsInjective(r), NEW N, N = Closures(r)
    PROVE  Handed(N, Range(r))
  <1>1. CASE args.run_all_kernels_inline
    <2>1. N = {r}
      BY <1>1 DEF Closures
    <2> QED BY <2>1 DEF Handed
  <1>2. CASE ~args.run_all_kernels_inline
    <2>1. N = {<<n>> : n \in Range(r)} /\ Range(r) \in SUBSET Nodes
      BY <1>2, RangeIn DEF Closures, Singles
    <2> QED BY <2>1, SingleClosures
  <1> QED BY <1>1, <1>2

(* What goes to inline_ready.                                              *)
LEMMA InlinedIs ==
    ASSUME NEW r \in Seq(Nodes), r # <<>>, IsInjective(r), NEW i \in Seq(Nodes), IsInjective(i),
           Range(i) \cap Range(r) = {}, NEW X, NEW il, il = Inlined(r, i, X)
    PROVE  /\ il \in Seq(Nodes) /\ IsInjective(il)
           /\ Range(il) \subseteq Range(i) \cup Range(r) /\ Range(i) \subseteq Range(il)
  <1>1. CASE args.run_all_kernels_inline
    <2>1. il = i \o r
      BY <1>1 DEF Inlined
    <2> QED BY <2>1, CatRange
  <1>2. CASE ~args.run_all_kernels_inline
    <2>1. PICK q : q = Without(r, X)
      OBVIOUS
    <2>2. q \in Seq(Nodes) /\ IsInjective(q) /\ Range(q) = Range(r) \ X
      BY <2>1, WithoutIs
    <2>3. PICK p : p = i \o q
      OBVIOUS
    <2>4. p \in Seq(Nodes) /\ Range(p) = Range(i) \cup Range(q) /\ IsInjective(p)
      BY <2>2, <2>3, CatRange
    <2>5. CASE p = <<>>
      <3>1. il = <<Last(r)>>
        BY <1>2, <2>1, <2>3, <2>5 DEF Inlined
      <3>2. Last(r) \in Range(r) /\ Last(r) \in Nodes
        <4>1. Len(r) \in 1 .. Len(r) /\ Last(r) = r[Len(r)]
          BY DEF Last
        <4> QED BY <4>1, RangeIn
      <3>3. il \in Seq(Nodes) /\ Range(il) = {Last(r)} /\ IsInjective(il)
        BY <3>1, <3>2, SingleRange
      <3>4. Range(i) = {}
        BY <2>4, <2>5, EmptyRange
      <3> QED BY <3>2, <3>3, <3>4
    <2>6. CASE p # <<>>
      <3>1. il = p
        BY <1>2, <2>1, <2>3, <2>6 DEF Inlined
      <3> QED BY <2>2, <2>4, <3>1
    <2> QED BY <2>5, <2>6
  <1> QED BY <1>1, <1>2

LEMMA ScheduleKeeps ==
    ASSUME NEW g \in Graphs, NEW D, ExecInv(g, D), NEW c \in Threads, ScheduleReady(c)
    PROVE  ExecInv(g, D)'
  <1>1. PICK f : f = thread[c]
    OBVIOUS
  <1>2. /\ f \in Frame /\ FrameOK(g, c, f) /\ f.pc = "schedule"
        /\ f.ready \in Seq(Nodes) /\ f.inline \in Seq(Nodes)
    BY <1>1, FrameFields DEF ExecInv, TypeOK, FramesInv, ScheduleReady
  <1>3. /\ f.ready # <<>> /\ IsInjective(f.ready) /\ IsInjective(f.inline)
        /\ Range(f.inline) \cap Range(f.ready) = {} /\ (c[1] = "done" => f.inline = <<>>)
    BY <1>2 DEF FrameOK, Waiting
  <1>4. UNCHANGED <<step, propagation, num_outstanding_ops, status, counters, ending,
                    environment, history>>
    BY DEF ScheduleReady
  <1>5. CASE c[1] = "done"
    <2>1. PICK N : N = Closures(f.ready)
      OBVIOUS
    <2>2. pool' = pool \cup N /\ thread' = [thread EXCEPT ![c] = ScheduledFrame(f, <<>>)]
      BY <1>1, <1>5, <2>1 DEF ScheduleReady, ScheduledFrame
    <2>3. Handed(N, Range(f.ready))
      BY <1>2, <1>3, <2>1, ClosuresOf
    <2>4. PICK il : il = f.inline
      OBVIOUS
    <2>5. il \in Seq(Nodes) /\ IsInjective(il) /\ Range(il) = {} /\ Range(f.inline) = {} /\ il = <<>>
      BY <1>3, <1>5, <2>4, EmptyRange
    <2>6. Range(f.ready) \ Range(il) = Range(f.ready)
      BY <2>5
    <2>7. Handed(N, Range(f.ready) \ Range(il))
      BY <2>3, <2>6
    <2>8. Range(il) \subseteq Range(f.inline) \cup Range(f.ready) /\ Range(f.inline) \subseteq Range(il)
      BY <2>5
    <2>9. thread' = [thread EXCEPT ![c] = ScheduledFrame(f, il)]
      BY <2>2, <2>5
    <2>10. pool' = pool \cup N /\ (c[1] = "done" => il = <<>>)
      BY <2>2, <2>5
    <2> QED BY <1>1, <1>2, <1>4, <2>5, <2>7, <2>8, <2>9, <2>10, ScheduleStep
  <1>6. CASE c[1] # "done"
    <2>1. PICK X \in ExpensiveNow(f.ready) :
             /\ thread' = [thread EXCEPT ![c] = ScheduledFrame(f, Inlined(f.ready, f.inline, X))]
             /\ pool' = pool \cup {<<n>> : n \in Range(f.ready) \ Range(Inlined(f.ready, f.inline, X))}
      BY <1>1, <1>6 DEF ScheduleReady, ScheduledFrame
    <2>2. PICK il : il = Inlined(f.ready, f.inline, X)
      OBVIOUS
    <2>3. /\ il \in Seq(Nodes) /\ IsInjective(il)
          /\ Range(il) \subseteq Range(f.inline) \cup Range(f.ready) /\ Range(f.inline) \subseteq Range(il)
      BY <1>2, <1>3, <2>2, InlinedIs
    <2>4. PICK N : N = {<<n>> : n \in Range(f.ready) \ Range(il)}
      OBVIOUS
    <2>5. Range(f.ready) \ Range(il) \in SUBSET Nodes
      BY <1>2, RangeIn
    <2>6. Handed(N, Range(f.ready) \ Range(il))
      BY <2>4, <2>5, SingleClosures
    <2>7. pool' = pool \cup N /\ thread' = [thread EXCEPT ![c] = ScheduledFrame(f, il)]
      BY <2>1, <2>2, <2>4
    <2> QED BY <1>1, <1>2, <1>4, <1>6, <2>3, <2>6, <2>7, ScheduleStep
  <1> QED BY <1>5, <1>6

-----------------------------------------------------------------------------
(* A thread begins the closure t.                                          *)
Begun(g, c, t, f2) ==
    /\ f2 \in Frame /\ FrameOK(g, c, f2) /\ f2.pc = "loop" /\ f2.s = "OK" /\ f2.completed = FALSE
    /\ ~Busy(f2) /\ Holds(f2) = Range(t) /\ Counts(f2) = Range(t) /\ Head(t) \in Range(f2.inline)
    /\ Head(t) \in Nodes /\ Head(t) \in Range(t)

LEMMA BeginFrameOK ==
    ASSUME NEW g \in Graphs, NEW c \in Threads, c[1] = "process", NEW t \in Seq(Nodes), t # <<>>,
           IsInjective(t), Range(t) \subseteq DOMAIN g.out
    PROVE  Begun(g, c, t, ProcessFrame(Head(t), Tail(t)))
  <1>1. PICK f2 : f2 = ProcessFrame(Head(t), Tail(t))
    OBVIOUS
  <1>2. /\ Head(t) \in Nodes /\ Tail(t) \in Seq(Nodes) /\ IsInjective(Tail(t))
        /\ Range(t) = {Head(t)} \cup Range(Tail(t)) /\ Head(t) \notin Range(Tail(t))
    BY PopRange
  <1>3. <<Head(t)>> \in Seq(Nodes) /\ Range(<<Head(t)>>) = {Head(t)} /\ IsInjective(<<Head(t)>>)
    BY <1>2, SingleRange
  <1>4. f2 \in Frame
    BY <1>1, <1>2, <1>3, IdleFrame DEF ProcessFrame, Frame
  <1>5. /\ f2.pc = "loop" /\ f2.s = "OK" /\ f2.completed = FALSE /\ f2.inline = <<Head(t)>>
        /\ f2.rest = Tail(t) /\ f2.ready = <<>>
    BY <1>1, <1>2, IdleFrame DEF ProcessFrame, Frame
  <1>6. ~Busy(f2) /\ Range(f2.ready) = {} /\ IsInjective(f2.ready)
    BY <1>5, EmptyRange DEF Busy
  <1>7. Waiting(f2) = Range(t) /\ Holds(f2) = Range(t) /\ Counts(f2) = Range(t)
    BY <1>2, <1>3, <1>5, <1>6 DEF Waiting, Holds, Counts, Current
  <1>8. FrameOK(g, c, f2)
    BY <1>2, <1>3, <1>5, <1>6, <1>7 DEF FrameOK
  <1> QED BY <1>1, <1>2, <1>3, <1>4, <1>5, <1>6, <1>7, <1>8 DEF Begun

LEMMA RunTaskKeeps ==
    ASSUME NEW g \in Graphs, NEW D, ExecInv(g, D), NEW t \in pool, RunTask(t)
    PROVE  ExecInv(g, D)'
  <1>1. PICK n : n = Head(t)
    OBVIOUS
  <1>2. PICK c : c = <<"process", n>>
    OBVIOUS
  <1>3. PICK f2 : f2 = ProcessFrame(Head(t), Tail(t))
    OBVIOUS
  <1>4. t \in Seq(Nodes) /\ t # <<>> /\ IsInjective(t) /\ Range(t) \subseteq DOMAIN g.out
    BY DEF ExecInv, TypeOK, PlaceInv
  <1>5. n \in Nodes
    BY <1>1, <1>4
  <1>6. c \in Threads /\ c[1] = "process" /\ c[2] = n
    BY <1>2, <1>5 DEF Threads
  <1>7. Begun(g, c, t, f2)
    BY <1>3, <1>4, <1>6, BeginFrameOK
  <1>8. n \in Range(t) /\ n \in Range(f2.inline)
    BY <1>1, <1>7 DEF Begun
  <1>9. ReadyNode(g, D, n) /\ \A m \in Range(t) : ReadyNode(g, D, m)
    BY <1>8 DEF ExecInv, NodeInv
  <1>10. thread[c] = Idle
    <2>1. thread[c].pc # "idle" => processed[n] = 1 \/ n \in Range(thread[c].inline)
      BY <1>2, <1>5 DEF ExecInv, NodeInv
    <2>2. n \notin Range(thread[c].inline)
      <3>1. n \notin Holds(thread[c])
        BY <1>5, <1>6, <1>8 DEF ExecInv, PlaceInv
      <3> QED BY <3>1, HoldsIs
    <2>3. thread[c].pc = "idle"
      BY <1>9, <2>1, <2>2 DEF ReadyNode
    <2> QED BY <1>6, <2>3 DEF ExecInv, FramesInv, FrameOK
  <1>11. PICK f : f = thread[c]
    OBVIOUS
  <1>12. Holds(f) = {} /\ Counts(f) = {} /\ ~Busy(f)
    BY <1>5, <1>10, <1>11, IdleFrame
  <1>13. /\ pool' = pool \ {t} /\ thread' = [thread EXCEPT ![c] = f2]
         /\ UNCHANGED <<step, propagation, num_outstanding_ops, status, counters, ending, environment, history>>
    BY <1>1, <1>2, <1>3 DEF RunTask
  <1>14. Replaces(c, f2)
    BY <1>6, <1>7, <1>13 DEF Replaces, Begun
  <1>15. /\ thread' \in [Threads -> Frame] /\ thread'[c] = f2
         /\ \A d \in Threads : d # c => thread'[d] = thread[d]
    BY <1>14, Replaced DEF ExecInv, TypeOK
  <1>16. /\ Holds(f2) = Range(t) /\ Counts(f2) = Range(t) /\ ~Busy(f2) /\ FrameOK(g, c, f2)
         /\ f2.s = "OK" /\ f2.completed = FALSE
    BY <1>7 DEF Begun
  <1>17. PlaceInv(g)'
    <2>1. /\ \A u \in pool, m \in Nodes : m \in Range(t) /\ m \in Range(u) => u = t
          /\ \A d \in Threads, m \in Nodes : ~(m \in Range(t) /\ m \in Holds(thread[d]))
      BY DEF ExecInv, PlaceInv
    <2>2. \A u \in pool' : IsInjective(u) /\ Range(u) \subseteq DOMAIN g.out
      BY <1>13 DEF ExecInv, PlaceInv
    <2>3. \A u, v \in pool', m \in Nodes : m \in Range(u) /\ m \in Range(v) => u = v
      BY <1>13 DEF ExecInv, PlaceInv
    <2>4. \A u \in pool', d \in Threads, m \in Nodes : ~ (m \in Range(u) /\ m \in Holds(thread'[d]))
      BY <1>13, <1>15, <1>16, <2>1 DEF ExecInv, PlaceInv
    <2>5. \A b, d \in Threads, m \in Nodes : m \in Holds(thread'[b]) /\ m \in Holds(thread'[d]) => b = d
      BY <1>15, <1>16, <2>1 DEF ExecInv, PlaceInv
    <2> QED BY <2>2, <2>3, <2>4, <2>5 DEF PlaceInv
  <1>18. \A m : Held(m) => Held(m)'
    <2> SUFFICES ASSUME NEW m, Held(m) PROVE Held(m)'
      OBVIOUS
    <2>1. CASE \E u \in pool : m \in Range(u)
      BY <1>6, <1>13, <1>15, <1>16, <2>1 DEF Held
    <2>2. CASE \E d \in Threads : m \in Holds(thread[d])
      BY <1>11, <1>12, <1>15, <2>2 DEF Held
    <2> QED BY <2>1, <2>2 DEF Held
  <1>19. OutstandingNodes' = OutstandingNodes
    <2>1. ASSUME NEW m \in OutstandingNodes PROVE m \in OutstandingNodes'
      <3>1. CASE \E u \in pool : m \in Range(u)
        BY <1>6, <1>13, <1>15, <1>16, <3>1, OutstandingIs
      <3>2. CASE \E d \in Threads : m \in Counts(thread[d])
        BY <1>11, <1>12, <1>15, <3>2, OutstandingIs
      <3> QED BY <2>1, <3>1, <3>2, OutstandingIs
    <2>2. ASSUME NEW m \in OutstandingNodes' PROVE m \in OutstandingNodes
      <3>1. CASE \E u \in pool' : m \in Range(u)
        BY <1>13, <3>1, OutstandingIs
      <3>2. CASE \E d \in Threads : m \in Counts(thread'[d])
        BY <1>15, <1>16, <3>2, OutstandingIs
      <3> QED BY <2>2, <3>1, <3>2, OutstandingIs
    <2> QED BY <2>1, <2>2
  <1>20. /\ num_outstanding_ops \in Nat \ {0} /\ Runs /\ ~deleted /\ started
         /\ finish_calls = 0 /\ finish.pc = "none" /\ ~finish_when_deferred_ops_done
         /\ \A d \in Threads : ~thread[d].completed
    <2>1. n \in OutstandingNodes
      BY <1>8, OutstandingIs
    <2> QED BY <2>1, StillRuns
  <1>21. TypeOK'
    BY <1>13, <1>15 DEF ExecInv, TypeOK, step, propagation, counters, ending, environment, history
  <1>22. FinishInv'
    <2>1. \A d \in Threads : ~thread'[d].completed
      BY <1>15, <1>16, <1>20
    <2> QED BY <1>13, <1>20, <2>1 DEF ExecInv, FinishInv, ending, step, Runs, counters, history
  <1>23. ReportInv'
    BY <1>13, <1>20 DEF ExecInv, ReportInv, Runs, step, ending
  <1>24. finish'.pc = finish.pc /\ (Runs' => Runs)
    BY <1>13 DEF ending, step, Runs
  <1>25. \A u \in pool' : \A m \in Range(u) : ReadyNode(g, D, m)
    BY <1>13 DEF ExecInv, NodeInv
  <1>26. /\ UNCHANGED <<step, propagation, num_outstanding_ops, status, environment, history>>
         /\ \A m \in Holds(f2) : ReadyNode(g, D, m)
    BY <1>9, <1>13, <1>16
  <1> QED BY <1>6, <1>8, <1>11, <1>12, <1>14, <1>16, <1>17, <1>18, <1>19, <1>21, <1>22, <1>23, <1>24, <1>25,
             <1>26, MoveKeeps

(* A call of Process returns.                                              *)
ReturnFrame(f) == IF f.rest = <<>> THEN Idle ELSE ProcessFrame(Head(f.rest), Tail(f.rest))

Returned(g, c, f, f2) ==
    /\ f2 \in Frame /\ FrameOK(g, c, f2) /\ f2.s = "OK" /\ ~f2.completed /\ ~Busy(f2) /\ ~Busy(f)
    /\ Holds(f2) = Holds(f) /\ Counts(f2) = Counts(f) /\ Holds(f) = Waiting(f)
    /\ c[1] = "done" => f2.pc = "idle"

LEMMA ReturnFrameOK ==
    ASSUME NEW g \in Graphs, NEW c \in Threads, NEW f \in Frame, FrameOK(g, c, f), f.pc = "loop",
           f.inline = <<>>
    PROVE  Returned(g, c, f, ReturnFrame(f))
  <1>1. PICK f2 : f2 = ReturnFrame(f)
    OBVIOUS
  <1>2. /\ f.rest \in Seq(Nodes) /\ IsInjective(f.rest) /\ f.ready = <<>> /\ ~Busy(f)
        /\ (c[1] = "done" => f.rest = <<>>)
    BY FrameFields DEF FrameOK, Busy
  <1>3. Holds(f) = Range(f.rest) /\ Counts(f) = Range(f.rest) /\ Waiting(f) = Range(f.rest)
    BY <1>2, EmptyRange DEF Holds, Counts, Waiting, Current
  <1>4. Range(f.rest) \subseteq DOMAIN g.out
    BY <1>3 DEF FrameOK
  <1>5. CASE f.rest = <<>>
    <2>1. PICK n \in Nodes : TRUE
      BY FrameFields
    <2>2. f2 = Idle /\ Range(f.rest) = {}
      BY <1>1, <1>5, EmptyRange DEF ReturnFrame
    <2>3. /\ f2 \in Frame /\ FrameOK(g, c, f2) /\ f2.s = "OK" /\ ~f2.completed /\ ~Busy(f2)
          /\ Holds(f2) = {} /\ Counts(f2) = {} /\ f2.pc = "idle"
      BY <2>2, IdleFrame
    <2> QED BY <1>1, <1>2, <1>3, <2>2, <2>3 DEF Returned
  <1>6. CASE f.rest # <<>>
    <2>1. c[1] = "process"
      BY <1>2, <1>6 DEF Threads
    <2>2. f2 = ProcessFrame(Head(f.rest), Tail(f.rest))
      BY <1>1, <1>6 DEF ReturnFrame
    <2>3. Begun(g, c, f.rest, f2)
      BY <1>2, <1>4, <1>6, <2>1, <2>2, BeginFrameOK
    <2> QED BY <1>1, <1>2, <1>3, <2>1, <2>3 DEF Returned, Begun
  <1> QED BY <1>5, <1>6

LEMMA ReturnKeeps ==
    ASSUME NEW g \in Graphs, NEW D, ExecInv(g, D), NEW c \in Threads, ProcessReturns(c)
    PROVE  ExecInv(g, D)'
  <1>1. PICK f : f = thread[c]
    OBVIOUS
  <1>2. PICK f2 : f2 = ReturnFrame(f)
    OBVIOUS
  <1>3. f \in Frame /\ FrameOK(g, c, f) /\ f.pc = "loop" /\ f.inline = <<>>
    BY <1>1 DEF ExecInv, TypeOK, FramesInv, ProcessReturns
  <1>4. Returned(g, c, f, f2)
    BY <1>2, <1>3, ReturnFrameOK
  <1>5. /\ f2 \in Frame /\ FrameOK(g, c, f2) /\ f2.s = "OK" /\ ~f2.completed /\ ~Busy(f2) /\ ~Busy(f)
        /\ Holds(f2) = Holds(f) /\ Counts(f2) = Counts(f) /\ Holds(f) = Waiting(f)
        /\ c[1] = "done" => f2.pc = "idle"
    BY <1>4 DEF Returned
  <1>6. /\ thread' = [thread EXCEPT ![c] = f2]
        /\ UNCHANGED <<step, propagation, num_outstanding_ops, status, pool, deleted, reported, environment, history>>
    BY <1>1, <1>2 DEF ProcessReturns, ReturnFrame
  <1>7. Replaces(c, f2)
    BY <1>5, <1>6 DEF Replaces
  <1>8. /\ thread' \in [Threads -> Frame] /\ thread'[c] = f2
        /\ \A d \in Threads : d # c => thread'[d] = thread[d]
    BY <1>7, Replaced DEF ExecInv, TypeOK
  <1>9. PlaceInv(g)'
    <2>1. thread \in [Threads -> Frame] /\ PlaceInv(g) /\ \A n \in Holds(f2) : n \in Holds(thread[c])
      BY <1>1, <1>5 DEF ExecInv, TypeOK
    <2> QED BY <1>6, <1>7, <2>1, PlacesStay
  <1>10. OutstandingNodes' = OutstandingNodes
    <2>1. /\ thread \in [Threads -> Frame] /\ FramesInv(g) /\ PlaceInv(g)
          /\ Counts(f2) = Counts(thread[c]) /\ Counts(thread[c]) \subseteq OutstandingNodes
      BY <1>1, <1>5, OutstandingIs DEF ExecInv, TypeOK
    <2> QED BY <1>6, <1>7, <2>1, OutstandingStay
  <1>11. \A n : Held(n) => Held(n)'
    <2>1. \A d \in Threads : Holds(thread'[d]) = Holds(thread[d])
      BY <1>1, <1>5, <1>8
    <2> QED BY <1>6, <2>1 DEF Held
  <1>12. Runs
    <2>1. ~Runs => thread[c] = Idle
      BY DEF ExecInv, FinishInv
    <2>2. Idle.pc = "idle"
      BY DEF Idle
    <2> QED BY <1>1, <1>3, <2>1, <2>2
  <1>13. \A n \in Holds(f2) : ReadyNode(g, D, n)
    BY <1>1, <1>5 DEF ExecInv, NodeInv
  <1>14. c[1] = "process" => processed[c[2]] = 1
    <2>1. c[2] \in Nodes /\ (c[1] = "process" => c = <<"process", c[2]>>)
      BY DEF Threads
    <2>2. Range(thread[c].inline) = {}
      BY <1>1, <1>3, EmptyRange
    <2> QED BY <1>1, <1>3, <2>1, <2>2 DEF ExecInv, NodeInv
  <1>15. \A t \in pool' : \A n \in Range(t) : ReadyNode(g, D, n)
    BY <1>6 DEF ExecInv, NodeInv
  <1>16. UNCHANGED <<step, propagation, num_outstanding_ops, status, environment, history>>
    BY <1>6
  <1>17. f.completed => /\ num_outstanding_ops = 0 /\ finish_calls = 0 /\ finish_when_deferred_ops_done = FALSE
                        /\ finish.pc = "none" /\ \A d \in Threads : d # c => ~thread[d].completed
    BY <1>1 DEF ExecInv, FinishInv, TypeOK
  <1>18. \A d \in Threads : thread'[d].completed => d # c /\ thread[d].completed
    BY <1>5, <1>8
  <1>19. started' = started /\ deleted' = deleted /\ deferred' = deferred /\ num_deferred_ops' = num_deferred_ops
         /\ processed' = processed /\ failed' = failed /\ reported' = reported
    BY <1>6 DEF step, history, ProcessReturns, ScheduleFinish, counters
  <1>20. ~f.completed =>
            UNCHANGED <<num_deferred_ops, finish_when_deferred_ops_done, deferred, finish, finish_calls>>
    BY <1>1 DEF ProcessReturns, counters
  <1>21. CASE ~f.completed
    <2>1. FinishInv'
      BY <1>6, <1>8, <1>12, <1>18, <1>19, <1>20, <1>21 DEF ExecInv, FinishInv, Runs
    <2>2. ReportInv'
      BY <1>6, <1>12, <1>19, <1>20, <1>21 DEF ExecInv, ReportInv, Runs, environment
    <2>3. TypeOK'
      BY <1>6, <1>8, <1>19, <1>20, <1>21 DEF ExecInv, TypeOK, step, propagation, environment, history
    <2>4. Runs' => Runs /\ finish'.pc = finish.pc
      BY <1>12, <1>20, <1>21
    <2>5. finish'.pc = finish.pc
      BY <1>20, <1>21
    <2> QED BY <1>1, <1>5, <1>7, <1>9, <1>10, <1>11, <1>12, <1>13, <1>14, <1>15, <1>16, <2>1, <2>2, <2>3,
               <2>5, MoveKeeps
  <1>22. CASE f.completed
    <2>1. ScheduleFinish
      BY <1>1, <1>22 DEF ProcessReturns
    <2>2. finish \in [pc : {"none", "begin", "refresh", "abort", "sync", "delete", "call", "end"}, status : Status]
      BY DEF ExecInv, TypeOK
    <2>3. \/ /\ num_deferred_ops > 0 /\ finish_when_deferred_ops_done' = TRUE /\ finish' = finish /\ finish_calls' = 0
          \/ /\ num_deferred_ops = 0 /\ finish_when_deferred_ops_done' = FALSE /\ finish'.pc = "begin"
             /\ finish' \in [pc : {"none", "begin", "refresh", "abort", "sync", "delete", "call", "end"},
                             status : Status]
             /\ finish_calls' = 1
      BY <1>17, <1>22, <2>1, <2>2 DEF ScheduleFinish, CallFinish, counters
    <2>4. ~deleted /\ started /\ num_deferred_ops \in Nat
      BY <1>12, <1>17, <1>22 DEF Runs, ExecInv, TypeOK
    <2>5. \A d \in Threads : ~thread'[d].completed
      BY <1>17, <1>18, <1>22
    <2>6. Runs'
      BY <1>19, <2>4 DEF Runs
    <2>7. FinishInv'
      <3>1. num_deferred_ops' = Cardinality(deferred') /\ \A n \in deferred' : processed'[n] = 1
        BY <1>19 DEF ExecInv, FinishInv
      <3>2. num_outstanding_ops' = 0 /\ ~deleted' /\ finish_calls' \in {0, 1}
        BY <1>6, <1>17, <1>19, <1>22, <2>3, <2>4
      <3>3. finish_when_deferred_ops_done' => (num_deferred_ops' = 0 <=> finish_calls' = 1)
        BY <1>19, <2>3, <2>4
      <3>4. /\ finish_calls' = 0 <=> finish'.pc = "none"
            /\ finish'.pc \notin {"call", "end"}
            /\ finish_calls' = 1 => num_deferred_ops' = 0
        BY <1>17, <1>19, <1>22, <2>3
      <3> QED BY <2>5, <2>6, <3>1, <3>2, <3>3, <3>4 DEF FinishInv
    <2>8. ReportInv'
      <3>1. reported = <<>>
        BY <1>12, <1>17, <1>22 DEF ExecInv, ReportInv
      <3>2. finish'.pc \in {"none", "begin"}
        BY <1>17, <1>22, <2>3
      <3> QED BY <1>19, <2>4, <2>6, <3>1, <3>2 DEF ReportInv
    <2>9. TypeOK'
      <3>1. finish_calls' \in Nat /\ finish_when_deferred_ops_done' \in BOOLEAN
            /\ finish' \in [pc : {"none", "begin", "refresh", "abort", "sync", "delete", "call", "end"},
                             status : Status]
        <4>1. CASE num_deferred_ops > 0
          <5>1. finish_when_deferred_ops_done' = TRUE /\ finish' = finish /\ finish_calls' = 0
            BY <2>3, <2>4, <4>1
          <5> QED BY <2>2, <5>1
        <4>2. CASE ~(num_deferred_ops > 0)
          <5>1. finish_when_deferred_ops_done' = FALSE /\ finish_calls' = 1
            BY <2>3, <4>2
          <5>2. finish' \in [pc : {"none", "begin", "refresh", "abort", "sync", "delete", "call", "end"},
                             status : Status]
            BY <2>3, <4>2
          <5> QED BY <5>1, <5>2
        <4> QED BY <4>1, <4>2
      <3> QED BY <1>6, <1>8, <1>19, <3>1 DEF ExecInv, TypeOK, step, propagation, environment, history
    <2>10. finish.pc = "none"
      BY <1>17, <1>22
    <2> QED BY <1>1, <1>5, <1>7, <1>9, <1>10, <1>11, <1>12, <1>13, <1>14, <1>15, <1>16, <2>7, <2>8, <2>9,
               <2>10, MoveKeeps
  <1> QED BY <1>21, <1>22

-----------------------------------------------------------------------------
(* RunAsync.                                                               *)
LEMMA RootsAre ==
    ASSUME NEW g \in Graphs, NEW D, ExecInv(g, D), ~started
    PROVE  /\ RootNodes \in Seq(Nodes) /\ IsInjective(RootNodes)
           /\ Range(RootNodes) = {n \in DOMAIN g.out : InputsOf(g, n) = {}}
           /\ Len(RootNodes) = Cardinality(Range(RootNodes))
           /\ D = {}
           /\ \A n \in DOMAIN g.out : ReadyNode(g, D, n) <=> n \in Range(RootNodes)
           /\ RootNodes = <<>> => DOMAIN g.out = {}
  <1> DEFINE R == {n \in DOMAIN g.out : InputsOf(g, n) = {}}
  <1>1. graph = g /\ ~Runs
    BY DEF ExecInv, NodeInv, Runs
  <1>2. RootNodes = SetToSeq(R)
    BY <1>1, GraphIs DEF RootNodes
  <1>3. IsFiniteSet(R) /\ R \subseteq Nodes
    BY GraphFacts, FS_Subset
  <1>4. /\ SetToSeq(R) \in Seq(R) /\ Range(SetToSeq(R)) = R
        /\ Len(SetToSeq(R)) = Cardinality(R) /\ IsInjective(SetToSeq(R))
    BY <1>3, ListOfSet
  <1>5. RootNodes \in Seq(Nodes)
    BY <1>2, <1>3, <1>4
  <1>6. \A n \in Nodes : processed[n] = 0
    BY <1>1 DEF ExecInv, FinishInv
  <1>7. D = {}
    <2>1. \A e \in D : processed[e[1]] = 1 /\ e[1] \in Nodes
      BY EdgeFacts, GraphFacts DEF ExecInv, EdgeInv, NodeInv
    <2> QED BY <1>6, <2>1
  <1>8. \A n \in DOMAIN g.out : ReadyNode(g, D, n) <=> n \in R
    BY <1>3, <1>6, <1>7, GraphFacts DEF ReadyNode
  <1>9. ASSUME RootNodes = <<>> PROVE DOMAIN g.out = {}
    <2>1. R = {}
      BY <1>2, <1>4, <1>9, EmptyRange
    <2>2. ASSUME DOMAIN g.out # {} PROVE FALSE
      <3>1. \A S \in SUBSET DOMAIN g.out : S # {} =>
               \E n \in S : \A m \in S : n \notin Range(g.out[m]) \cup Range(g.control[m])
        BY GraphsAssumption DEF Acyclic
      <3>2. PICK n \in DOMAIN g.out :
               \A m \in DOMAIN g.out : n \notin Range(g.out[m]) \cup Range(g.control[m])
        BY <2>2, <3>1
      <3>3. InputsOf(g, n) # {}
        BY <2>1
      <3>4. PICK e \in EdgesAll(g) : Target(g, e) = n
        BY <3>3 DEF InputsOf
      <3>5. e[1] \in DOMAIN g.out
        BY EdgeFacts
      <3>6. Target(g, e) \in Range(g.out[e[1]]) \cup Range(g.control[e[1]])
        BY TargetIn
      <3> QED BY <3>2, <3>4, <3>5, <3>6
    <2> QED BY <2>2
  <1> QED BY <1>2, <1>4, <1>5, <1>7, <1>8, <1>9

(* A step that leaves the nodes where they are.                            *)
LEMMA FixedKeeps ==
    ASSUME NEW g \in Graphs, NEW D, ExecInv(g, D),
           UNCHANGED <<graph, pending, full, status, pool, thread, processed, failed, num_outstanding_ops>>,
           Runs' => Runs
    PROVE  FramesInv(g)' /\ PlaceInv(g)' /\ NodeInv(g, D)' /\ EdgeInv(g, D)' /\ Accounting'
  <1>1. FramesInv(g)'
    BY DEF ExecInv, FramesInv
  <1>2. PlaceInv(g)'
    BY DEF ExecInv, PlaceInv
  <1>3. NodeInv(g, D)'
    <2>1. \A n : Held(n)' <=> Held(n)
      BY DEF Held
    <2>2. \A n : ReadyNode(g, D, n)' <=> ReadyNode(g, D, n)
      BY DEF ReadyNode
    <2>3. ASSUME NEW n \in DOMAIN g.out
          PROVE  /\ pending'[n] = Cardinality(InputsOf(g, n) \ D)
                 /\ processed'[n] \in {0, 1}
                 /\ processed'[n] = 1 => InputsOf(g, n) \subseteq D
                 /\ Runs' /\ ReadyNode(g, D, n)' => Held(n)'
      BY <2>1, <2>2 DEF ExecInv, NodeInv
    <2>4. /\ graph' = g /\ g \in Graphs /\ D \subseteq EdgesAll(g)
          /\ \A t \in pool' : \A n \in Range(t) : ReadyNode(g, D, n)'
          /\ \A c \in Threads :
                /\ \A n \in Waiting(thread'[c]) \cup Range(thread'[c].ready) : ReadyNode(g, D, n)'
                /\ Busy(thread'[c]) => processed'[thread'[c].node] = 1
          /\ \A n \in Nodes :
                /\ thread'[<<"process", n>>].pc # "idle" =>
                      processed'[n] = 1 \/ n \in Range(thread'[<<"process", n>>].inline)
                /\ thread'[<<"done", n>>].pc # "idle" => processed'[n] = 1
      BY <2>2 DEF ExecInv, NodeInv
    <2> QED BY <2>3, <2>4 DEF NodeInv
  <1>4. EdgeInv(g, D)'
    BY DEF ExecInv, EdgeInv
  <1>5. Accounting'
    <2>1. OutstandingNodes' = OutstandingNodes
      BY OutstandingIs
    <2> QED BY <2>1 DEF ExecInv, Accounting
  <1> QED BY <1>1, <1>2, <1>3, <1>4, <1>5

LEMMA FixedStatus ==
    ASSUME StatusInv, UNCHANGED <<status, thread, failed>>, foreign_cancel => foreign_cancel',
           cancelled' => \/ foreign_cancel' \/ status # "OK"
                         \/ finish'.pc \in {"delete", "call", "end"}
    PROVE  StatusInv'
  BY DEF StatusInv

LEMMA NothingToRunKeeps ==
    ASSUME NEW g \in Graphs, NEW D, ExecInv(g, D), ~started, started', NEW result \in Status,
           NothingToRun(result), result = "ERROR" \/ (result = "OK" /\ RootNodes = <<>>),
           UNCHANGED <<graph, args, propagation, status, thread, counters, finish, finish_calls,
                       environment, history>>
    PROVE  ExecInv(g, D)'
  <1>1. ~Runs /\ reported = <<>> /\ graph = g
    BY DEF Runs, ExecInv, ReportInv, NodeInv
  <1>2. finish_calls = 0 /\ finish.pc = "none" /\ ~finish_when_deferred_ops_done
    BY <1>1 DEF ExecInv, FinishInv
  <1>3. /\ deleted' = TRUE /\ reported' = <<result>>
        /\ UNCHANGED <<graph, pending, full, status, pool, thread, processed, failed, num_outstanding_ops>>
    BY <1>1 DEF NothingToRun, propagation, history
  <1>4. ~Runs'
    BY <1>2, <1>3 DEF Runs
  <1>5. FramesInv(g)' /\ PlaceInv(g)' /\ NodeInv(g, D)' /\ EdgeInv(g, D)' /\ Accounting'
    BY <1>3, <1>4, FixedKeeps
  <1>6. StatusInv'
    BY <1>3, FixedStatus DEF ExecInv, StatusInv, environment
  <1>7. TypeOK'
    <2>1. <<result>> \in Seq(Status)
      OBVIOUS
    <2> QED BY <1>3, <2>1 DEF ExecInv, TypeOK, counters, environment
  <1>8. FinishInv'
    <2>1. /\ num_deferred_ops' = num_deferred_ops /\ deferred' = deferred
          /\ finish_when_deferred_ops_done' = finish_when_deferred_ops_done
          /\ finish' = finish /\ finish_calls' = finish_calls
      BY DEF counters
    <2>2. \A c \in Threads : ~thread[c].completed
      BY <1>1 DEF ExecInv, FinishInv
    <2> QED BY <1>1, <1>2, <1>3, <1>4, <2>1, <2>2 DEF ExecInv, FinishInv
  <1>9. ReportInv'
    <2>1. result = "OK" => GraphNodes' = {}
      <3>1. RootNodes = <<>> => DOMAIN g.out = {}
        BY RootsAre
      <3>2. GraphNodes' = DOMAIN g.out
        BY <1>1, <1>3 DEF GraphNodes
      <3> QED BY <3>1, <3>2
    <2> QED BY <1>2, <1>3, <1>4, <2>1 DEF ReportInv
  <1> QED BY <1>5, <1>6, <1>7, <1>8, <1>9 DEF ExecInv

LEMMA RootsKeep ==
    ASSUME NEW g \in Graphs, NEW D, ExecInv(g, D), ~started, started' = TRUE, RootNodes # <<>>,
           num_outstanding_ops' = Len(RootNodes), pool' = Closures(RootNodes),
           UNCHANGED <<deleted, reported, graph, args, propagation, status, thread, counters, finish,
                       finish_calls, environment, history>>
    PROVE  ExecInv(g, D)'
  <1>1. ~Runs /\ reported = <<>> /\ graph = g /\ ~deleted
    BY DEF Runs, ExecInv, ReportInv, NodeInv
  <1>2. PICK r : r = RootNodes
    OBVIOUS
  <1>3. PICK N : N = Closures(r)
    OBVIOUS
  <1>4. /\ r \in Seq(Nodes) /\ IsInjective(r) /\ r # <<>>
        /\ Range(r) \subseteq DOMAIN g.out /\ Len(r) = Cardinality(Range(r))
        /\ \A n \in DOMAIN g.out : ReadyNode(g, D, n) <=> n \in Range(r)
    BY <1>2, RootsAre
  <1>5. Handed(N, Range(r))
    BY <1>3, <1>4, ClosuresOf
  <1>6. /\ pool' = N /\ num_outstanding_ops' = Len(r) /\ Len(r) \in Nat
        /\ UNCHANGED <<graph, pending, full, status, thread, processed, failed>>
        /\ finish_calls' = finish_calls /\ finish' = finish /\ ~deleted'
        /\ num_deferred_ops' = num_deferred_ops /\ deferred' = deferred
        /\ finish_when_deferred_ops_done' = finish_when_deferred_ops_done
    BY <1>1, <1>2, <1>3, <1>4 DEF propagation, history, counters
  <1>7. /\ finish_calls = 0 /\ finish.pc = "none" /\ ~finish_when_deferred_ops_done /\ Runs'
        /\ \A c \in Threads : ~thread[c].completed /\ thread[c] = Idle
        /\ pool = {} /\ deferred = {} /\ failed = {}
    BY <1>1, <1>6 DEF ExecInv, FinishInv, Runs
  <1>8. \A c \in Threads : Holds(thread'[c]) = {} /\ Counts(thread'[c]) = {}
    <2> TAKE c \in Threads
    <2>1. c[2] \in Nodes
      BY DEF Threads
    <2> QED BY <1>6, <1>7, <2>1, IdleFrame
  <1>9. /\ \A u \in N : u \in Seq(Nodes) /\ u # <<>> /\ IsInjective(u) /\ Range(u) \subseteq Range(r)
        /\ \A u, v \in N, n \in Nodes : n \in Range(u) /\ n \in Range(v) => u = v
        /\ \A n \in Range(r) : \E u \in N : n \in Range(u)
    BY <1>5 DEF Handed
  <1>10. FramesInv(g)'
    BY <1>6 DEF ExecInv, FramesInv
  <1>11. PlaceInv(g)'
    BY <1>4, <1>6, <1>8, <1>9 DEF PlaceInv
  <1>12. NodeInv(g, D)'
    <2>1. \A n : ReadyNode(g, D, n)' <=> ReadyNode(g, D, n)
      BY <1>6 DEF ReadyNode
    <2>2. \A n \in Range(r) : Held(n)'
      BY <1>6, <1>9 DEF Held
    <2>3. ASSUME NEW n \in DOMAIN g.out
          PROVE  /\ pending'[n] = Cardinality(InputsOf(g, n) \ D)
                 /\ processed'[n] \in {0, 1}
                 /\ processed'[n] = 1 => InputsOf(g, n) \subseteq D
                 /\ Runs' /\ ReadyNode(g, D, n)' => Held(n)'
      BY <1>4, <1>6, <2>1, <2>2 DEF ExecInv, NodeInv
    <2>4. \A t \in pool' : \A n \in Range(t) : ReadyNode(g, D, n)'
      BY <1>4, <1>6, <1>9, <2>1
    <2>5. /\ graph' = g /\ g \in Graphs /\ D \subseteq EdgesAll(g)
          /\ \A c \in Threads :
                /\ \A n \in Waiting(thread'[c]) \cup Range(thread'[c].ready) : ReadyNode(g, D, n)'
                /\ Busy(thread'[c]) => processed'[thread'[c].node] = 1
          /\ \A n \in Nodes :
                /\ thread'[<<"process", n>>].pc # "idle" =>
                      processed'[n] = 1 \/ n \in Range(thread'[<<"process", n>>].inline)
                /\ thread'[<<"done", n>>].pc # "idle" => processed'[n] = 1
      BY <1>6, <2>1 DEF ExecInv, NodeInv
    <2> QED BY <2>3, <2>4, <2>5 DEF NodeInv
  <1>13. EdgeInv(g, D)'
    BY <1>6 DEF ExecInv, EdgeInv
  <1>14. Accounting'
    <2>1. OutstandingNodes' = Range(r)
      BY <1>6, <1>8, <1>9, OutstandingIs
    <2> QED BY <1>4, <1>6, <2>1 DEF Accounting
  <1>15. StatusInv'
    BY <1>6, FixedStatus DEF ExecInv, StatusInv, environment
  <1>16. TypeOK'
    BY <1>6, <1>9 DEF ExecInv, TypeOK, environment
  <1>17. FinishInv'
    BY <1>6, <1>7 DEF ExecInv, FinishInv
  <1>18. ReportInv'
    BY <1>1, <1>6, <1>7 DEF ReportInv
  <1> QED BY <1>10, <1>11, <1>12, <1>13, <1>14, <1>15, <1>16, <1>17, <1>18 DEF ExecInv

LEMMA RunAsyncKeeps ==
    ASSUME NEW g \in Graphs, NEW D, ExecInv(g, D), RunAsync
    PROVE  ExecInv(g, D)'
  <1>1. /\ ~started /\ started' = TRUE
        /\ UNCHANGED <<graph, args, propagation, status, thread, counters, finish, finish_calls,
                       environment, history>>
    BY DEF RunAsync
  <1>2. "ERROR" \in Status /\ "OK" \in Status
    BY DEF Status
  <1>3. CASE NothingToRun("ERROR")
    BY <1>1, <1>2, <1>3, NothingToRunKeeps
  <1>4. CASE RootNodes = <<>> /\ NothingToRun("OK")
    BY <1>1, <1>2, <1>4, NothingToRunKeeps
  <1>5. CASE /\ RootNodes # <<>> /\ num_outstanding_ops' = Len(RootNodes)
             /\ pool' = Closures(RootNodes) /\ UNCHANGED <<deleted, reported>>
    BY <1>1, <1>5, RootsKeep
  <1> QED BY <1>3, <1>4, <1>5 DEF RunAsync

-----------------------------------------------------------------------------
(* Deferred ops, Finish, and the environment.                              *)
LEMMA DeferredKeeps ==
    ASSUME NEW g \in Graphs, NEW D, ExecInv(g, D), NEW n \in Nodes, DeferredDone(n)
    PROVE  ExecInv(g, D)'
  <1>1. /\ n \in deferred /\ num_deferred_ops' = num_deferred_ops - 1 /\ deferred' = deferred \ {n}
        /\ UNCHANGED <<graph, args, started, pending, full, status, pool, thread, processed, failed,
                       num_outstanding_ops, finish_when_deferred_ops_done, deleted, reported>>
        /\ UNCHANGED environment
    BY DEF DeferredDone, step, propagation, history
  <1>2. /\ num_deferred_ops \in Nat /\ num_deferred_ops = Cardinality(deferred) /\ IsFiniteSet(deferred)
    <2>1. deferred \subseteq Nodes
      BY DEF ExecInv, TypeOK
    <2> QED BY <2>1, GraphsAssumption, FS_Subset DEF ExecInv, TypeOK, FinishInv
  <1>3. num_deferred_ops' = Cardinality(deferred') /\ num_deferred_ops # 0 /\ num_deferred_ops' \in Nat
    <2>1. Cardinality(deferred \ {n}) = Cardinality(deferred) - 1
      BY <1>1, <1>2, FS_RemoveElement
    <2>2. num_deferred_ops # 0
      BY <1>1, <1>2, FS_EmptySet
    <2> QED BY <1>1, <1>2, <2>1, <2>2
  <1>4. Runs /\ finish_calls = 0 /\ finish.pc = "none" /\ ~deleted /\ started /\ Runs'
    <2>1. Runs /\ finish_calls = 0 /\ finish.pc = "none"
      BY <1>1, <1>3 DEF ExecInv, FinishInv
    <2> QED BY <1>1, <2>1 DEF Runs
  <1>5. /\ LastDeferred => finish_calls' = 1 /\ finish' = [finish EXCEPT !.pc = "begin"]
        /\ ~LastDeferred => finish_calls' = 0 /\ finish' = finish
    BY <1>4 DEF DeferredDone, CallFinish
  <1>6. /\ finish' \in [pc : {"none", "begin", "refresh", "abort", "sync", "delete", "call", "end"}, status : Status]
        /\ LastDeferred => finish'.pc = "begin"
        /\ ~LastDeferred => finish'.pc = "none"
    <2>1. finish \in [pc : {"none", "begin", "refresh", "abort", "sync", "delete", "call", "end"}, status : Status]
      BY DEF ExecInv, TypeOK
    <2>2. CASE LastDeferred
      BY <1>5, <2>1, <2>2
    <2>3. CASE ~LastDeferred
      BY <1>4, <1>5, <2>1, <2>3
    <2> QED BY <2>2, <2>3
  <1>7. FramesInv(g)' /\ PlaceInv(g)' /\ NodeInv(g, D)' /\ EdgeInv(g, D)' /\ Accounting'
    BY <1>1, <1>4, FixedKeeps
  <1>8. StatusInv'
    BY <1>1, <1>4, FixedStatus DEF ExecInv, StatusInv, environment
  <1>9. TypeOK'
    <2>1. finish_calls' \in Nat
      BY <1>5
    <2> QED BY <1>1, <1>3, <1>6, <2>1 DEF ExecInv, TypeOK, environment
  <1>10. FinishInv'
    <2>1. LastDeferred <=> num_deferred_ops' = 0 /\ finish_when_deferred_ops_done
      BY <1>1, <1>2 DEF LastDeferred
    <2>2. LastDeferred => \A c \in Threads : ~thread[c].completed
      BY DEF LastDeferred, ExecInv, FinishInv
    <2>3. finish_calls' \in {0, 1} /\ (finish_calls' = 1 <=> LastDeferred)
      BY <1>5
    <2>4. /\ \A c \in Threads : thread'[c].completed =>
                num_outstanding_ops' = 0 /\ finish_calls' = 0 /\ ~finish_when_deferred_ops_done' /\ Runs'
          /\ \A c, d \in Threads : thread'[c].completed /\ thread'[d].completed => c = d
      BY <1>1, <1>4, <1>5, <2>2 DEF ExecInv, FinishInv
    <2>5. /\ finish_when_deferred_ops_done' =>
               num_outstanding_ops' = 0 /\ Runs' /\ (num_deferred_ops' = 0 <=> finish_calls' = 1)
          /\ finish_calls' = 1 => num_outstanding_ops' = 0 /\ num_deferred_ops' = 0 /\ Runs'
      BY <1>1, <1>4, <2>1, <2>3 DEF ExecInv, FinishInv
    <2>6. /\ finish_calls' = 0 <=> finish'.pc = "none"
          /\ finish'.pc \in {"call", "end"} <=> deleted' /\ finish_calls' = 1
      BY <1>1, <1>4, <1>6, <2>3
    <2>7. \A m \in deferred' : processed'[m] = 1
      BY <1>1 DEF ExecInv, FinishInv
    <2> QED BY <1>3, <1>4, <2>3, <2>4, <2>5, <2>6, <2>7 DEF FinishInv
  <1>11. ReportInv'
    <2>1. reported = <<>>
      BY <1>4 DEF ExecInv, ReportInv
    <2>2. finish'.pc \in {"none", "begin"}
      BY <1>6
    <2> QED BY <1>1, <1>4, <2>1, <2>2 DEF ReportInv
  <1> QED BY <1>7, <1>8, <1>9, <1>10, <1>11 DEF ExecInv

(* A step of Finish, from p to q.                                          *)
LEMMA FinishKeeps ==
    ASSUME NEW g \in Graphs, NEW D, ExecInv(g, D), FinishStep
    PROVE  ExecInv(g, D)'
  <1>1. /\ UNCHANGED <<graph, args, started, pending, full, status, pool, thread, processed, failed,
                       num_outstanding_ops, num_deferred_ops, finish_when_deferred_ops_done, deferred,
                       finish_calls, foreign_cancel, device_ok>>
    BY DEF FinishStep, FinishBegins, RefreshStatus, FinishAborts, SyncDone, DeleteThis, CallDone,
           step, propagation, history, counters, environment
  <1>2. finish \in [pc : {"none", "begin", "refresh", "abort", "sync", "delete", "call", "end"}, status : Status]
    BY DEF ExecInv, TypeOK
  <1>3. PICK p, q, s0, s1 : p = finish.pc /\ q = finish'.pc /\ s0 = finish.status /\ s1 = finish'.status
    OBVIOUS
  <1>4. /\ status \in Status /\ s0 \in Status /\ DeviceStatus \in {"OK", "ERROR"}
        /\ {"OK", "ERROR"} \subseteq Status
    BY <1>2, <1>3 DEF ExecInv, TypeOK, DeviceStatus, Status
  <1>5. /\ p \in {"begin", "refresh", "abort", "sync", "delete", "call"}
        /\ q \in {"refresh", "abort", "sync", "delete", "call", "end"}
        /\ finish' \in [pc : {"none", "begin", "refresh", "abort", "sync", "delete", "call", "end"}, status : Status]
        /\ q = "call" <=> p = "delete"
        /\ q = "end" <=> p = "call"
        /\ deleted' = (deleted \/ q = "call")
        /\ reported' = IF q = "end" THEN Append(reported, s0) ELSE reported
        /\ p \in {"delete", "call", "abort"} => s1 = s0
        /\ p = "begin" => s1 = status
        /\ p = "refresh" => s1 = IF s0 = "OK" THEN DeviceStatus ELSE s0
        /\ p = "sync" => s1 = DeviceStatus
        /\ q = "sync" => status = "OK"
        /\ aborted' \in BOOLEAN /\ cancelled' \in BOOLEAN
        /\ cancelled' => cancelled \/ q = "delete"
    <2>1. aborted \in BOOLEAN /\ cancelled \in BOOLEAN /\ args.cancellation_manager \in BOOLEAN
          /\ deleted \in BOOLEAN
      BY ArgsAssumption DEF ExecInv, TypeOK, Arguments
    <2>2. CASE FinishBegins
      <3>1. /\ finish'.pc \in {"refresh", "sync", "delete"} /\ (finish'.pc = "sync" => status = "OK")
            /\ finish'.status = status
            /\ finish' \in [pc : {"none", "begin", "refresh", "abort", "sync", "delete", "call", "end"}, status : Status]
        BY <1>4, <2>2 DEF FinishBegins
      <3> QED BY <1>3, <1>4, <2>1, <2>2, <3>1 DEF FinishBegins, environment
    <2>3. CASE RefreshStatus
      BY <1>3, <1>4, <2>1, <2>3 DEF RefreshStatus, environment
    <2>4. CASE FinishAborts
      BY <1>2, <1>3, <1>4, <2>1, <2>4 DEF FinishAborts
    <2>5. CASE SyncDone
      BY <1>3, <1>4, <2>1, <2>5 DEF SyncDone, environment
    <2>6. CASE DeleteThis
      BY <1>2, <1>3, <1>4, <2>1, <2>6 DEF DeleteThis, environment
    <2>7. CASE CallDone
      BY <1>2, <1>3, <1>4, <2>1, <2>7 DEF CallDone, environment
    <2> QED BY <2>2, <2>3, <2>4, <2>5, <2>6, <2>7 DEF FinishStep
  <1>6. /\ finish_calls = 1 /\ Runs /\ num_outstanding_ops = 0 /\ num_deferred_ops = 0
        /\ (deleted <=> p = "call")
    BY <1>3, <1>5 DEF ExecInv, FinishInv
  <1>7. Runs' /\ started
    BY <1>1, <1>6 DEF Runs
  <1>8. FramesInv(g)' /\ PlaceInv(g)' /\ NodeInv(g, D)' /\ EdgeInv(g, D)' /\ Accounting'
    BY <1>1, <1>6, FixedKeeps
  <1>9. StatusInv'
    <2>1. cancelled' => \/ foreign_cancel' \/ status # "OK" \/ finish'.pc \in {"delete", "call", "end"}
      BY <1>1, <1>3, <1>5 DEF ExecInv, StatusInv
    <2> QED BY <1>1, <2>1, FixedStatus DEF ExecInv
  <1>10. reported = <<>>
    BY <1>3, <1>5, <1>6 DEF ExecInv, ReportInv
  <1>11. TypeOK'
    <2>1. reported' \in Seq(Status)
      BY <1>4, <1>5, <1>10
    <2>2. deleted' \in BOOLEAN
      BY <1>5
    <2> QED BY <1>1, <1>5, <2>1, <2>2 DEF ExecInv, TypeOK
  <1>12. FinishInv'
    <2>1. finish'.pc \in {"call", "end"} <=> deleted'
      BY <1>3, <1>5, <1>6
    <2>2. finish'.pc # "none"
      BY <1>3, <1>5
    <2> QED BY <1>1, <1>6, <1>7, <2>1, <2>2 DEF ExecInv, FinishInv
  <1>13. ReportInv'
    <2>1. /\ p # "begin" => /\ s0 = "OK" => status = "OK"
                            /\ s0 # "OK" => status # "OK" \/ ~device_ok
                            /\ s0 = "DERIVED" => status = "DERIVED"
          /\ p = "sync" => status = "OK"
      BY <1>3, <1>5 DEF ExecInv, ReportInv
    <2>2. /\ s1 = "OK" => status = "OK"
          /\ s1 # "OK" => status # "OK" \/ ~device_ok
          /\ s1 = "DERIVED" => status = "DERIVED"
      BY <1>5, <2>1 DEF DeviceStatus
    <2>3. q = "end" => reported' = <<s1>>
      BY <1>5, <1>10
    <2>4. q # "end" => reported' = <<>>
      BY <1>5, <1>10
    <2>5. started' /\ Runs'
      BY <1>1, <1>7
    <2> QED BY <1>1, <1>3, <1>5, <2>2, <2>3, <2>4, <2>5 DEF ReportInv
  <1> QED BY <1>8, <1>9, <1>11, <1>12, <1>13 DEF ExecInv

LEMMA EnvironmentKeeps ==
    ASSUME NEW g \in Graphs, NEW D, ExecInv(g, D), OtherAborts \/ OtherCancels \/ DeviceFails \/ UNCHANGED vars
    PROVE  ExecInv(g, D)'
  <1>1. /\ UNCHANGED <<graph, args, started, pending, full, status, pool, thread, processed, failed,
                       num_outstanding_ops, num_deferred_ops, finish_when_deferred_ops_done, deferred,
                       finish, finish_calls, deleted, reported>>
    BY DEF OtherAborts, OtherCancels, DeviceFails, vars, step, propagation, history, counters, ending
  <1>2. /\ {aborted', cancelled', foreign_cancel', device_ok'} \subseteq BOOLEAN
        /\ foreign_cancel => foreign_cancel'
        /\ ~device_ok => ~device_ok'
        /\ cancelled' => cancelled \/ foreign_cancel'
    <2>1. {aborted, cancelled, foreign_cancel, device_ok} \subseteq BOOLEAN
      BY DEF ExecInv, TypeOK
    <2>2. CASE OtherAborts
      BY <2>1, <2>2 DEF OtherAborts
    <2>3. CASE OtherCancels
      BY <2>1, <2>3 DEF OtherCancels
    <2>4. CASE DeviceFails
      BY <2>1, <2>4 DEF DeviceFails
    <2>5. CASE UNCHANGED vars
      BY <2>1, <2>5 DEF vars, environment
    <2> QED BY <2>2, <2>3, <2>4, <2>5
  <1>3. Runs' <=> Runs
    BY <1>1 DEF Runs
  <1>4. FramesInv(g)' /\ PlaceInv(g)' /\ NodeInv(g, D)' /\ EdgeInv(g, D)' /\ Accounting'
    BY <1>1, <1>3, FixedKeeps
  <1>5. StatusInv'
    <2>1. cancelled' => \/ foreign_cancel' \/ status # "OK" \/ finish'.pc \in {"delete", "call", "end"}
      BY <1>1, <1>2 DEF ExecInv, StatusInv
    <2> QED BY <1>1, <1>2, <2>1, FixedStatus DEF ExecInv
  <1>6. TypeOK'
    BY <1>1, <1>2 DEF ExecInv, TypeOK
  <1>7. FinishInv'
    BY <1>1, <1>3 DEF ExecInv, FinishInv
  <1>8. ReportInv'
    <2>1. GraphNodes' = GraphNodes
      BY <1>1 DEF GraphNodes
    <2> QED BY <1>1, <1>2, <1>3, <2>1 DEF ExecInv, ReportInv
  <1> QED BY <1>4, <1>5, <1>6, <1>7, <1>8 DEF ExecInv

-----------------------------------------------------------------------------
(* The first state.                                                        *)
LEMMA InitHolds ==
    ASSUME Init
    PROVE  ExecutorInv
  <1>1. PICK g \in Graphs : graph = g
    BY DEF Init
  <1>2. ~Runs /\ graph = g
    BY <1>1 DEF Init, Runs
  <1>3. \A c \in Threads : /\ thread[c] = Idle /\ Idle \in Frame /\ Holds(Idle) = {} /\ Counts(Idle) = {}
                           /\ Waiting(Idle) = {} /\ Range(Idle.ready) = {} /\ ~Busy(Idle)
                           /\ Idle.pc = "idle" /\ Idle.s = "OK" /\ ~Idle.completed
                           /\ FrameOK(g, c, Idle)
    <2> TAKE c \in Threads
    <2>1. c[2] \in Nodes
      BY DEF Threads
    <2> QED BY <2>1, IdleFrame, EmptyRange DEF Init
  <1>4. thread \in [Threads -> Frame]
    BY <1>3 DEF Init
  <1>5. TypeOK
    <2>1. pending \in [Nodes -> Nat]
      <3>1. \A n \in Nodes : InitialPending(n) \in Nat
        BY <1>1, GraphIs, EdgeFacts, FS_CardinalityType DEF InitialPending
      <3> QED BY <3>1 DEF Init
    <2>2. processed \in [Nodes -> Nat]
      BY DEF Init
    <2>3. finish \in [pc : {"none", "begin", "refresh", "abort", "sync", "delete", "call", "end"}, status : Status]
      BY DEF Init, Status
    <2>4. reported \in Seq(Status)
      BY DEF Init
    <2> QED BY <1>4, <2>1, <2>2, <2>3, <2>4 DEF TypeOK, Init, Status
  <1>6. FramesInv(g)
    BY <1>3 DEF FramesInv
  <1>7. PlaceInv(g)
    BY <1>3 DEF PlaceInv, Init
  <1>8. NodeInv(g, {})
    <2>1. ASSUME NEW n \in DOMAIN g.out
          PROVE  pending[n] = Cardinality(InputsOf(g, n) \ {}) /\ processed[n] = 0
      <3>1. n \in Nodes /\ n \in GraphNodes /\ EdgesInto(n) = InputsOf(g, n)
        BY <1>1, GraphFacts, GraphIs
      <3>2. InputsOf(g, n) \ {} = InputsOf(g, n)
        OBVIOUS
      <3> QED BY <3>1, <3>2 DEF Init, InitialPending
    <2>2. \A n \in Nodes : <<"process", n>> \in Threads /\ <<"done", n>> \in Threads
      BY DEF Threads
    <2>3. pool = {}
      BY DEF Init
    <2> QED BY <1>2, <1>3, <2>1, <2>2, <2>3 DEF NodeInv
  <1>9. EdgeInv(g, {})
    <2>1. failed = {} /\ \A m \in DOMAIN g.out : processed[m] = 0
      BY GraphFacts DEF Init
    <2> QED BY <1>3, <2>1 DEF EdgeInv
  <1>10. Accounting
    <2>1. pool = {} /\ num_outstanding_ops = 0
      BY DEF Init
    <2>2. OutstandingNodes = {}
      BY <1>3, <2>1, OutstandingIs
    <2> QED BY <2>1, <2>2, FS_EmptySet DEF Accounting
  <1>11. StatusInv
    BY <1>3 DEF StatusInv, Init
  <1>12. FinishInv
    <2>1. num_deferred_ops = Cardinality(deferred)
      BY FS_EmptySet DEF Init
    <2> QED BY <1>2, <1>3, <2>1 DEF FinishInv, Init
  <1>13. ReportInv
    BY <1>2 DEF ReportInv, Init
  <1>14. ExecInv(g, {})
    BY <1>5, <1>6, <1>7, <1>8, <1>9, <1>10, <1>11, <1>12, <1>13 DEF ExecInv
  <1> QED BY <1>14 DEF ExecutorInv

(* Every step keeps the invariant.                                         *)
LEMMA StepHolds ==
    ASSUME ExecutorInv, [Next]_vars
    PROVE  ExecutorInv'
  <1>1. PICK g \in Graphs : \E D \in SUBSET EdgesAll(g) : ExecInv(g, D)
    BY DEF ExecutorInv
  <1>2. PICK D \in SUBSET EdgesAll(g) : ExecInv(g, D)
    BY <1>1
  <1>3. CASE RunAsync
    BY <1>2, <1>3, RunAsyncKeeps DEF ExecutorInv
  <1>4. ASSUME NEW t \in pool, RunTask(t) PROVE ExecutorInv'
    BY <1>2, <1>4, RunTaskKeeps DEF ExecutorInv
  <1>5. ASSUME NEW c \in Threads, ProcessStep(c) PROVE ExecutorInv'
    <2>1. CASE ProcessTrivial(c)
      BY <1>2, <2>1, TrivialKeeps DEF ExecutorInv
    <2>2. CASE PrepareInputsFails(c)
      BY <1>2, <2>2, PrepareKeeps DEF ExecutorInv
    <2>3. CASE ProcessSync(c)
      BY <1>2, <2>3, SyncKeeps DEF ExecutorInv
    <2>4. CASE ProcessAsync(c)
      BY <1>2, <2>4, AsyncKeeps DEF ExecutorInv
    <2>5. CASE PropagateOutputs(c)
      <3>1. thread[c].pc = "write" \/ thread[c].pc = "decrement"
        BY <2>5 DEF PropagateOutputs
      <3>2. CASE thread[c].pc = "write"
        BY <1>2, <2>5, <3>2, WriteKeeps DEF ExecutorInv
      <3>3. CASE thread[c].pc = "decrement"
        BY <1>2, <2>5, <3>3, DecrementKeeps DEF ExecutorInv
      <3> QED BY <3>1, <3>2, <3>3
    <2>6. CASE NodeDone(c)
      BY <1>2, <2>6, NodeDoneKeeps DEF ExecutorInv
    <2>7. CASE ScheduleReady(c)
      BY <1>2, <2>7, ScheduleKeeps DEF ExecutorInv
    <2>8. CASE NodeFailed(c) \/ StartAbort(c) \/ StartCancel(c)
      BY <1>2, <2>8, NodeFailedKeeps DEF ExecutorInv
    <2>9. CASE ErrorDone(c)
      BY <1>2, <2>9, ErrorDoneKeeps DEF ExecutorInv
    <2>10. CASE ProcessReturns(c)
      BY <1>2, <2>10, ReturnKeeps DEF ExecutorInv
    <2> QED BY <1>5, <2>1, <2>2, <2>3, <2>4, <2>5, <2>6, <2>7, <2>8, <2>9, <2>10 DEF ProcessStep
  <1>6. ASSUME NEW n \in Nodes, AsyncDone(n) PROVE ExecutorInv'
    BY <1>2, <1>6, AsyncDoneKeeps DEF ExecutorInv
  <1>7. ASSUME NEW n \in Nodes, DeferredDone(n) PROVE ExecutorInv'
    BY <1>2, <1>7, DeferredKeeps DEF ExecutorInv
  <1>8. CASE FinishStep
    BY <1>2, <1>8, FinishKeeps DEF ExecutorInv
  <1>9. CASE OtherAborts \/ OtherCancels \/ DeviceFails \/ UNCHANGED vars
    BY <1>2, <1>9, EnvironmentKeeps DEF ExecutorInv
  <1>10. CASE Terminated
    BY <1>9, <1>10 DEF Terminated
  <1> QED BY <1>3, <1>4, <1>5, <1>6, <1>7, <1>8, <1>9, <1>10 DEF Next

-----------------------------------------------------------------------------
(* What the invariant says when num_outstanding_ops_ is zero: no node is   *)
(* held anywhere.                                                          *)
LEMMA NothingOutstanding ==
    ASSUME NEW g \in Graphs, NEW D, ExecInv(g, D), num_outstanding_ops = 0
    PROVE  /\ pool = {}
           /\ \A c \in Threads : /\ thread[c].pc \in {"idle", "loop"} /\ ~Busy(thread[c])
                                 /\ thread[c].inline = <<>> /\ thread[c].rest = <<>>
                                 /\ Holds(thread[c]) = {}
           /\ \A n : ~Held(n)
  <1>1. OutstandingNodes = {}
    <2>1. IsFiniteSet(OutstandingNodes) /\ Cardinality(OutstandingNodes) = 0
      BY OutstandingFinite DEF ExecInv, Accounting
    <2> QED BY <2>1, FS_EmptySet
  <1>2. pool = {}
    <2> SUFFICES ASSUME NEW t \in pool PROVE FALSE
      OBVIOUS
    <2>1. t \in Seq(Nodes) /\ t # <<>>
      BY DEF ExecInv, TypeOK
    <2>2. Range(t) # {}
      BY <2>1, EmptyRange
    <2> QED BY <1>1, <2>2, OutstandingIs
  <1>3. ASSUME NEW c \in Threads
        PROVE  /\ thread[c].pc \in {"idle", "loop"} /\ ~Busy(thread[c])
               /\ thread[c].inline = <<>> /\ thread[c].rest = <<>> /\ Holds(thread[c]) = {}
    <2>1. PICK f : f = thread[c]
      OBVIOUS
    <2>2. f \in Frame /\ FrameOK(g, c, f) /\ Counts(f) = {}
      BY <1>1, <2>1, OutstandingIs DEF ExecInv, TypeOK, FramesInv
    <2>3. f.inline \in Seq(Nodes) /\ f.rest \in Seq(Nodes) /\ f.ready \in Seq(Nodes)
      BY <2>2, FrameFields
    <2>4. ~Busy(f) /\ Range(f.inline) = {} /\ Range(f.rest) = {}
      BY <2>2 DEF Counts, Current, Waiting
    <2>5. f.pc # "schedule"
      <3>1. f.pc = "schedule" => Range(f.ready) = {} /\ f.ready # <<>>
        BY <2>2 DEF Counts, FrameOK
      <3> QED BY <2>3, <3>1, EmptyRange
    <2>6. f.pc \in {"idle", "loop"}
      BY <2>4, <2>5 DEF Busy
    <2>7. f.inline = <<>> /\ f.rest = <<>> /\ f.ready = <<>>
      BY <2>2, <2>3, <2>4, <2>6, EmptyRange DEF FrameOK
    <2>8. Holds(f) = {}
      BY <2>4, <2>7, EmptyRange DEF Holds, Waiting, Current
    <2> QED BY <2>1, <2>4, <2>6, <2>7, <2>8
  <1>4. \A n : ~Held(n)
    BY <1>2, <1>3 DEF Held
  <1> QED BY <1>2, <1>3, <1>4

(* Without an error the step ends only after every node was processed: a   *)
(* first node of those that were not would be ready, and held somewhere.   *)
LEMMA AllProcessed ==
    ASSUME NEW g \in Graphs, NEW D, ExecInv(g, D), num_outstanding_ops = 0, Runs, status = "OK"
    PROVE  \A n \in DOMAIN g.out : processed[n] = 1
  <1> DEFINE U == {n \in DOMAIN g.out : processed[n] = 0}
  <1>1. \A n \in DOMAIN g.out : processed[n] \in {0, 1}
    BY DEF ExecInv, NodeInv
  <1>2. ASSUME U # {} PROVE FALSE
    <2>1. \A S \in SUBSET DOMAIN g.out : S # {} =>
             \E n \in S : \A m \in S : n \notin Range(g.out[m]) \cup Range(g.control[m])
      BY GraphsAssumption DEF Acyclic
    <2>2. PICK n \in U : \A m \in U : n \notin Range(g.out[m]) \cup Range(g.control[m])
      BY <1>2, <2>1
    <2>3. ASSUME NEW e \in InputsOf(g, n) PROVE e \in D
      <3>1. e \in EdgesAll(g) /\ Target(g, e) = n
        BY DEF InputsOf
      <3>2. e[1] \in DOMAIN g.out /\ e[2] \in DOMAIN EdgesOf(g, e[1]) /\ e = <<e[1], e[2]>>
        BY <3>1, EdgeFacts
      <3>3. n \in Range(g.out[e[1]]) \cup Range(g.control[e[1]])
        BY <3>1, TargetIn
      <3>4. processed[e[1]] = 1
        BY <1>1, <2>2, <3>2, <3>3
      <3>5. \A c \in Threads : ~Busy(thread[c])
        BY NothingOutstanding
      <3>6. \A i \in DOMAIN EdgesOf(g, e[1]) : <<e[1], i>> \in D
        BY <3>2, <3>4, <3>5 DEF ExecInv, EdgeInv
      <3> QED BY <3>2, <3>6
    <2>4. ReadyNode(g, D, n)
      BY <2>2, <2>3 DEF ReadyNode
    <2>5. Held(n)
      BY <2>2, <2>4 DEF ExecInv, NodeInv
    <2> QED BY <2>5, NothingOutstanding
  <1> QED BY <1>1, <1>2

LEMMA MemorySafe ==
    ASSUME NEW g \in Graphs, NEW D, ExecInv(g, D)
    PROVE  NoUseAfterDelete
  <1> SUFFICES ASSUME deleted
               PROVE  /\ pool = {} /\ deferred = {}
                      /\ \A c \in Threads :
                            /\ thread[c].pc \in {"idle", "loop"}
                            /\ thread[c].inline = <<>> /\ thread[c].rest = <<>> /\ ~thread[c].completed
    BY DEF NoUseAfterDelete
  <1>1. CASE ~Runs
    <2>1. pool = {} /\ deferred = {} /\ \A c \in Threads : thread[c] = Idle
      BY <1>1 DEF ExecInv, FinishInv
    <2>2. \A c \in Threads : /\ Idle.pc = "idle" /\ ~Idle.completed
                             /\ Idle.inline = <<>> /\ Idle.rest = <<>>
      <3> TAKE c \in Threads
      <3>1. c[2] \in Nodes
        BY DEF Threads
      <3> QED BY <3>1, IdleFrame
    <2> QED BY <2>1, <2>2
  <1>2. CASE Runs
    <2>1. finish_calls = 1
      BY <1>2 DEF Runs, ExecInv, FinishInv
    <2>2. num_outstanding_ops = 0 /\ Cardinality(deferred) = 0 /\ \A c \in Threads : ~thread[c].completed
      BY <2>1 DEF ExecInv, FinishInv
    <2>3. deferred = {}
      <3>1. IsFiniteSet(deferred)
        BY GraphsAssumption, FS_Subset DEF ExecInv, TypeOK
      <3> QED BY <2>2, <3>1, FS_EmptySet
    <2>4. /\ pool = {}
          /\ \A c \in Threads : /\ thread[c].pc \in {"idle", "loop"}
                                /\ thread[c].inline = <<>> /\ thread[c].rest = <<>>
      BY <2>2, NothingOutstanding
    <2> QED BY <2>2, <2>3, <2>4
  <1> QED BY <1>1, <1>2

LEMMA Ordered ==
    ASSUME NEW g \in Graphs, NEW D, ExecInv(g, D)
    PROVE  DependenciesFirst
  <1>1. graph = g
    BY DEF ExecInv, NodeInv
  <1>2. /\ GraphNodes = DOMAIN g.out
        /\ \A n : Edges(n) = EdgesOf(g, n) /\ EdgesInto(n) = InputsOf(g, n)
        /\ \A n : DataInto(n) = {e \in InputsOf(g, n) : DataEdge(g, e)}
    BY <1>1, GraphIs
  <1>3. ASSUME NEW n \in Ready PROVE ReadyNode(g, D, n)
    <2>1. \/ \E t \in pool : n \in Range(t)
          \/ \E c \in Threads : n \in Waiting(thread[c]) \cup Range(thread[c].ready)
      <3> DEFINE A == UNION {Range(t) : t \in pool}
                 B == UNION {Range(thread[c].inline) \cup Range(thread[c].rest) : c \in Threads}
                 C == UNION {Range(thread[c].ready) : c \in Threads}
      <3>1. n \in A \/ n \in B \/ n \in C
        BY DEF Ready, Queued
      <3>2. n \in B => \E c \in Threads : n \in Waiting(thread[c])
        BY DEF Waiting
      <3>3. n \in C => \E c \in Threads : n \in Range(thread[c].ready)
        OBVIOUS
      <3>4. n \in A => \E t \in pool : n \in Range(t)
        OBVIOUS
      <3> HIDE DEF A, B, C
      <3> QED BY <3>1, <3>2, <3>3, <3>4
    <2> QED BY <2>1 DEF ExecInv, NodeInv
  <1>4. ASSUME NEW n \in Ready PROVE DataInto(n) \subseteq full
    <2>1. processed[n] = 0 /\ InputsOf(g, n) \subseteq D
      BY <1>3, <1>4 DEF ReadyNode
    <2>2. \A e \in InputsOf(g, n) : Target(g, e) = n
      BY DEF InputsOf
    <2> QED BY <1>2, <2>1, <2>2 DEF ExecInv, EdgeInv
  <1>5. ASSUME NEW n \in Ready, NEW c \in Threads, thread[c].pc \in {"write", "decrement"},
               Dst(thread[c]) = n
        PROVE  FALSE
    <2>1. PICK f : f = thread[c]
      OBVIOUS
    <2>2. f \in Frame /\ FrameOK(g, c, f) /\ f.pc \in {"write", "decrement"}
      BY <1>5, <2>1 DEF ExecInv, TypeOK, FramesInv
    <2>3. f.node \in DOMAIN g.out /\ f.edge \in DOMAIN EdgesOf(g, f.node) /\ f.edge \in Nat
      <3>1. Busy(f)
        BY <2>2 DEF Busy
      <3> QED BY <2>2, <3>1, FrameFields, HoldsIs DEF FrameOK
    <2>4. <<f.node, f.edge>> \notin D
      BY <2>1, <2>2, <2>3 DEF ExecInv, EdgeInv
    <2>5. <<f.node, f.edge>> \in EdgesAll(g) /\ Target(g, <<f.node, f.edge>>) = n
      BY <1>2, <1>5, <2>1, <2>3, EdgeFacts DEF Dst, Target
    <2>6. <<f.node, f.edge>> \in InputsOf(g, n)
      BY <2>5 DEF InputsOf
    <2> QED BY <1>3, <1>5, <2>4, <2>6 DEF ReadyNode
  <1>6. ASSUME NEW n \in Nodes, thread[<<"done", n>>].pc = "kernel" PROVE DataInto(n) \subseteq full
    <2>1. PICK c \in Threads : c = <<"done", n>>
      BY DEF Threads
    <2>2. thread[c].node = n
      <3>1. FrameOK(g, c, thread[c]) /\ Busy(thread[c]) /\ c[1] = "done" /\ c[2] = n
        BY <1>6, <2>1 DEF ExecInv, FramesInv, Busy
      <3> QED BY <3>1 DEF FrameOK
    <2> QED BY <1>2, <1>6, <2>1, <2>2 DEF ExecInv, EdgeInv
  <1>7. ASSUME NEW n \in GraphNodes, processed[n] > 0, NEW e \in EdgesInto(n)
        PROVE  processed[e[1]] = 1 /\ e[1] \notin failed
    <2>0. processed[n] \in {0, 1}
      BY <1>2, <1>7 DEF ExecInv, NodeInv
    <2>1. processed[n] = 1
      BY <1>7, <2>0
    <2>2. e \in D
      BY <1>2, <1>7, <2>1 DEF ExecInv, NodeInv
    <2> QED BY <2>2 DEF ExecInv, EdgeInv
  <1> QED BY <1>4, <1>5, <1>6, <1>7 DEF DependenciesFirst, InputsReady

LEMMA Reported ==
    ASSUME NEW g \in Graphs, NEW D, ExecInv(g, D)
    PROVE  OutcomeCorrect
  <1>1. GraphNodes = DOMAIN g.out /\ finish_calls \in {0, 1}
    BY DEF ExecInv, NodeInv, GraphNodes, FinishInv
  <1>2. CASE finish.pc = "end"
    <2>1. reported = <<finish.status>> /\ finish_calls = 1 /\ num_outstanding_ops = 0 /\ Runs
      BY <1>2 DEF ExecInv, ReportInv, FinishInv
    <2>2. /\ finish.status = "OK" => status = "OK"
          /\ finish.status # "OK" => status # "OK" \/ ~device_ok
          /\ finish.status = "DERIVED" => status = "DERIVED"
      BY <1>2 DEF ExecInv, ReportInv
    <2>3. status = "OK" => failed = {}
      <3>1. \A c \in Threads : ~Busy(thread[c])
        BY <2>1, NothingOutstanding
      <3> QED BY <3>1 DEF ExecInv, StatusInv
    <2>4. status = "OK" => \A n \in GraphNodes : processed[n] = 1
      BY <1>1, <2>1, AllProcessed
    <2>5. (status # "OK" => failed # {}) /\ (status = "DERIVED" => foreign_cancel)
      BY DEF ExecInv, StatusInv
    <2>6. Len(reported) = 1 /\ \A i \in DOMAIN reported : reported[i] = finish.status
      BY <2>1
    <2> QED BY <1>1, <2>2, <2>3, <2>4, <2>5, <2>6 DEF OutcomeCorrect
  <1>3. CASE started /\ ~Runs
    <2>1. reported = <<"ERROR">> \/ (reported = <<"OK">> /\ GraphNodes = {})
      BY <1>3 DEF ExecInv, ReportInv
    <2>2. failed = {} /\ finish_calls = 0
      BY <1>1, <1>3 DEF ExecInv, FinishInv
    <2>3. Len(reported) = 1 /\ \A i \in DOMAIN reported : reported[i] \in {"OK", "ERROR"}
      BY <2>1
    <2>4. \A i \in DOMAIN reported : reported[i] = "OK" => GraphNodes = {}
      BY <2>1
    <2> QED BY <2>2, <2>3, <2>4 DEF OutcomeCorrect
  <1>4. CASE reported = <<>>
    BY <1>1, <1>4 DEF OutcomeCorrect
  <1>5. finish.pc = "end" \/ (started /\ ~Runs) \/ reported = <<>>
    BY DEF ExecInv, ReportInv
  <1> QED BY <1>2, <1>3, <1>4, <1>5

-----------------------------------------------------------------------------
(* The inductive invariant holds for every finite set of nodes, every      *)
(* acyclic graph over it and every choice of Executor::Args, whatever the  *)
(* order of the threads and the outcome of the kernels.                    *)
THEOREM ExecutorInvariant == Spec => []ExecutorInv
  <1>1. Init => ExecutorInv
    BY InitHolds
  <1>2. ExecutorInv /\ [Next]_vars => ExecutorInv'
    BY StepHolds
  <1> QED BY <1>1, <1>2, PTL DEF Spec

(* The variables keep their types: in particular num_outstanding_ops_,     *)
(* num_deferred_ops_ and the pending counts never fall below zero.         *)
THEOREM ExecutorTypes == Spec => []TypeOK
  <1>1. ExecutorInv => TypeOK
    BY DEF ExecutorInv, ExecInv
  <1> QED BY <1>1, ExecutorInvariant, PTL

(* num_outstanding_ops_ is the number of nodes that are queued or being    *)
(* processed, at every moment between the atomic operations.               *)
THEOREM ExecutorAccounting == Spec => []Accounting
  <1>1. ExecutorInv => Accounting
    BY DEF ExecutorInv, ExecInv
  <1> QED BY <1>1, ExecutorInvariant, PTL

(* Nobody uses the ExecutorState after `delete this'.                      *)
THEOREM ExecutorMemorySafe == Spec => []NoUseAfterDelete
  <1>1. ExecutorInv => NoUseAfterDelete
    BY MemorySafe DEF ExecutorInv
  <1> QED BY <1>1, ExecutorInvariant, PTL

(* A node is processed after the nodes it depends on, with its inputs      *)
(* there and nobody still writing them (simple_propagator_state.h:171).    *)
THEOREM ExecutorDependenciesFirst == Spec => []DependenciesFirst
  <1>1. ExecutorInv => DependenciesFirst
    BY Ordered DEF ExecutorInv
  <1> QED BY <1>1, ExecutorInvariant, PTL

(* Finish is called at most once, done_cb is called at most once, OK is    *)
(* reported only for a complete step without failure, and a derived error  *)
(* only if the cancellation came from outside.                             *)
THEOREM ExecutorOutcomeCorrect == Spec => []OutcomeCorrect
  <1>1. ExecutorInv => OutcomeCorrect
    BY Reported DEF ExecutorInv
  <1> QED BY <1>1, ExecutorInvariant, PTL

=============================================================================
