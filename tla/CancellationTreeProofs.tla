----------------------- MODULE CancellationTreeProofs -----------------------
(***************************************************************************)
(* Theorems about the tree of managers of Cancellation, for any set of     *)
(* managers: the intrusive child lists are intact, a StartCancel works on  *)
(* live objects only, a cancellation reaches the children, and no          *)
(* registered callback is lost.                                            *)
(***************************************************************************)
EXTENDS CancellationProofs

(* c is in the list of its parent.                                         *)
Linked(c) == life[c] # "unborn" /\ parent[c] # Null /\ ~is_removed[c]

(* The list of children, link by link.  That a linked child can be reached *)
(* from the head is a conjunct of its own: the local conditions alone also *)
(* hold of a cycle beside the list.                                        *)
HeadInv(m) ==
    first_child[m] # Null => /\ Linked(first_child[m])
                             /\ parent[first_child[m]] = m
                             /\ prev_sibling[first_child[m]] = Null

NextInv(c) ==
    Linked(c) /\ next_sibling[c] # Null =>
        /\ Linked(next_sibling[c])
        /\ parent[next_sibling[c]] = parent[c]
        /\ prev_sibling[next_sibling[c]] = c

PrevInv(c) ==
    Linked(c) => IF prev_sibling[c] = Null
                 THEN first_child[parent[c]] = c
                 ELSE /\ Linked(prev_sibling[c])
                      /\ parent[prev_sibling[c]] = parent[c]
                      /\ next_sibling[prev_sibling[c]] = c

ReachInv(c) == Linked(c) => c \in ChildList(parent[c])

(* A manager whose StartCancel or destructor has taken it out of the list  *)
(* is not linked, and a stopped parent has no linked child.                *)
LiveInv(c) ==
    Linked(c) => /\ life[c] \in {"constructing", "live"}
                 /\ ~Stopped(parent[c])
                 /\ has_state[parent[c]]

(* A parent is constructed before its children and destroyed after them.   *)
ParentInv(c) ==
    /\ life[c] = "unborn" => parent[c] = Null /\ ~Stopped(c) /\ ~is_removed[c]
    /\ parent[c] # Null => ~Unready(parent[c])
    /\ parent[c] # Null /\ life[c] # "dead" => life[parent[c]] = "live"

ListInv == \A m \in Managers : /\ HeadInv(m) /\ NextInv(m) /\ PrevInv(m)
                               /\ ReachInv(m) /\ LiveInv(m) /\ ParentInv(m)

-----------------------------------------------------------------------------
(* StartCancel has begun on m and has not returned.                        *)
Active(m) == call[m].pc \notin {"none", "done"}

(* Who called an active StartCancel says how far m may be destroyed.       *)
CallerInv(m) ==
    Active(m) => \/ call[m].caller = "client" /\ life[m] = "live"
                 \/ call[m].caller = "destructor" /\ life[m] = "in_cancel"
                 \/ /\ call[m].caller = "parent"
                    /\ parent[m] # Null
                    /\ call[parent[m]].pc = "in_child"
                    /\ call[parent[m]].child = m

(* The children that a StartCancel has still to cancel are out of the list *)
(* and wait in their destructor at the latest.                             *)
ChildrenInv(m) ==
    /\ call[m].children # {} => is_cancelling[m] /\ has_state[m] /\ call[m].note
    /\ call[m].late # {} => call[m].note
    /\ \A c \in call[m].children :
          parent[c] = m /\ is_removed[c] /\ life[c] \in {"constructing", "live", "wait_parent"}
    /\ call[m].pc = "in_child" => /\ call[m].child \in call[m].children
                                  /\ call[call[m].child].pc # "none"

(* The StartCancel of the parent reached m inside its constructor.         *)
Reached(m) == parent[m] # Null /\ m \in call[parent[m]].late

(* What the destructor leaves behind, and whom StartCancel has not missed: *)
(* a child whose cancellation may be undone, or was, has been reached too  *)
(* early.                                                                  *)
EndInv(m) ==
    /\ life[m] = "dead" => is_cancelled[m] \/ ~has_state[m]
    /\ life[m] = "in_cancel" => call[m].note
    /\ parent[m] # Null /\ (life[m] = "constructing" \/ (life[m] = "live" /\ ~Stopped(m))) =>
          ~is_removed[m] \/ m \in call[parent[m]].children \/ Reached(m)
    /\ call[m].pc = "done" => is_cancelled[m] \/ Reached(m)
    /\ life[m] = "constructing" /\ call[m].pc # "none" => Reached(m)

CallTreeInv == \A m \in Managers : CallerInv(m) /\ ChildrenInv(m) /\ EndInv(m)

TreeInv == ListInv /\ CallTreeInv

-----------------------------------------------------------------------------
(* A walk from the head meets the linked children and nothing else.        *)
LEMMA ChildListIs ==
  ASSUME TypeOK, ListInv, NEW m \in Managers
  PROVE  ChildList(m) = {c \in Managers : Linked(c) /\ parent[c] = m}
<1> DEFINE S == {c \in Managers : Linked(c) /\ parent[c] = m}
<1>1. S \in SUBSET Managers
  OBVIOUS
<1>2. first_child[m] # Null => first_child[m] \in S
  BY DEF ListInv, HeadInv, TypeOK
<1>3. \A d \in S : next_sibling[d] # Null => next_sibling[d] \in S
  BY DEF ListInv, NextInv, TypeOK
<1>4. ChildList(m) \subseteq S
  <2> HIDE DEF S
  <2> QED BY <1>1, <1>2, <1>3 DEF ChildList
<1>5. S \subseteq ChildList(m)
  BY DEF ListInv, ReachInv
<1> QED BY <1>4, <1>5

(* A step that leaves the links alone, and every linked child as it was.   *)
ListKept ==
    /\ UNCHANGED links
    /\ \A k \in Managers :
          /\ Linked(k)' <=> Linked(k)
          /\ Linked(k) => parent'[k] = parent[k]
          /\ LiveInv(k)' /\ ParentInv(k)'

LEMMA ListFrame ==
  ASSUME TypeOK, ListInv, ListKept
  PROVE  ListInv'
<1>1. /\ UNCHANGED <<first_child, prev_sibling, next_sibling, is_removed>>
      /\ parent \in [Managers -> Managers \cup {Null}]
      /\ first_child \in [Managers -> Managers \cup {Null}]
      /\ prev_sibling \in [Managers -> Managers \cup {Null}]
      /\ next_sibling \in [Managers -> Managers \cup {Null}]
  BY DEF ListKept, links, TypeOK
<1>2. SUFFICES ASSUME NEW c \in Managers
      PROVE  (HeadInv(c) /\ NextInv(c) /\ PrevInv(c) /\ ReachInv(c) /\ LiveInv(c) /\ ParentInv(c))'
  BY DEF ListInv
<1>3. /\ HeadInv(c) /\ NextInv(c) /\ PrevInv(c) /\ ReachInv(c)
  BY DEF ListInv
<1>4. \A k \in Managers : (Linked(k)' <=> Linked(k)) /\ (Linked(k) => parent'[k] = parent[k])
  BY DEF ListKept
<1>5. HeadInv(c)'
  BY <1>1, <1>3, <1>4 DEF HeadInv
<1>6. NextInv(c)'
  BY <1>1, <1>3, <1>4 DEF NextInv
<1>7. PrevInv(c)'
  BY <1>1, <1>3, <1>4 DEF PrevInv
<1>8. ReachInv(c)'
  <2>1. \A p \in Managers : ChildList(p)' = ChildList(p)
    BY <1>1 DEF ChildList
  <2>2. Linked(c) => parent[c] \in Managers
    BY <1>1 DEF Linked
  <2> QED BY <1>3, <1>4, <2>1, <2>2 DEF ReachInv
<1>9. LiveInv(c)' /\ ParentInv(c)'
  BY DEF ListKept
<1> QED BY <1>5, <1>6, <1>7, <1>8, <1>9

(* A step that leaves alone what CallTreeInv speaks of.                    *)
CallKept ==
    /\ UNCHANGED <<parent, life, is_cancelling, is_cancelled, is_removed>>
    /\ \A k \in Managers : /\ call'[k].pc = call[k].pc
                           /\ call'[k].children = call[k].children
                           /\ call'[k].child = call[k].child
                           /\ call'[k].caller = call[k].caller
                           /\ call'[k].note = call[k].note
                           /\ call'[k].late = call[k].late
                           /\ has_state[k] => has_state'[k]
                           /\ life[k] = "dead" => has_state'[k] = has_state[k]

LEMMA CallFrameKept ==
  ASSUME TypeOK, CallTreeInv, CallKept
  PROVE  CallTreeInv'
<1>1. /\ UNCHANGED <<parent, life, is_cancelling, is_cancelled, is_removed>>
      /\ parent \in [Managers -> Managers \cup {Null}]
      /\ \A k \in Managers : /\ call'[k].pc = call[k].pc
                             /\ call'[k].children = call[k].children
                             /\ call'[k].child = call[k].child
                             /\ call'[k].caller = call[k].caller
                             /\ call'[k].note = call[k].note
                             /\ call'[k].late = call[k].late
  BY DEF CallKept, TypeOK
<1>2. SUFFICES ASSUME NEW c \in Managers
      PROVE  (CallerInv(c) /\ ChildrenInv(c) /\ EndInv(c))'
  BY DEF CallTreeInv
<1>3. /\ CallerInv(c) /\ ChildrenInv(c) /\ EndInv(c)
      /\ has_state[c] => has_state'[c]
      /\ life[c] = "dead" => has_state'[c] = has_state[c]
  BY DEF CallTreeInv, CallKept
<1>4. parent[c] = Null \/ parent[c] \in Managers
  BY <1>1
<1>5. CallerInv(c)'
  BY <1>1, <1>3, <1>4 DEF CallerInv, Active
<1>6. ChildrenInv(c)'
  <2>1. call[c].children \subseteq Managers
    BY DEF TypeOK, Call
  <2> QED BY <1>1, <1>3, <1>4, <2>1 DEF ChildrenInv
<1>7. EndInv(c)'
  BY <1>1, <1>3, <1>4 DEF EndInv, Reached, Stopped
<1> QED BY <1>5, <1>6, <1>7

-----------------------------------------------------------------------------
(* DeregisterChild of a linked child closes the gap it leaves: the         *)
(* neighbours of m are joined, and what was reached through m is reached   *)
(* past it.                                                                *)
LEMMA UnlinkList ==
  ASSUME TypeOK, ListInv, NEW m \in Managers, Unlink(m), Linked(m), MayDestroy(m),
         UNCHANGED <<parent, is_cancelling, is_cancelled, has_state>>,
         \A k \in Managers \ {m} : life'[k] = life[k],
         life'[m] \in {"wait_parent", "cancel_self"}
  PROVE  ListInv'
<1>0. PICK p \in Managers, before \in Managers \cup {Null}, after \in Managers \cup {Null} :
         p = parent[m] /\ before = prev_sibling[m] /\ after = next_sibling[m]
  BY DEF TypeOK, Linked
<1>1. /\ parent \in [Managers -> Managers \cup {Null}]
      /\ first_child \in [Managers -> Managers \cup {Null}]
      /\ prev_sibling \in [Managers -> Managers \cup {Null}]
      /\ next_sibling \in [Managers -> Managers \cup {Null}]
      /\ is_removed \in [Managers -> BOOLEAN]
  BY DEF TypeOK
<1>2. /\ first_child' = IF before = Null THEN [first_child EXCEPT ![p] = after] ELSE first_child
      /\ next_sibling' = [c \in Managers |-> IF c = before THEN after ELSE next_sibling[c]]
      /\ prev_sibling' = [c \in Managers |-> IF c = after THEN before ELSE prev_sibling[c]]
      /\ is_removed' = [is_removed EXCEPT ![m] = TRUE]
  BY <1>0 DEF Unlink, Linked
<1>3. \A k \in Managers : Linked(k)' <=> Linked(k) /\ k # m
  <2> TAKE k \in Managers
  <2>1. CASE k = m
    BY <1>1, <1>2, <2>1 DEF Linked
  <2>2. CASE k # m
    BY <1>1, <1>2, <2>2 DEF Linked
  <2> QED BY <2>1, <2>2
<1>4. \A k \in Managers : HeadInv(k) /\ NextInv(k) /\ PrevInv(k) /\ ReachInv(k) /\ LiveInv(k)
                          /\ ParentInv(k)
  BY DEF ListInv
<1>5. /\ after # Null => Linked(after) /\ parent[after] = p /\ prev_sibling[after] = m
                         /\ after \in Managers
      /\ before # Null => Linked(before) /\ parent[before] = p /\ next_sibling[before] = m
                          /\ before \in Managers
      /\ before = Null => first_child[p] = m
  BY <1>0, <1>1, <1>4 DEF NextInv, PrevInv
<1>6. p # m
  BY <1>0, <1>1 DEF MayDestroy
<1>7. Null \notin Managers
  BY NullAssumption
<1> SUFFICES ASSUME NEW c \in Managers
    PROVE  (HeadInv(c) /\ NextInv(c) /\ PrevInv(c) /\ ReachInv(c) /\ LiveInv(c) /\ ParentInv(c))'
  BY DEF ListInv
<1>8. HeadInv(c)'
  <2>1. CASE c = p /\ before = Null
    <3>1. first_child'[c] = after
      BY <1>1, <1>2, <2>1
    <3>2. after # Null => after # m /\ prev_sibling'[after] = Null
      BY <1>0, <1>1, <1>2, <1>5, <1>7, <2>1
    <3> QED BY <1>3, <1>5, <2>1, <3>1, <3>2 DEF HeadInv
  <2>2. CASE ~(c = p /\ before = Null)
    <3>1. first_child'[c] = first_child[c]
      BY <1>1, <1>2, <2>2
    <3>2. first_child[c] # Null =>
             /\ first_child[c] \in Managers /\ Linked(first_child[c])
             /\ parent[first_child[c]] = c /\ prev_sibling[first_child[c]] = Null
      BY <1>1, <1>4 DEF HeadInv
    <3>3. first_child[c] # Null => first_child[c] # m
      BY <1>0, <2>2, <3>2
    <3>4. first_child[c] # Null => first_child[c] # after
      BY <1>5, <1>7, <3>2
    <3>5. first_child[c] # Null => prev_sibling'[first_child[c]] = Null
      BY <1>2, <3>2, <3>4
    <3> QED BY <1>3, <3>1, <3>2, <3>3, <3>5 DEF HeadInv
  <2> QED BY <2>1, <2>2
<1>9. NextInv(c)'
  <2> SUFFICES ASSUME NEW d \in Managers, d = next_sibling'[c], Linked(c), c # m
      PROVE  Linked(d)' /\ parent[d] = parent[c] /\ prev_sibling'[d] = c
    <3>1. next_sibling'[c] = Null \/ next_sibling'[c] \in Managers
      BY <1>1, <1>2
    <3> QED BY <1>3, <3>1 DEF NextInv
  <2>1. CASE c = before
    <3>1. d = after
      BY <1>2, <2>1
    <3>2. after # m
      BY <1>0, <1>5, <1>7, <2>1, <3>1
    <3> QED BY <1>2, <1>3, <1>5, <1>7, <2>1, <3>1, <3>2
  <2>2. CASE c # before
    <3>1. d = next_sibling[c]
      BY <1>2, <2>2
    <3>2. Linked(d) /\ parent[d] = parent[c] /\ prev_sibling[d] = c
      BY <1>4, <1>7, <3>1 DEF NextInv
    <3>3. d # m /\ d # after
      BY <1>0, <1>5, <1>7, <2>2, <3>2
    <3> QED BY <1>2, <1>3, <3>2, <3>3
  <2> QED BY <2>1, <2>2
<1>10. PrevInv(c)'
  <2> SUFFICES ASSUME NEW e \in Managers \cup {Null}, e = prev_sibling'[c], Linked(c), c # m
      PROVE  IF e = Null THEN first_child'[parent[c]] = c
             ELSE Linked(e)' /\ parent[e] = parent[c] /\ next_sibling'[e] = c
    <3>1. prev_sibling'[c] \in Managers \cup {Null}
      BY <1>1, <1>2
    <3> QED BY <1>3, <3>1 DEF PrevInv
  <2>1. CASE c = after
    <3>1. e = before /\ after # Null /\ parent[c] = p
      BY <1>2, <1>5, <1>7, <2>1
    <3>2. CASE before = Null
      BY <1>1, <1>2, <2>1, <3>1, <3>2
    <3>3. CASE before # Null
      <4>1. before # m
        BY <1>0, <1>5, <2>1, <3>3
      <4> QED BY <1>2, <1>3, <1>5, <2>1, <3>1, <3>3, <4>1
    <3> QED BY <3>2, <3>3
  <2>2. CASE c # after
    <3>1. e = prev_sibling[c] /\ PrevInv(c)
      BY <1>2, <1>4, <2>2
    <3>2. CASE e = Null
      <4>1. first_child[parent[c]] = c /\ parent[c] \in Managers
        BY <1>1, <3>1, <3>2 DEF PrevInv, Linked
      <4>2. ~(parent[c] = p /\ before = Null)
        BY <1>5, <4>1
      <4> QED BY <1>1, <1>2, <3>2, <4>1, <4>2
    <3>3. CASE e # Null
      <4>1. e \in Managers /\ Linked(e) /\ parent[e] = parent[c] /\ next_sibling[e] = c
        BY <3>1, <3>3 DEF PrevInv
      <4>2. e # m /\ e # before
        BY <1>0, <1>5, <1>7, <2>2, <4>1
      <4> QED BY <1>2, <1>3, <3>3, <4>1, <4>2
    <3> QED BY <3>2, <3>3
  <2> QED BY <2>1, <2>2
<1>11. ReachInv(c)'
  <2> SUFFICES ASSUME Linked(c), c # m PROVE c \in ChildList(parent[c])'
    BY <1>3 DEF ReachInv
  <2>1. PICK q \in Managers : q = parent[c]
    BY <1>1 DEF Linked
  <2>2. c \in ChildList(q)
    BY <1>4, <2>1 DEF ReachInv
  <2>3. SUFFICES ASSUME NEW S \in SUBSET Managers,
                        first_child'[q] # Null => first_child'[q] \in S,
                        \A d \in S : next_sibling'[d] # Null => next_sibling'[d] \in S
                 PROVE  c \in S
    BY <2>1 DEF ChildList
  <2>4. \A T \in SUBSET Managers :
           /\ first_child[q] # Null => first_child[q] \in T
           /\ \A d \in T : next_sibling[d] # Null => next_sibling[d] \in T
           => c \in T
    BY <2>2 DEF ChildList
  <2>5. CASE q # p
    <3> DEFINE T == {d \in S : Linked(d) /\ parent[d] = q}
    <3>1. first_child[q] # Null => first_child[q] \in T
      BY <1>1, <1>2, <1>4, <2>3, <2>5 DEF HeadInv
    <3>2. ASSUME NEW d \in T, next_sibling[d] # Null PROVE next_sibling[d] \in T
      <4>1. d # before
        BY <1>5, <1>7, <2>5
      <4>2. next_sibling'[d] = next_sibling[d]
        BY <1>2, <4>1
      <4> QED BY <1>4, <2>3, <3>2, <4>2 DEF NextInv
    <3>3. T \in SUBSET Managers
      OBVIOUS
    <3>4. c \in T
      <4> HIDE DEF T
      <4> QED BY <2>4, <3>1, <3>2, <3>3
    <3> QED BY <3>4
  <2>6. CASE q = p /\ before = Null
    <3>1. first_child'[q] = after
      BY <1>1, <1>2, <2>6
    <3> DEFINE T == S \cup {m}
    <3>2. first_child[q] \in T
      BY <1>5, <2>6
    <3>3. ASSUME NEW d \in T, next_sibling[d] # Null PROVE next_sibling[d] \in T
      <4>1. next_sibling'[d] = next_sibling[d]
        BY <1>2, <1>7, <2>6
      <4> QED BY <1>0, <2>3, <3>1, <3>3, <4>1
    <3>4. T \in SUBSET Managers
      OBVIOUS
    <3>5. c \in T
      <4> HIDE DEF T
      <4> QED BY <2>4, <3>2, <3>3, <3>4
    <3> QED BY <3>5
  <2>7. CASE q = p /\ before # Null /\ before \in S
    <3>1. first_child'[q] = first_child[q]
      BY <1>2, <2>7
    <3> DEFINE T == S \cup {m}
    <3>2. first_child[q] # Null => first_child[q] \in T
      BY <2>3, <3>1
    <3>3. ASSUME NEW d \in T, next_sibling[d] # Null PROVE next_sibling[d] \in T
      <4>1. CASE d = before
        BY <1>5, <2>7, <4>1
      <4>2. CASE d # before /\ d \in S
        BY <1>2, <2>3, <3>3, <4>2
      <4>3. CASE d # before /\ d = m
        <5>1. next_sibling'[before] = after
          BY <1>2, <1>5, <2>7
        <5> QED BY <1>0, <2>3, <2>7, <3>3, <4>3, <5>1
      <4> QED BY <4>1, <4>2, <4>3
    <3>4. T \in SUBSET Managers
      OBVIOUS
    <3>5. c \in T
      <4> HIDE DEF T
      <4> QED BY <2>4, <3>2, <3>3, <3>4
    <3> QED BY <3>5
  <2>8. CASE q = p /\ before # Null /\ before \notin S
    <3>1. first_child'[q] = first_child[q]
      BY <1>2, <2>8
    <3>2. ASSUME NEW d \in S, next_sibling[d] # Null PROVE next_sibling[d] \in S
      BY <1>2, <2>3, <2>8, <3>2
    <3> QED BY <2>3, <2>4, <3>1, <3>2
  <2> QED BY <2>5, <2>6, <2>7, <2>8
<1>12. LiveInv(c)'
  BY <1>1, <1>3, <1>4 DEF LiveInv, Stopped
<1>13. ParentInv(c)'
  <2>1. parent[c] = m => life[c] = "dead" /\ c # m
    BY DEF MayDestroy
  <2>2. parent[c] # Null => parent[c] \in Managers
    BY <1>1
  <2>3. c = m => life[p] = "live" /\ life'[p] = "live"
    BY <1>0, <1>1, <1>4, <1>6 DEF ParentInv, MayDestroy, Linked
  <2>4. ~Unready(m)' /\ life'[m] # "unborn" /\ life'[m] # "dead" /\ life[m] = "live"
    BY DEF MayDestroy, Unready
  <2>5. CASE c = m
    BY <1>0, <1>1, <1>7, <2>3, <2>4, <2>5 DEF ParentInv, Unready
  <2>6. CASE c # m
    <3>1. life'[c] = life[c] /\ is_removed'[c] = is_removed[c] /\ ParentInv(c)
      BY <1>1, <1>2, <1>4, <2>6
    <3> QED BY <2>1, <2>2, <2>4, <2>6, <3>1 DEF ParentInv, Unready, Stopped
  <2> QED BY <2>5, <2>6
<1> QED BY <1>8, <1>9, <1>10, <1>11, <1>12, <1>13

(* RegisterChild of a parent that is not stopped puts m before the head.   *)
LEMMA RegisterList ==
  ASSUME TypeOK, LinkInv, ListInv, NEW p \in Managers, NEW m \in Managers,
         NewChild(p, m), ~Stopped(p)
  PROVE  ListInv'
<1>0. PICK head \in Managers \cup {Null} : head = first_child[p]
  BY DEF TypeOK
<1>1. /\ parent \in [Managers -> Managers \cup {Null}]
      /\ first_child \in [Managers -> Managers \cup {Null}]
      /\ prev_sibling \in [Managers -> Managers \cup {Null}]
      /\ next_sibling \in [Managers -> Managers \cup {Null}]
      /\ life \in [Managers -> Life]
      /\ has_state \in [Managers -> BOOLEAN]
  BY DEF TypeOK
<1>2. /\ first_child' = [first_child EXCEPT ![p] = m]
      /\ next_sibling' = [next_sibling EXCEPT ![m] = head]
      /\ prev_sibling' = [c \in Managers |-> IF c = m THEN Null
                              ELSE IF c = head THEN m ELSE prev_sibling[c]]
      /\ has_state' = [has_state EXCEPT ![p] = TRUE]
      /\ parent' = [parent EXCEPT ![m] = p]
      /\ life' = [life EXCEPT ![m] = "constructing"]
      /\ UNCHANGED <<is_removed, is_cancelling>>
      /\ \A k \in Managers \ {m} : is_cancelled'[k] = is_cancelled[k]
      /\ life[m] = "unborn" /\ life[p] = "live" /\ m # p
  <2>1. RegisterChild(p, m)
    BY DEF NewChild
  <2>2. \A k \in Managers \ {m} : is_cancelled'[k] = is_cancelled[k]
    BY DEF NewChild, TypeOK
  <2>3. /\ UNCHANGED is_cancelling /\ parent' = [parent EXCEPT ![m] = p]
        /\ life[m] = "unborn" /\ life[p] = "live"
    BY DEF NewChild
  <2> QED BY <1>0, <2>1, <2>2, <2>3 DEF RegisterChild
<1>3. \A k \in Managers : HeadInv(k) /\ NextInv(k) /\ PrevInv(k) /\ ReachInv(k) /\ LiveInv(k)
                          /\ ParentInv(k)
  BY DEF ListInv
<1>4. Null \notin Managers
  BY NullAssumption
<1>5. \A k \in Managers : Linked(k)' <=> Linked(k) \/ k = m
  <2> TAKE k \in Managers
  <2>1. CASE k = m
    BY <1>1, <1>2, <1>3, <1>4, <2>1 DEF Linked, ParentInv
  <2>2. CASE k # m
    BY <1>1, <1>2, <2>2 DEF Linked
  <2> QED BY <2>1, <2>2
<1>6. /\ ~Linked(m)
      /\ \A k \in Managers : first_child[k] # m /\ next_sibling[k] # m
      /\ head # m
  BY <1>0, <1>2, <1>4 DEF Linked, LinkInv, Born, Detached
<1>7. /\ parent'[m] = p
      /\ \A k \in Managers \ {m} : parent'[k] = parent[k] /\ life'[k] = life[k]
                                   /\ next_sibling'[k] = next_sibling[k]
      /\ \A k \in Managers \ {p} : first_child'[k] = first_child[k]
      /\ first_child'[p] = m /\ next_sibling'[m] = head /\ prev_sibling'[m] = Null
      /\ life'[m] = "constructing"
      /\ \A k \in Managers \ {m, head} : prev_sibling'[k] = prev_sibling[k]
  BY <1>1, <1>2
<1>8. head # Null => /\ head \in Managers /\ Linked(head) /\ parent[head] = p
                     /\ prev_sibling[head] = Null /\ prev_sibling'[head] = m
  BY <1>0, <1>2, <1>3, <1>6 DEF HeadInv
<1> SUFFICES ASSUME NEW c \in Managers
    PROVE  (HeadInv(c) /\ NextInv(c) /\ PrevInv(c) /\ ReachInv(c) /\ LiveInv(c) /\ ParentInv(c))'
  BY DEF ListInv
<1>9. HeadInv(c)'
  <2>1. CASE c = p
    BY <1>5, <1>7, <2>1 DEF HeadInv
  <2>2. CASE c # p
    <3> SUFFICES ASSUME NEW d \in Managers, d = first_child'[c]
        PROVE  Linked(d)' /\ parent'[d] = c /\ prev_sibling'[d] = Null
      BY <1>1, <1>7, <2>2 DEF HeadInv
    <3>1. /\ d = first_child[c] /\ d # m /\ Linked(d) /\ parent[d] = c /\ prev_sibling[d] = Null
      BY <1>3, <1>4, <1>6, <1>7, <2>2 DEF HeadInv
    <3>2. d # head
      BY <1>4, <1>8, <2>2, <3>1
    <3> QED BY <1>5, <1>7, <3>1, <3>2
  <2> QED BY <2>1, <2>2
<1>10. NextInv(c)'
  <2> SUFFICES ASSUME NEW d \in Managers, d = next_sibling'[c], Linked(c)'
      PROVE  Linked(d)' /\ parent'[d] = parent'[c] /\ prev_sibling'[d] = c
    <3>1. next_sibling'[c] \in Managers \cup {Null}
      BY <1>1, <1>2
    <3> QED BY <3>1 DEF NextInv
  <2>1. CASE c = m
    BY <1>4, <1>5, <1>6, <1>7, <1>8, <2>1
  <2>2. CASE c # m
    <3>1. d = next_sibling[c] /\ Linked(c) /\ d # m
      BY <1>5, <1>6, <1>7, <2>2
    <3>2. Linked(d) /\ parent[d] = parent[c] /\ prev_sibling[d] = c
      BY <1>3, <1>4, <3>1 DEF NextInv
    <3>3. d # head
      BY <1>4, <1>8, <3>2
    <3> QED BY <1>5, <1>7, <2>2, <3>1, <3>2, <3>3
  <2> QED BY <2>1, <2>2
<1>11. PrevInv(c)'
  <2>1. CASE c = m
    BY <1>7, <2>1 DEF PrevInv
  <2>2. CASE c # m /\ c = head
    <3>1. prev_sibling'[c] = m /\ m # Null
      BY <1>4, <1>8, <2>2
    <3>2. Linked(m)' /\ parent'[m] = p /\ parent'[c] = p /\ next_sibling'[m] = c
      BY <1>4, <1>5, <1>7, <1>8, <2>2
    <3> QED BY <3>1, <3>2 DEF PrevInv
  <2>3. CASE c # m /\ c # head
    <3> SUFFICES ASSUME NEW e \in Managers \cup {Null}, e = prev_sibling'[c], Linked(c)
        PROVE  IF e = Null THEN first_child'[parent'[c]] = c
               ELSE Linked(e)' /\ parent'[e] = parent'[c] /\ next_sibling'[e] = c
      <4>1. prev_sibling'[c] \in Managers \cup {Null}
        BY <1>1, <1>7, <2>3
      <4> QED BY <1>5, <2>3, <4>1 DEF PrevInv
    <3>1. e = prev_sibling[c] /\ PrevInv(c) /\ parent'[c] = parent[c] /\ parent[c] \in Managers
      BY <1>1, <1>3, <1>7, <2>3 DEF Linked
    <3>2. CASE e = Null
      <4>1. first_child[parent[c]] = c
        BY <3>1, <3>2 DEF PrevInv
      <4>2. parent[c] # p
        BY <1>0, <2>3, <4>1
      <4> QED BY <1>7, <3>1, <3>2, <4>1, <4>2
    <3>3. CASE e # Null
      <4>1. e \in Managers /\ Linked(e) /\ parent[e] = parent[c] /\ next_sibling[e] = c
        BY <3>1, <3>3 DEF PrevInv
      <4> QED BY <1>5, <1>6, <1>7, <3>1, <3>3, <4>1
    <3> QED BY <3>2, <3>3
  <2> QED BY <2>1, <2>2, <2>3
<1>12. ReachInv(c)'
  <2> SUFFICES ASSUME Linked(c)' PROVE c \in ChildList(parent[c])'
    BY DEF ReachInv
  <2>1. PICK q \in Managers : q = parent'[c]
    BY <1>1, <1>5, <1>7 DEF Linked
  <2>2. SUFFICES ASSUME NEW S \in SUBSET Managers,
                        first_child'[q] # Null => first_child'[q] \in S,
                        \A d \in S : next_sibling'[d] # Null => next_sibling'[d] \in S
                 PROVE  c \in S
    BY <2>1 DEF ChildList
  <2>3. CASE c = m
    BY <1>4, <1>7, <2>1, <2>2, <2>3
  <2>4. CASE c # m
    <3>1. c \in ChildList(q)
      BY <1>3, <1>5, <1>7, <2>1, <2>4 DEF ReachInv
    <3> DEFINE T == S \ {m}
    <3>2. first_child[q] # Null => first_child[q] \in T
      <4>1. CASE q = p
        <5>1. m \in S /\ first_child[q] = head
          BY <1>0, <1>4, <1>7, <2>2, <4>1
        <5> QED BY <1>6, <1>7, <2>2, <5>1
      <4>2. CASE q # p
        BY <1>6, <1>7, <2>2, <4>2
      <4> QED BY <4>1, <4>2
    <3>3. ASSUME NEW d \in T, next_sibling[d] # Null PROVE next_sibling[d] \in T
      BY <1>6, <1>7, <2>2, <3>3
    <3>4. T \in SUBSET Managers
      OBVIOUS
    <3>5. c \in T
      <4> HIDE DEF T
      <4> QED BY <3>1, <3>2, <3>3, <3>4 DEF ChildList
    <3> QED BY <3>5
  <2> QED BY <2>3, <2>4
<1>13. LiveInv(c)'
  <2>1. has_state'[p] /\ \A k \in Managers : has_state[k] => has_state'[k]
    BY <1>1, <1>2
  <2>2. CASE c = m
    BY <1>2, <1>7, <2>1, <2>2 DEF LiveInv, Stopped
  <2>3. CASE c # m
    <3>1. Linked(c) => parent[c] \in Managers \ {m}
      BY <1>1, <1>2, <1>3 DEF Linked, ParentInv, Unready
    <3> QED BY <1>2, <1>3, <1>5, <1>7, <2>1, <2>3, <3>1 DEF LiveInv, Stopped
  <2> QED BY <2>2, <2>3
<1>14. ParentInv(c)'
  <2>1. CASE c = m
    BY <1>2, <1>7, <2>1 DEF ParentInv, Unready
  <2>2. CASE c # m
    <3>1. parent[c] # Null => parent[c] \in Managers \ {m}
      BY <1>1, <1>2, <1>3 DEF ParentInv, Unready
    <3> QED BY <1>1, <1>2, <1>3, <1>7, <2>2, <3>1 DEF ParentInv, Unready, Stopped
  <2> QED BY <2>1, <2>2
<1> QED BY <1>9, <1>10, <1>11, <1>12, <1>13, <1>14

-----------------------------------------------------------------------------
(* The first critical section of StartCancel, whoever calls it: the whole  *)
(* list leaves the manager, and nothing else is unlinked.                  *)
LEMMA EnterList ==
  ASSUME TypeOK, ListInv, NEW m \in Managers, EnterStartCancel(m), life[m] # "unborn",
         \A k \in Managers \ {m} : life'[k] = life[k],
         life'[m] = life[m] \/ (life[m] = "cancel_self" /\ life'[m] = "in_cancel")
  PROVE  /\ ListInv'
         /\ \A k \in Managers : is_removed'[k] <=> is_removed[k] \/ (Linked(k) /\ parent[k] = m)
<1>1. /\ parent \in [Managers -> Managers \cup {Null}]
      /\ first_child \in [Managers -> Managers \cup {Null}]
      /\ is_cancelling \in [Managers -> BOOLEAN]
      /\ is_removed \in [Managers -> BOOLEAN]
  BY DEF TypeOK
<1>2. /\ first_child'[m] = Null
      /\ \A k \in Managers \ {m} : first_child'[k] = first_child[k]
                                   /\ is_cancelling'[k] = is_cancelling[k]
      /\ UNCHANGED <<parent, is_cancelled, has_state, prev_sibling, next_sibling>>
  BY <1>1 DEF EnterStartCancel
<1>3. \A k \in Managers : is_removed'[k] <=> is_removed[k] \/ (Linked(k) /\ parent[k] = m)
  BY ChildListIs DEF EnterStartCancel
<1>4. \A k \in Managers : Linked(k)' <=> Linked(k) /\ parent[k] # m
  <2> TAKE k \in Managers
  <2>1. life'[k] = "unborn" <=> life[k] = "unborn"
    BY DEF TypeOK
  <2> QED BY <1>2, <1>3, <2>1 DEF Linked
<1>5. \A k \in Managers : HeadInv(k) /\ NextInv(k) /\ PrevInv(k) /\ ReachInv(k) /\ LiveInv(k)
                          /\ ParentInv(k)
  BY DEF ListInv
<1> SUFFICES ASSUME NEW c \in Managers
    PROVE  (HeadInv(c) /\ NextInv(c) /\ PrevInv(c) /\ ReachInv(c) /\ LiveInv(c) /\ ParentInv(c))'
  BY <1>3 DEF ListInv
<1>6. HeadInv(c)'
  BY <1>1, <1>2, <1>4, <1>5 DEF HeadInv
<1>7. NextInv(c)'
  <2>1. next_sibling[c] \in Managers \cup {Null}
    BY DEF TypeOK
  <2> QED BY <1>2, <1>4, <1>5, <2>1 DEF NextInv
<1>8. PrevInv(c)'
  <2>1. prev_sibling[c] \in Managers \cup {Null}
    BY DEF TypeOK
  <2>2. Linked(c)' => parent[c] \in Managers \ {m}
    BY <1>1, <1>4 DEF Linked
  <2> QED BY <1>2, <1>4, <1>5, <2>1, <2>2 DEF PrevInv
<1>9. ReachInv(c)'
  <2>1. \A q \in Managers \ {m} : ChildList(q)' = ChildList(q)
    BY <1>2 DEF ChildList
  <2>2. Linked(c)' => parent[c] \in Managers \ {m}
    BY <1>1, <1>4 DEF Linked
  <2> QED BY <1>2, <1>4, <1>5, <2>1, <2>2 DEF ReachInv
<1>10. LiveInv(c)'
  <2>1. Linked(c)' => parent[c] \in Managers \ {m} /\ life'[c] \in {"constructing", "live"}
    BY <1>1, <1>4, <1>5 DEF Linked, LiveInv
  <2> QED BY <1>2, <1>4, <1>5, <2>1 DEF LiveInv, Stopped
<1>11. ParentInv(c)'
  <2>1. \A k \in Managers : /\ life'[k] = "unborn" <=> life[k] = "unborn"
                            /\ life'[k] = "dead" <=> life[k] = "dead"
                            /\ life[k] = "live" => life'[k] = "live"
                            /\ Unready(k)' => Unready(k)
    BY DEF TypeOK, Unready
  <2>2. life'[c] = "unborn" => c # m /\ ~is_removed'[c] /\ ~Stopped(c)'
    BY <1>2, <1>3, <1>5, <2>1 DEF ParentInv, Stopped, Linked
  <2> QED BY <1>1, <1>2, <1>5, <2>1, <2>2 DEF ParentInv
<1> QED BY <1>6, <1>7, <1>8, <1>9, <1>10, <1>11

(* The call frames after that section.  The other calls are as they were,  *)
(* but for the parent that calls: it goes from "children" to "in_child".   *)
LEMMA EnterCalls ==
  ASSUME TypeOK, CallbackInv, TreeInv, NEW m \in Managers, EnterStartCancel(m),
         life[m] # "unborn",
         NEW who \in {"client", "parent", "destructor"}, call'[m] = CallFrame(m, who),
         \A k \in Managers \ {m} : life'[k] = life[k],
         life'[m] = life[m] \/ (life[m] = "cancel_self" /\ life'[m] = "in_cancel"),
         \A k \in Managers \ {m} :
            /\ call'[k].children = call[k].children /\ call'[k].caller = call[k].caller
            /\ call'[k].note = call[k].note /\ call[k].late \subseteq call'[k].late
            /\ \/ /\ call'[k].pc = call[k].pc /\ call'[k].child = call[k].child
                  /\ call'[k].late = call[k].late
               \/ /\ call[k].pc = "children" /\ call'[k].pc = "in_child"
                  /\ call'[k].child = m /\ m \in call[k].children,
         who = "client" => life'[m] = "live",
         who = "destructor" => life'[m] = "in_cancel" /\ has_state[m],
         who = "parent" => /\ parent[m] \in Managers
                           /\ life'[m] \in {"constructing", "live", "wait_parent"}
                           /\ life'[m] = "constructing" => m \in call'[parent[m]].late
                           /\ call'[parent[m]].pc = "in_child" /\ call'[parent[m]].child = m
  PROVE  TreeInv'
<1>1. ListInv' /\ \A k \in Managers : is_removed'[k] <=> is_removed[k] \/ (Linked(k) /\ parent[k] = m)
  BY EnterList DEF TreeInv
<1>2. /\ parent \in [Managers -> Managers \cup {Null}]
      /\ is_cancelling'[m]
      /\ \A k \in Managers \ {m} : is_cancelling'[k] = is_cancelling[k]
      /\ UNCHANGED <<parent, is_cancelled, has_state>>
      /\ ~Stopped(m)
  BY DEF TypeOK, EnterStartCancel
<1>3. /\ call'[m].children = {c \in Managers : Linked(c) /\ parent[c] = m}
      /\ call'[m].pc = "callbacks"
      /\ call'[m].caller = who
      /\ call'[m].note = has_state[m]
      /\ call'[m].late = {}
  BY CallFrameType, ChildListIs DEF TreeInv
<1>4. /\ \A k \in Managers : CallerInv(k) /\ ChildrenInv(k) /\ EndInv(k) /\ LiveInv(k)
                             /\ ManagerInv(k)
  BY DEF TreeInv, CallTreeInv, ListInv, CallbackInv, KInv
<1>5. call[m].children = {} /\ call[m].pc # "in_child" /\ call[m].late = {}
  BY <1>2, <1>4 DEF ChildrenInv, ManagerInv, Stopped
<1>6. \A k \in Managers : call[k].children \subseteq Managers
  BY DEF TypeOK, Call
<1> SUFFICES ASSUME NEW c \in Managers PROVE (CallerInv(c) /\ ChildrenInv(c) /\ EndInv(c))'
  BY <1>1 DEF TreeInv, CallTreeInv
<1>7. CallerInv(c)'
  <2>1. CASE c = m
    <3>1. who = "parent" => parent[m] # Null
      BY NullAssumption
    <3> QED BY <1>2, <1>3, <2>1, <3>1 DEF CallerInv
  <2>2. CASE c # m
    <3> SUFFICES ASSUME Active(c)'
        PROVE  \/ call'[c].caller = "client" /\ life'[c] = "live"
               \/ call'[c].caller = "destructor" /\ life'[c] = "in_cancel"
               \/ /\ call'[c].caller = "parent" /\ parent'[c] # Null
                  /\ call'[parent'[c]].pc = "in_child"
                  /\ call'[parent'[c]].child = c
      BY DEF CallerInv
    <3>1. Active(c)
      BY <2>2 DEF Active
    <3>2. CASE call[c].caller = "parent" /\ parent[c] # Null
               /\ call[parent[c]].pc = "in_child" /\ call[parent[c]].child = c
      <4>1. parent[c] \in Managers \ {m}
        BY <1>2, <1>5, <3>2
      <4> QED BY <1>2, <2>2, <3>2, <4>1
    <3> QED BY <1>4, <2>2, <3>1, <3>2 DEF CallerInv
  <2> QED BY <2>1, <2>2
<1>8. ChildrenInv(c)'
  <2>1. CASE c = m
    <3>1. \A d \in call'[m].children :
             d \in Managers /\ parent[d] = m /\ is_removed'[d] /\ has_state[m]
             /\ life'[d] \in {"constructing", "live", "wait_parent"}
      BY <1>1, <1>3, <1>4 DEF LiveInv
    <3> QED BY <1>2, <1>3, <2>1, <3>1 DEF ChildrenInv
  <2>2. CASE c # m
    <3>1. \A d \in call[c].children :
             life'[d] \in {"constructing", "live", "wait_parent"} /\ is_removed'[d]
      BY <1>1, <1>4, <1>6 DEF ChildrenInv
    <3>2. call'[c].late # {} => call'[c].note
      BY <1>4, <2>2 DEF ChildrenInv
    <3>3. call'[c].pc = "in_child" => /\ call'[c].child \in call'[c].children
                                      /\ call'[call'[c].child].pc # "none"
      <4> SUFFICES ASSUME call'[c].pc = "in_child"
          PROVE  call'[c].child \in call'[c].children /\ call'[call'[c].child].pc # "none"
        OBVIOUS
      <4>1. CASE call[c].pc = "children" /\ call'[c].child = m /\ m \in call[c].children
        BY <1>3, <2>2, <4>1
      <4>2. CASE call[c].pc = "in_child" /\ call'[c].child = call[c].child
        <5>1. /\ call[c].child \in call[c].children /\ call[call[c].child].pc # "none"
              /\ call[c].child \in Managers
          BY <1>4, <1>6, <4>2 DEF ChildrenInv
        <5> QED BY <1>3, <2>2, <4>2, <5>1
      <4> QED BY <2>2, <4>1, <4>2
    <3> QED BY <1>2, <1>4, <2>2, <3>1, <3>2, <3>3 DEF ChildrenInv
  <2> QED BY <2>1, <2>2
<1>9. EndInv(c)'
  <2>1. life'[c] = "dead" => is_cancelled'[c] \/ ~has_state'[c]
    BY <1>2, <1>4 DEF EndInv
  <2>2. life'[c] = "in_cancel" => call'[c].note
    BY <1>3, <1>4 DEF EndInv
  <2>3. c # m /\ Reached(c) => Reached(c)'
    <3>1. Reached(c) => parent[c] \in Managers \ {m}
      BY <1>2, <1>5 DEF Reached
    <3> QED BY <1>2, <3>1 DEF Reached
  <2>4. life'[m] = "constructing" => Reached(m)'
    BY <1>2, NullAssumption DEF Reached
  <2>5. ASSUME parent'[c] # Null, life'[c] = "constructing" \/ (life'[c] = "live" /\ ~Stopped(c)')
        PROVE  ~is_removed'[c] \/ c \in call'[parent'[c]].children \/ Reached(c)'
    <3>0. CASE c = m
      <4>1. Stopped(m)'
        BY <1>2 DEF Stopped
      <4> QED BY <2>4, <2>5, <3>0, <4>1
    <3>1. CASE c # m
      <4>1. /\ life[c] = "constructing" \/ (life[c] = "live" /\ ~Stopped(c))
            /\ parent'[c] = parent[c] /\ parent[c] \in Managers
        BY <1>2, <2>5, <3>1 DEF Stopped
      <4>2. ~is_removed[c] \/ c \in call[parent[c]].children \/ Reached(c)
        BY <1>4, <2>5, <4>1 DEF EndInv
      <4>3. CASE parent[c] = m
        <5>1. ~is_removed[c]
          BY <1>5, <4>2, <4>3 DEF Reached
        <5> QED BY <1>3, <2>5, <4>1, <4>3, <5>1 DEF Linked
      <4>4. CASE parent[c] # m
        BY <1>1, <2>3, <3>1, <4>1, <4>2, <4>4
      <4> QED BY <4>3, <4>4
    <3> QED BY <3>0, <3>1
  <2>6. call'[c].pc = "done" => is_cancelled'[c] \/ Reached(c)'
    BY <1>2, <1>3, <1>4, <2>3 DEF EndInv
  <2>7. life'[c] = "constructing" /\ call'[c].pc # "none" => Reached(c)'
    <3>1. CASE c = m
      BY <2>4, <3>1
    <3>2. CASE c # m
      <4>1. call'[c].pc # "none" => call[c].pc # "none"
        BY <3>2
      <4> QED BY <1>4, <2>3, <3>2, <4>1 DEF EndInv
    <3> QED BY <3>1, <3>2
  <2> QED BY <2>1, <2>2, <2>5, <2>6, <2>7 DEF EndInv
<1> QED BY <1>7, <1>8, <1>9

-----------------------------------------------------------------------------
(* A step of m's constructor or destructor that leaves the calls alone.    *)
LEMMA LifeCalls ==
  ASSUME TypeOK, CallTreeInv, NEW m \in Managers,
         UNCHANGED <<parent, is_cancelling, has_state, call>>,
         \A k \in Managers \ {m} : /\ life'[k] = life[k] /\ is_removed'[k] = is_removed[k]
                                   /\ is_cancelled'[k] = is_cancelled[k],
         is_removed[m] => is_removed'[m],
         CallerInv(m)', EndInv(m)',
         \A k \in Managers : m \in call[k].children =>
                               life'[m] \in {"constructing", "live", "wait_parent"}
  PROVE  CallTreeInv'
<1> SUFFICES ASSUME NEW c \in Managers, CallerInv(c), ChildrenInv(c), EndInv(c),
                    call[c].children \subseteq Managers
             PROVE  (CallerInv(c) /\ ChildrenInv(c) /\ EndInv(c))'
  BY DEF CallTreeInv, TypeOK, Call
<1>1. CallerInv(c)'
  BY DEF CallerInv, Active
<1>2. ChildrenInv(c)'
  BY DEF ChildrenInv
<1>3. EndInv(c)'
  BY DEF EndInv, Stopped, Reached
<1> QED BY <1>1, <1>2, <1>3

(* A step of the StartCancel of m that moves on, and strikes out only      *)
(* children that are stopped.                                              *)
LEMMA CallMoves ==
  ASSUME TypeOK, CallTreeInv, NEW m \in Managers,
         UNCHANGED <<parent, life, has_state, is_removed>>,
         \A k \in Managers \ {m} : call'[k] = call[k] /\ is_cancelling'[k] = is_cancelling[k],
         \A k \in Managers : /\ Stopped(k) => Stopped(k)'
                             /\ is_cancelled[k] => is_cancelled'[k],
         Active(m)' => Active(m), call'[m].caller = call[m].caller,
         call'[m].note = call[m].note, call[m].late \subseteq call'[m].late,
         call[m].pc = "in_child" =>
            ~Active(call[m].child) \/ call[call[m].child].caller # "parent",
         call[m].pc # "none", call'[m].pc # "none",
         call'[m].pc = "done" => call[m].pc = "done" \/ is_cancelled'[m],
         ChildrenInv(m)',
         \A c \in call[m].children : \/ c \in call'[m].children \/ c \in call'[m].late
                                      \/ (Stopped(c)' /\ life[c] # "constructing")
  PROVE  CallTreeInv'
<1> SUFFICES ASSUME NEW c \in Managers, CallerInv(c), ChildrenInv(c), EndInv(c),
                    parent[c] \in Managers \cup {Null}
             PROVE  (CallerInv(c) /\ ChildrenInv(c) /\ EndInv(c))'
  BY DEF CallTreeInv, TypeOK
<1>1. CallerInv(c)'
  <2>1. Active(c)' => Active(c) /\ call'[c].caller = call[c].caller
    BY DEF Active
  <2>2. Active(c) /\ call[c].caller = "parent" /\ parent[c] # Null
        /\ call[parent[c]].pc = "in_child" /\ call[parent[c]].child = c
        => parent[c] \in Managers \ {m}
    OBVIOUS
  <2> QED BY <2>1, <2>2 DEF CallerInv
<1>2. ChildrenInv(c)'
  <2>1. CASE c = m
    BY <2>1
  <2>2. CASE c # m
    <3>1. call[c].children \subseteq Managers
      BY DEF TypeOK, Call
    <3>2. call[c].pc = "in_child" => call'[call[c].child].pc # "none"
      BY <3>1 DEF ChildrenInv
    <3> QED BY <2>2, <3>2 DEF ChildrenInv
  <2> QED BY <2>1, <2>2
<1>3. EndInv(c)'
  <2>1. Reached(c) => Reached(c)'
    BY DEF Reached
  <2>2. parent[c] # Null /\ c \in call[parent[c]].children =>
          \/ c \in call'[parent[c]].children \/ Reached(c)'
          \/ (Stopped(c)' /\ life[c] # "constructing")
    BY DEF Reached
  <2>3. call'[c].pc = "done" => is_cancelled'[c] \/ Reached(c)'
    BY <2>1 DEF EndInv
  <2>4. life'[c] = "constructing" /\ call'[c].pc # "none" => Reached(c)'
    BY <2>1 DEF EndInv
  <2>5. life'[c] = "in_cancel" => call'[c].note
    BY DEF EndInv
  <2> QED BY <2>1, <2>2, <2>3, <2>4, <2>5 DEF EndInv
<1> QED BY <1>1, <1>2, <1>3

(* ListInv when neither the links nor the flags it reads change, and       *)
(* managers only move on in their lives.                                   *)
LEMMA LifeList ==
  ASSUME TypeOK, ListInv, NEW m \in Managers, UNCHANGED <<parent, links>>,
         \A k \in Managers : /\ Stopped(k)' <=> Stopped(k)
                             /\ has_state[k] => has_state'[k],
         \A k \in Managers \ {m} : life'[k] = life[k],
         ~Unready(m)' \/ life'[m] = life[m],
         life[m] = "unborn" => parent[m] = Null,
         life'[m] = life[m] \/ (~Linked(m) /\ life[m] # "dead"
                                /\ \A c \in Managers : parent[c] = m => life[c] = "dead" /\ c # m)
  PROVE  ListInv'
<1>1. UNCHANGED <<parent, first_child, prev_sibling, next_sibling, is_removed>>
  BY DEF links
<1>2. \A k \in Managers : LiveInv(k) /\ ParentInv(k) /\ parent[k] \in Managers \cup {Null}
  BY DEF ListInv, TypeOK
<1>3. ASSUME NEW k \in Managers PROVE Linked(k)' <=> Linked(k)
  BY <1>1 DEF Linked
<1>4. ASSUME NEW k \in Managers PROVE LiveInv(k)'
  <2>1. Linked(k) => k # m \/ life'[k] = life[k]
    OBVIOUS
  <2> QED BY <1>1, <1>2, <1>3, <2>1 DEF LiveInv, Linked
<1>5. ASSUME NEW k \in Managers PROVE ParentInv(k)'
  <2>1. CASE life'[m] = life[m]
    BY <1>1, <1>2, <2>1 DEF ParentInv, Unready
  <2>2. CASE life'[m] # life[m] /\ k = m
    <3>1. parent[m] # m /\ life'[m] # "unborn" /\ life[m] # "dead"
      BY <2>2 DEF Unready
    <3> QED BY <1>1, <1>2, <2>2, <3>1 DEF ParentInv, Unready
  <2>3. CASE life'[m] # life[m] /\ k # m
    <3>1. ~Unready(m)' /\ (parent[k] = m => life[k] = "dead")
      BY <2>3
    <3> QED BY <1>1, <1>2, <2>3, <3>1 DEF ParentInv, Unready
  <2> QED BY <2>1, <2>2, <2>3
<1> QED BY <1>1, <1>3, <1>4, <1>5, ListFrame DEF ListKept

(* A step that leaves the whole tree alone.                                *)
LEMMA QuietTree ==
  ASSUME TypeOK, TreeInv, UNCHANGED <<life, parent, is_cancelling, is_cancelled, links>>,
         \A k \in Managers : /\ call'[k].pc = call[k].pc
                             /\ call'[k].children = call[k].children
                             /\ call'[k].child = call[k].child
                             /\ call'[k].caller = call[k].caller
                             /\ call'[k].note = call[k].note
                             /\ call'[k].late = call[k].late
                             /\ has_state[k] => has_state'[k]
                             /\ life[k] = "dead" => has_state'[k] = has_state[k]
  PROVE  TreeInv'
<1>1. CallTreeInv'
  BY CallFrameKept DEF TreeInv, CallKept, links
<1>2. ASSUME NEW k \in Managers PROVE ListInv'
  <2>1. life[k] = "unborn" => parent[k] = Null
    BY DEF TreeInv, ListInv, ParentInv
  <2> QED BY <2>1, LifeList DEF TreeInv, Stopped
<1>3. ASSUME Managers = {} PROVE ListInv'
  BY <1>3 DEF ListInv
<1> QED BY <1>1, <1>2, <1>3 DEF TreeInv

(* A manager past the wait of its destructor is not being cancelled.       *)
LEMMA PastTheWait ==
  ASSUME TypeOK, CallTreeInv, NEW m \in Managers, life[m] \in {"cancel_self", "dead", "unborn"}
  PROVE  ~Active(m) /\ \A k \in Managers : m \notin call[k].children
<1>1. \A k \in Managers : m \notin call[k].children
  BY DEF CallTreeInv, ChildrenInv
<1>2. parent[m] = Null \/ parent[m] \in Managers
  BY DEF TypeOK
<1> QED BY <1>1, <1>2 DEF CallTreeInv, CallerInv, ChildrenInv

-----------------------------------------------------------------------------
LEMMA TreeStep == TypeOK /\ LinkInv /\ CallbackInv /\ TreeInv /\ [Next]_vars => TreeInv'
<1>1. SUFFICES ASSUME TypeOK, LinkInv, CallbackInv, TreeInv, [Next]_vars PROVE TreeInv'
  OBVIOUS
<1>2. ListInv /\ CallTreeInv /\ \A k \in Managers : ManagerInv(k) /\ call[k] \in Call
  BY <1>1 DEF TreeInv, CallbackInv, KInv, TypeOK
<1>3. \A k \in Managers : /\ LiveInv(k) /\ ParentInv(k)
                          /\ CallerInv(k) /\ ChildrenInv(k) /\ EndInv(k)
                          /\ parent[k] \in Managers \cup {Null}
  BY <1>1, <1>2 DEF ListInv, CallTreeInv, TypeOK
<1>4. ASSUME NEW m \in Managers, New(m) PROVE TreeInv'
  <2>1. /\ life[m] = "unborn" /\ life'[m] = "live"
        /\ \A k \in Managers \ {m} : life'[k] = life[k]
        /\ UNCHANGED <<fields, links, call, cb, dereg>>
    BY <1>1, <1>4 DEF New, TypeOK
  <2>2. /\ parent[m] = Null /\ ~Active(m)
        /\ \A c \in Managers : parent[c] # m
        /\ \A k \in Managers : m \notin call[k].children
    BY <1>1, <1>2, <1>3, <2>1, PastTheWait, NullAssumption DEF ParentInv, Unready
  <2>3. ListInv'
    BY <1>1, <1>2, <2>1, <2>2, LifeList DEF fields, Linked, Stopped, Unready
  <2>4. CallerInv(m)' /\ EndInv(m)'
    <3>1. call[m].pc = "none"
      BY <1>2, <2>1 DEF ManagerInv, Detached
    <3> QED BY <2>1, <2>2, <3>1 DEF CallerInv, Active, EndInv, fields
  <2>5. CallTreeInv'
    BY <1>1, <1>2, <2>1, <2>2, <2>4, LifeCalls DEF fields, links
  <2> QED BY <2>3, <2>5 DEF TreeInv
<1>5. ASSUME NEW m \in Managers, NEW p \in Managers, NewChild(p, m) PROVE TreeInv'
  <2>0. RegisterChild(p, m)
    BY <1>5 DEF NewChild
  <2>1. /\ life[m] = "unborn" /\ life[p] = "live" /\ m # p
        /\ parent' = [parent EXCEPT ![m] = p]
        /\ UNCHANGED <<is_cancelling, call>>
    BY <1>5 DEF NewChild
  <2>2. /\ parent[m] = Null /\ ~Active(m)
        /\ \A c \in Managers : parent[c] # m
        /\ \A k \in Managers : m \notin call[k].children
        /\ ~is_removed[m] /\ ~Linked(m) /\ call[m].pc = "none"
    BY <1>1, <1>2, <1>3, <2>1, PastTheWait, NullAssumption
       DEF ParentInv, Linked, Unready, ManagerInv, Detached
  <2>3. /\ \A k \in Managers \ {m} : /\ is_removed'[k] = is_removed[k]
                                     /\ is_cancelled'[k] = is_cancelled[k]
                                     /\ life'[k] = life[k] /\ parent'[k] = parent[k]
        /\ parent'[m] = p /\ life'[m] \in {"constructing", "refused"}
        /\ \A k \in Managers : /\ has_state[k] => has_state'[k]
                               /\ k # p => has_state'[k] = has_state[k]
        /\ Stopped(p) => is_removed'[m] /\ UNCHANGED has_state /\ life'[m] = "refused"
        /\ ~Stopped(p) => ~is_removed'[m]
    <3>1. \A k \in Managers \ {m} : is_cancelled'[k] = is_cancelled[k]
      BY <1>1, <1>5 DEF NewChild, TypeOK
    <3>2. \A k \in Managers \ {m} : parent'[k] = parent[k]
      BY <1>1, <2>1 DEF TypeOK
    <3>3. parent'[m] = p
      BY <1>1, <2>1 DEF TypeOK
    <3>4. /\ \A k \in Managers \ {m} : is_removed'[k] = is_removed[k] /\ life'[k] = life[k]
          /\ life'[m] \in {"constructing", "refused"}
          /\ Stopped(p) => is_removed'[m] /\ UNCHANGED has_state /\ life'[m] = "refused"
          /\ ~Stopped(p) => ~is_removed'[m]
      BY <1>1, <2>0, <2>2 DEF RegisterChild, TypeOK
    <3>5. \A k \in Managers : /\ has_state[k] => has_state'[k]
                              /\ k # p => has_state'[k] = has_state[k]
      BY <1>1, <2>0 DEF RegisterChild, TypeOK
    <3> QED BY <3>1, <3>2, <3>3, <3>4, <3>5
  <2>4. ListInv'
    <3>1. CASE Stopped(p)
      <4>1. \A k \in Managers : Linked(k)' <=> Linked(k)
        BY <2>1, <2>2, <2>3, <3>1, NullAssumption DEF Linked
      <4>2. ASSUME NEW k \in Managers PROVE LiveInv(k)'
        <5>1. Linked(k) => k # m /\ parent[k] \in Managers \ {m}
          BY <1>3, <2>2 DEF Linked
        <5> QED BY <1>3, <2>1, <2>3, <4>1, <5>1 DEF LiveInv, Stopped
      <4>3. ASSUME NEW k \in Managers PROVE ParentInv(k)'
        <5>1. CASE k = m
          BY <2>1, <2>3, <5>1 DEF ParentInv, Unready
        <5>2. CASE k # m
          <6>1. parent[k] # Null => parent[k] \in Managers \ {m}
            BY <1>3, <2>2
          <6> QED BY <1>3, <2>1, <2>3, <5>2, <6>1 DEF ParentInv, Unready, Stopped
        <5> QED BY <5>1, <5>2
      <4>4. /\ first_child' = first_child /\ prev_sibling' = prev_sibling
            /\ next_sibling' = next_sibling
        BY <2>0, <3>1 DEF RegisterChild
      <4>5. \A k \in Managers : HeadInv(k) /\ NextInv(k) /\ PrevInv(k) /\ ReachInv(k)
        BY <1>2 DEF ListInv
      <4>6. \A k \in Managers : Linked(k) => parent'[k] = parent[k]
        BY <2>2, <2>3
      <4>7. \A q \in Managers : ChildList(q)' = ChildList(q)
        BY <4>4 DEF ChildList
      <4>8. ASSUME NEW k \in Managers PROVE (HeadInv(k) /\ NextInv(k) /\ PrevInv(k) /\ ReachInv(k))'
        <5>1. /\ first_child[k] \in Managers \cup {Null} /\ next_sibling[k] \in Managers \cup {Null}
              /\ prev_sibling[k] \in Managers \cup {Null}
          BY <1>1 DEF TypeOK
        <5>2. HeadInv(k)'
          BY <4>1, <4>4, <4>5, <4>6, <5>1 DEF HeadInv
        <5>3. NextInv(k)'
          BY <4>1, <4>4, <4>5, <4>6, <5>1 DEF NextInv
        <5>4. PrevInv(k)'
          BY <4>1, <4>4, <4>5, <4>6, <5>1 DEF PrevInv
        <5>5. ReachInv(k)'
          BY <1>3, <4>1, <4>5, <4>6, <4>7 DEF ReachInv, Linked
        <5> QED BY <5>2, <5>3, <5>4, <5>5
      <4> QED BY <4>2, <4>3, <4>8 DEF ListInv
    <3>2. CASE ~Stopped(p)
      BY <1>1, <1>2, <1>5, <3>2, RegisterList
    <3> QED BY <3>1, <3>2
  <2>5. ASSUME NEW c \in Managers PROVE CallerInv(c)'
    BY <1>3, <2>1, <2>2, <2>3 DEF CallerInv, Active
  <2>6. ASSUME NEW c \in Managers PROVE ChildrenInv(c)'
    <3>1. call[c].children \subseteq Managers \ {m}
      BY <1>2, <2>2 DEF Call
    <3> QED BY <1>3, <2>1, <2>3, <3>1 DEF ChildrenInv
  <2>7. ASSUME NEW c \in Managers PROVE EndInv(c)'
    <3>1. CASE c = m
      BY <2>1, <2>2, <2>3, <3>1 DEF EndInv, Stopped
    <3>2. CASE c # m
      <4>1. life[c] = "dead" => c # p
        BY <2>1
      <4> QED BY <1>3, <2>1, <2>3, <3>2, <4>1 DEF EndInv, Stopped, Reached
    <3> QED BY <3>1, <3>2
  <2> QED BY <2>4, <2>5, <2>6, <2>7 DEF TreeInv, CallTreeInv
<1>6. ASSUME NEW m \in Managers, get_cancellation_token(m) PROVE TreeInv'
  BY <1>1, <1>6, QuietTree DEF get_cancellation_token
<1>7. ASSUME NEW m \in Managers, NEW t \in Tokens, RegisterCallback(m, t) PROVE TreeInv'
  <2>1. \A k \in Managers : /\ has_state[k] => has_state'[k]
                            /\ life[k] = "dead" => has_state'[k] = has_state[k]
    BY <1>1, <1>7 DEF RegisterCallback, TypeOK
  <2> QED BY <1>1, <1>7, <2>1, QuietTree DEF RegisterCallback
<1>8. ASSUME NEW m \in Managers, NEW t \in Tokens,
             DeregisterCallback(m, t) \/ TryDeregisterCallback(m, t) \/ DeregisterWakes(m, t)
      PROVE  TreeInv'
  BY <1>1, <1>8, QuietTree DEF DeregisterCallback, TryDeregisterCallback, DeregisterWakes, fields
<1>9. ASSUME NEW m \in Managers, NEW t \in Tokens, BeginCallback(m, t) PROVE TreeInv'
  <2>1. \A k \in Managers : /\ call'[k].pc = call[k].pc
                            /\ call'[k].children = call[k].children
                            /\ call'[k].child = call[k].child
                            /\ call'[k].caller = call[k].caller
                            /\ call'[k].note = call[k].note
                            /\ call'[k].late = call[k].late
    BY <1>1, <1>2, <1>9 DEF BeginCallback, TypeOK, Call
  <2> QED BY <1>1, <1>9, <2>1, QuietTree DEF BeginCallback, fields
<1>10. ASSUME NEW m \in Managers, EndCallback(m) PROVE TreeInv'
  <2>1. \A k \in Managers : /\ call'[k].pc = call[k].pc
                            /\ call'[k].children = call[k].children
                            /\ call'[k].child = call[k].child
                            /\ call'[k].caller = call[k].caller
                            /\ call'[k].note = call[k].note
                            /\ call'[k].late = call[k].late
    BY <1>1, <1>2, <1>10 DEF EndCallback, TypeOK, Call
  <2> QED BY <1>1, <1>10, <2>1, QuietTree DEF EndCallback, fields
<1>11. ASSUME NEW m \in Managers, StartCancel(m) PROVE TreeInv'
  <2>1. /\ EnterStartCancel(m) /\ life[m] = "live" /\ UNCHANGED life
        /\ call'[m] = CallFrame(m, "client")
        /\ \A k \in Managers \ {m} : call'[k] = call[k]
    BY <1>1, <1>11 DEF StartCancel, TypeOK
  <2> QED BY <1>1, <2>1, EnterCalls
<1>12. ASSUME NEW m \in Managers, CallbacksDone(m) PROVE TreeInv'
  <2>1. /\ \A k \in Managers \ {m} : call'[k] = call[k]
        /\ call[m].pc = "callbacks" /\ call'[m].pc = "children"
        /\ call'[m].children = call[m].children /\ call'[m].caller = call[m].caller
        /\ call'[m].note = call[m].note /\ call'[m].late = call[m].late
        /\ UNCHANGED <<life, fields, links>>
    BY <1>1, <1>2, <1>12 DEF CallbacksDone, TypeOK, Call
  <2>2. ListInv'
    BY <1>1, <1>2, <1>3, <2>1, LifeList DEF fields, Stopped, ParentInv
  <2>3. ChildrenInv(m)'
    BY <1>3, <2>1 DEF ChildrenInv, fields, links
  <2>4. CallTreeInv'
    BY <1>1, <1>2, <2>1, <2>3, CallMoves DEF fields, links, Stopped, Active
  <2> QED BY <2>2, <2>4 DEF TreeInv
<1>13. ASSUME NEW m \in Managers, NEW c \in Managers, CancelChild(m, c) PROVE TreeInv'
  <2>1. CASE Stopped(c)
    <3>1. /\ \A k \in Managers \ {m} : call'[k] = call[k]
          /\ call[m].pc = "children" /\ call'[m].pc = "children"
          /\ call'[m].children = call[m].children \ {c} /\ call'[m].caller = call[m].caller
          /\ call'[m].note = call[m].note /\ call'[m].late = Late(m, c)
          /\ c \in call[m].children
          /\ UNCHANGED <<life, fields, links>>
      BY <1>1, <1>2, <1>13, <2>1 DEF CancelChild, TypeOK, Call
    <3>2. ListInv'
      BY <1>1, <1>2, <1>3, <3>1, LifeList DEF fields, Stopped, ParentInv
    <3>3. ChildrenInv(m)'
      BY <1>3, <3>1 DEF ChildrenInv, fields, links
    <3>5. life[c] = "constructing" => c \in call'[m].late
      BY <3>1 DEF Late
    <3>6. call[m].late \subseteq call'[m].late
      BY <3>1 DEF Late
    <3>4. CallTreeInv'
      BY <1>1, <1>2, <2>1, <3>1, <3>3, <3>5, <3>6, CallMoves DEF fields, links, Stopped, Active
    <3> QED BY <3>2, <3>4 DEF TreeInv
  <2>2. CASE ~Stopped(c)
    <3>1. /\ EnterStartCancel(c) /\ UNCHANGED life
          /\ call[m].pc = "children" /\ c \in call[m].children /\ m # c
      BY <1>2, <1>13, <2>2 DEF CancelChild, ManagerInv, Stopped
    <3>2. /\ call'[c] = CallFrame(c, "parent")
          /\ \A k \in Managers \ {m, c} : call'[k] = call[k]
          /\ call'[m] = [call[m] EXCEPT !.pc = "in_child", !.child = c, !.late = Late(m, c)]
      BY <1>1, <1>13, <2>2, <3>1 DEF CancelChild, TypeOK
    <3>3. /\ call'[m].pc = "in_child" /\ call'[m].child = c
          /\ call'[m].children = call[m].children /\ call'[m].caller = call[m].caller
          /\ call'[m].note = call[m].note /\ call'[m].late = Late(m, c)
      BY <1>2, <3>2 DEF Call
    <3>4. parent[c] = m /\ life[c] \in {"constructing", "live", "wait_parent"}
      BY <1>3, <3>1 DEF ChildrenInv
    <3>5. call[m].late \subseteq Late(m, c) /\ (life[c] = "constructing" => c \in Late(m, c))
      BY DEF Late
    <3>6. \A k \in Managers \ {c} :
            /\ call'[k].children = call[k].children /\ call'[k].caller = call[k].caller
            /\ call'[k].note = call[k].note /\ call[k].late \subseteq call'[k].late
            /\ \/ /\ call'[k].pc = call[k].pc /\ call'[k].child = call[k].child
                  /\ call'[k].late = call[k].late
               \/ /\ call[k].pc = "children" /\ call'[k].pc = "in_child"
                  /\ call'[k].child = c /\ c \in call[k].children
      BY <3>1, <3>2, <3>3, <3>5
    <3>7. /\ parent[c] \in Managers /\ life'[c] \in {"constructing", "live", "wait_parent"}
          /\ life'[c] = "constructing" => c \in call'[parent[c]].late
          /\ call'[parent[c]].pc = "in_child" /\ call'[parent[c]].child = c
      BY <3>1, <3>3, <3>4, <3>5
    <3>8. /\ life[c] # "unborn" /\ life'[c] = life[c]
          /\ \A k \in Managers \ {c} : life'[k] = life[k]
      BY <3>1, <3>4
    <3> QED BY <1>1, <3>1, <3>2, <3>6, <3>7, <3>8, EnterCalls
  <2> QED BY <2>1, <2>2
<1>14. ASSUME NEW m \in Managers, ChildReturns(m) PROVE TreeInv'
  <2>1. /\ \A k \in Managers \ {m} : call'[k] = call[k]
        /\ call[m].pc = "in_child" /\ call'[m].pc = "children"
        /\ call[call[m].child].pc = "done" \/ call[call[m].child].caller # "parent"
        /\ call'[m].children = call[m].children \ {call[m].child}
        /\ call'[m].caller = call[m].caller
        /\ call'[m].note = call[m].note /\ call'[m].late = call[m].late
        /\ UNCHANGED <<life, fields, links>>
    BY <1>1, <1>2, <1>14 DEF ChildReturns, TypeOK, Call
  <2>2. ListInv'
    BY <1>1, <1>2, <1>3, <2>1, LifeList DEF fields, Stopped, ParentInv
  <2>3. ChildrenInv(m)'
    BY <1>3, <2>1 DEF ChildrenInv, fields, links
  <2>4. PICK d \in Managers : d = call[m].child /\ d \in call[m].children
    BY <1>2, <1>3, <2>1 DEF ChildrenInv, Call
  <2>6. parent[d] = m /\ call[d].pc # "none"
    BY <1>3, <2>1, <2>4 DEF ChildrenInv
  <2>7. Reached(d) => d \in call'[m].late
    BY <2>1, <2>6 DEF Reached
  <2>8. life[d] = "constructing" => d \in call'[m].late
    BY <1>3, <2>6, <2>7 DEF EndInv
  <2>9. Stopped(d) \/ d \in call'[m].late
    <3>1. CASE call[d].pc = "done"
      BY <1>3, <2>7, <3>1 DEF EndInv, Stopped
    <3>2. CASE call[d].pc # "done"
      BY <1>2, <2>6, <3>2 DEF ManagerInv, Call, Stopped
    <3> QED BY <3>1, <3>2
  <2>5. CallTreeInv'
    <3>1. \A c \in call[m].children : \/ c \in call'[m].children \/ c \in call'[m].late
                                      \/ (Stopped(c)' /\ life[c] # "constructing")
      BY <2>1, <2>4, <2>8, <2>9 DEF fields, Stopped
    <3> QED BY <1>1, <1>2, <2>1, <2>3, <3>1, CallMoves DEF fields, links, Stopped, Active
  <2> QED BY <2>2, <2>5 DEF TreeInv
<1>15. ASSUME NEW m \in Managers, BecomeCancelled(m) PROVE TreeInv'
  <2>1. /\ \A k \in Managers \ {m} : call'[k] = call[k] /\ is_cancelling'[k] = is_cancelling[k]
                                     /\ is_cancelled'[k] = is_cancelled[k]
        /\ call[m].pc = "children" /\ call'[m].pc \in {"notify", "done"}
        /\ call[m].children = {} /\ call'[m].children = {}
        /\ call'[m].note = call[m].note /\ call'[m].late = call[m].late
        /\ call'[m].caller = call[m].caller
        /\ is_cancelled'[m] /\ is_cancelling[m]
        /\ UNCHANGED <<life, parent, has_state, links>>
    BY <1>1, <1>2, <1>15 DEF BecomeCancelled, TypeOK, Call, ManagerInv
  <2>2. \A k \in Managers : /\ Stopped(k)' <=> Stopped(k)
                            /\ is_cancelled[k] => is_cancelled'[k]
    BY <2>1 DEF Stopped
  <2>3. ListInv'
    BY <1>1, <1>2, <1>3, <2>1, <2>2, LifeList DEF ParentInv
  <2>4. ChildrenInv(m)'
    BY <1>3, <2>1 DEF ChildrenInv
  <2>5. CallTreeInv'
    BY <1>1, <1>2, <2>1, <2>2, <2>4, CallMoves DEF links, Active
  <2> QED BY <2>3, <2>5 DEF TreeInv
<1>16. ASSUME NEW m \in Managers, Notify(m) PROVE TreeInv'
  <2>1. /\ \A k \in Managers \ {m} : call'[k] = call[k]
        /\ call[m].pc = "notify" /\ call'[m].pc = "done"
        /\ call'[m].children = call[m].children /\ call'[m].caller = call[m].caller
        /\ call'[m].note = call[m].note /\ call'[m].late = call[m].late
        /\ is_cancelled[m]
        /\ UNCHANGED <<life, parent, is_cancelling, is_cancelled, has_state, links>>
    BY <1>1, <1>2, <1>16 DEF Notify, TypeOK, Call, ManagerInv, Stopped
  <2>2. ListInv'
    BY <1>1, <1>2, <1>3, <2>1, LifeList DEF Stopped, ParentInv
  <2>3. ChildrenInv(m)'
    BY <1>3, <2>1 DEF ChildrenInv, links
  <2>4. CallTreeInv'
    BY <1>1, <1>2, <2>1, <2>3, CallMoves DEF links, Stopped, Active
  <2> QED BY <2>2, <2>4 DEF TreeInv
<1>17. ASSUME NEW m \in Managers, Destroy(m) PROVE TreeInv'
  <2>1. /\ MayDestroy(m) /\ life[m] = "live" /\ life'[m] \in {"wait_parent", "cancel_self"}
        /\ \A k \in Managers \ {m} : life'[k] = life[k]
        /\ parent[m] # Null /\ DeregisterChildWaits(m) => life'[m] = "wait_parent"
        /\ UNCHANGED <<fields, call>>
    BY <1>1, <1>17 DEF Destroy, MayDestroy, TypeOK
  <2>2. \A c \in Managers : parent[c] = m => life[c] = "dead" /\ c # m
    BY <2>1 DEF MayDestroy
  <2>3. ListInv' /\ (\A k \in Managers \ {m} : is_removed'[k] = is_removed[k])
                 /\ (is_removed[m] => is_removed'[m])
    <3>1. CASE parent[m] # Null /\ ~is_removed[m]
      <4>1. Unlink(m) /\ Linked(m)
        BY <1>17, <2>1, <3>1 DEF Destroy, Linked
      <4>2. is_removed' = [is_removed EXCEPT ![m] = TRUE]
        BY <3>1, <4>1 DEF Unlink
      <4>3. ListInv'
        BY <1>1, <1>2, <2>1, <4>1, UnlinkList DEF fields
      <4> QED BY <1>1, <4>2, <4>3 DEF TypeOK
    <3>2. CASE ~(parent[m] # Null /\ ~is_removed[m])
      <4>1. UNCHANGED links /\ ~Linked(m)
        BY <1>17, <3>2 DEF Destroy, Unlink, Linked
      <4>2. ListInv'
        BY <1>1, <1>2, <2>1, <2>2, <4>1, LifeList DEF fields, Stopped, Unready
      <4> QED BY <4>1, <4>2 DEF links
    <3> QED BY <3>1, <3>2
  <2>4. CallerInv(m)' /\ EndInv(m)'
    BY <1>3, <2>1 DEF CallerInv, Active, EndInv, Reached, MayDestroy, fields
  <2>5. \A k \in Managers : m \in call[k].children => life'[m] = "wait_parent"
    BY <1>3, <2>1, NullAssumption DEF ChildrenInv, DeregisterChildWaits
  <2>6. CallTreeInv'
    BY <1>1, <1>2, <2>1, <2>3, <2>4, <2>5, LifeCalls DEF fields
  <2> QED BY <2>3, <2>6 DEF TreeInv
<1>18. ASSUME NEW m \in Managers, DeregisterChildWakes(m) PROVE TreeInv'
  <2>1. /\ life[m] = "wait_parent" /\ life'[m] = "cancel_self" /\ notified[parent[m]]
        /\ \A k \in Managers \ {m} : life'[k] = life[k]
        /\ UNCHANGED <<fields, links, call>>
    BY <1>1, <1>18 DEF DeregisterChildWakes, TypeOK
  <2>2. ~Linked(m) /\ \A c \in Managers : parent[c] = m => life[c] = "dead" /\ c # m
    BY <1>3, <2>1, NullAssumption DEF LiveInv, ParentInv
  <2>3. ListInv'
    BY <1>1, <1>2, <2>1, <2>2, LifeList DEF fields, Stopped, Unready
  <2>4. \A k \in Managers : m \notin call[k].children
    BY <1>2, <1>3, <2>1 DEF ChildrenInv, ManagerInv
  <2>5. CallerInv(m)' /\ EndInv(m)'
    BY <1>3, <2>1 DEF CallerInv, Active, EndInv, Reached, fields
  <2>6. CallTreeInv'
    BY <1>1, <1>2, <2>1, <2>4, <2>5, LifeCalls DEF fields, links
  <2> QED BY <2>3, <2>6 DEF TreeInv
<1>19. ASSUME NEW m \in Managers, CancelSelf(m) PROVE TreeInv'
  <2>1. CASE has_state[m] /\ ~Stopped(m)
    <3>1. /\ EnterStartCancel(m) /\ life[m] = "cancel_self" /\ life'[m] = "in_cancel"
          /\ \A k \in Managers \ {m} : life'[k] = life[k] /\ call'[k] = call[k]
          /\ call'[m] = CallFrame(m, "destructor")
      BY <1>1, <1>19, <2>1 DEF CancelSelf, TypeOK
    <3> QED BY <1>1, <2>1, <3>1, EnterCalls
  <2>2. CASE ~(has_state[m] /\ ~Stopped(m))
    <3>1. /\ life[m] = "cancel_self" /\ life'[m] = "dead"
          /\ \A k \in Managers \ {m} : life'[k] = life[k]
          /\ UNCHANGED <<fields, links, call>>
      BY <1>1, <1>19, <2>2 DEF CancelSelf, TypeOK
    <3>2. ~Linked(m) /\ \A c \in Managers : parent[c] = m => life[c] = "dead" /\ c # m
      BY <1>3, <3>1, NullAssumption DEF LiveInv, ParentInv
    <3>3. ListInv'
      BY <1>1, <1>2, <3>1, <3>2, LifeList DEF fields, Stopped, Unready
    <3>4. ~Active(m) /\ \A k \in Managers : m \notin call[k].children
      BY <1>1, <1>2, <3>1, PastTheWait
    <3>5. is_cancelled[m] \/ ~has_state[m]
      BY <1>2, <2>2, <3>4 DEF ManagerInv, Active, Stopped
    <3>6. CallerInv(m)' /\ EndInv(m)'
      BY <1>3, <3>1, <3>4, <3>5 DEF CallerInv, Active, EndInv, Reached, fields
    <3>7. CallTreeInv'
      BY <1>1, <1>2, <3>1, <3>4, <3>6, LifeCalls DEF fields, links
    <3> QED BY <3>3, <3>7 DEF TreeInv
  <2> QED BY <2>1, <2>2
<1>20. ASSUME NEW m \in Managers, DestructorReturns(m) PROVE TreeInv'
  <2>1. /\ life[m] = "in_cancel" /\ life'[m] = "dead" /\ call[m].pc = "done"
        /\ \A k \in Managers \ {m} : life'[k] = life[k]
        /\ UNCHANGED <<fields, links, call>>
    BY <1>1, <1>20 DEF DestructorReturns, TypeOK
  <2>2. ~Linked(m) /\ \A c \in Managers : parent[c] = m => life[c] = "dead" /\ c # m
    BY <1>3, <2>1, NullAssumption DEF LiveInv, ParentInv
  <2>3. ListInv'
    BY <1>1, <1>2, <2>1, <2>2, LifeList DEF fields, Stopped, Unready
  <2>4. is_cancelled[m] /\ \A k \in Managers : m \notin call[k].children
    BY <1>2, <1>3, <2>1 DEF ChildrenInv, ManagerInv, EndInv, Stopped
  <2>5. CallerInv(m)' /\ EndInv(m)'
    BY <1>3, <2>1, <2>4 DEF CallerInv, Active, EndInv, Reached, fields
  <2>6. CallTreeInv'
    BY <1>1, <1>2, <2>1, <2>4, <2>5, LifeCalls DEF fields, links
  <2> QED BY <2>3, <2>6 DEF TreeInv
<1>21. CASE UNCHANGED vars
  BY <1>1, <1>21, QuietTree DEF vars, fields
<1>22. ASSUME NEW m \in Managers, EndConstructor(m) PROVE TreeInv'
  <2>1. /\ life[m] \in {"constructing", "refused"} /\ life'[m] = "live"
        /\ \A k \in Managers \ {m} : life'[k] = life[k] /\ is_cancelled'[k] = is_cancelled[k]
        /\ is_cancelled'[m] = (life[m] = "refused")
        /\ UNCHANGED <<parent, is_cancelling, has_state, links, call>>
    BY <1>1, <1>22 DEF EndConstructor, TypeOK
  <2>2. \A c \in Managers : parent[c] # m
    BY <1>3, <2>1, NullAssumption DEF ParentInv, Unready
  <2>3. \A k \in Managers : Linked(k)' <=> Linked(k)
    BY <2>1 DEF Linked, links
  <2>4. ASSUME NEW k \in Managers PROVE LiveInv(k)' /\ ParentInv(k)'
    <3>1. parent[k] # Null => parent[k] \in Managers \ {m}
      BY <1>3, <2>2
    <3>2. LiveInv(k)'
      <4>1. Linked(k) => parent[k] # Null
        BY DEF Linked
      <4> QED BY <1>3, <2>1, <2>3, <3>1, <4>1 DEF LiveInv, Stopped
    <3>3. ParentInv(k)'
      BY <1>3, <2>1, <3>1 DEF ParentInv, Unready, Stopped, links
    <3> QED BY <3>2, <3>3
  <2>5. ListInv'
    BY <1>1, <1>2, <2>1, <2>3, <2>4, ListFrame DEF ListKept
  <2>6. CallerInv(m)'
    BY <1>3, <2>1 DEF CallerInv, Active
  <2>7. EndInv(m)'
    <3>1. CASE life[m] = "constructing"
      BY <1>3, <2>1, <3>1 DEF EndInv, Reached, links
    <3>2. CASE life[m] = "refused"
      BY <2>1, <3>2 DEF EndInv, Stopped
    <3> QED BY <2>1, <3>1, <3>2
  <2>8. CallTreeInv'
    BY <1>1, <1>2, <2>1, <2>6, <2>7, LifeCalls DEF links
  <2> QED BY <2>5, <2>8 DEF TreeInv
<1> QED
  BY <1>1, <1>4, <1>5, <1>6, <1>7, <1>8, <1>9, <1>10, <1>11, <1>12, <1>13, <1>14, <1>15,
     <1>16, <1>17, <1>18, <1>19, <1>20, <1>21, <1>22 DEF Next, Client, Progress

LEMMA TreeInvariant == Spec => [](TypeOK /\ CallbackInv /\ TreeInv)
<1>1. Init => TreeInv
  <2> SUFFICES ASSUME Init, NEW m \in Managers
               PROVE  /\ HeadInv(m) /\ NextInv(m) /\ PrevInv(m) /\ ReachInv(m)
                      /\ LiveInv(m) /\ ParentInv(m)
                      /\ CallerInv(m) /\ ChildrenInv(m) /\ EndInv(m)
    BY DEF TreeInv, ListInv, CallTreeInv
  <2>1. /\ life[m] = "unborn" /\ parent[m] = Null /\ first_child[m] = Null /\ call[m] = NoCall
        /\ ~Stopped(m) /\ ~is_removed[m]
    BY DEF Init, Stopped
  <2>2. HeadInv(m) /\ NextInv(m) /\ PrevInv(m) /\ ReachInv(m) /\ LiveInv(m) /\ ParentInv(m)
    BY <2>1 DEF HeadInv, NextInv, PrevInv, ReachInv, LiveInv, ParentInv, Linked
  <2>3. CallerInv(m) /\ ChildrenInv(m) /\ EndInv(m)
    BY <2>1 DEF CallerInv, ChildrenInv, EndInv, Active, NoCall
  <2> QED BY <2>2, <2>3
<1> QED BY <1>1, CallbackInvariant, TreeStep, PTL DEF Spec

(* The intrusive lists are intact under any interleaving of constructors,  *)
(* destructors and StartCancel: a list holds exactly the children that are *)
(* not removed from their parent, and its pointers invert each other       *)
(* (cancellation.cc:37-50, 137-180).                                       *)
THEOREM ChildListsIntact == Spec => []ChildListOK
<1>1. TypeOK /\ TreeInv => ChildListOK
  <2> SUFFICES ASSUME TypeOK, TreeInv, NEW m \in Managers
      PROVE  /\ ChildList(m) = {c \in Managers : life[c] # "unborn" /\ parent[c] = m /\ ~is_removed[c]}
             /\ \A c \in ChildList(m) :
                  /\ prev_sibling[c] = Null <=> first_child[m] = c
                  /\ prev_sibling[c] # Null => next_sibling[prev_sibling[c]] = c
                  /\ next_sibling[c] # Null => prev_sibling[next_sibling[c]] = c
    BY DEF ChildListOK
  <2>1. ChildList(m) = {c \in Managers : Linked(c) /\ parent[c] = m}
    BY ChildListIs DEF TreeInv
  <2>2. ChildList(m) = {c \in Managers : life[c] # "unborn" /\ parent[c] = m /\ ~is_removed[c]}
    BY <2>1, NullAssumption DEF Linked
  <2>3. ASSUME NEW c \in ChildList(m)
        PROVE  /\ prev_sibling[c] = Null <=> first_child[m] = c
               /\ prev_sibling[c] # Null => next_sibling[prev_sibling[c]] = c
               /\ next_sibling[c] # Null => prev_sibling[next_sibling[c]] = c
    <3>1. c \in Managers /\ Linked(c) /\ parent[c] = m /\ HeadInv(m) /\ NextInv(c) /\ PrevInv(c)
      BY <2>1 DEF TreeInv, ListInv
    <3> QED BY <3>1, NullAssumption DEF HeadInv, NextInv, PrevInv
  <2> QED BY <2>2, <2>3
<1> QED BY <1>1, TreeInvariant, PTL

(* A StartCancel in progress, and the children it has still to cancel, are *)
(* live objects: the wait in DeregisterChild (cancellation.cc:170-180) is  *)
(* enough, for any tree and any number of threads.                         *)
THEOREM MemorySafe == Spec => []NoUseAfterFree
<1>1. TypeOK /\ TreeInv => NoUseAfterFree
  <2> SUFFICES ASSUME TypeOK, TreeInv, NEW m \in Managers, call[m].pc \notin {"none", "done"}
      PROVE  /\ life[m] \notin {"unborn", "dead"}
             /\ \A c \in call[m].children : life[c] \notin {"unborn", "dead"}
    BY DEF NoUseAfterFree
  <2>1. life[m] \notin {"unborn", "dead"}
    BY PastTheWait DEF TreeInv, Active
  <2>2. \A c \in call[m].children : life[c] \notin {"unborn", "dead"}
    BY DEF TreeInv, CallTreeInv, ChildrenInv
  <2> QED BY <2>1, <2>2
<1> QED BY <1>1, TreeInvariant, PTL

(* A manager that is cancelled or destroyed has neither a callback left to *)
(* run nor one that is running.                                            *)
THEOREM CallbacksAllSettled == Spec => []NoCallbackLost
<1>1. TypeOK /\ CallbackInv /\ TreeInv => NoCallbackLost
  <2> SUFFICES ASSUME TypeOK, CallbackInv, TreeInv, NEW m \in Managers, NEW t \in Tokens,
                      is_cancelled[m] \/ life[m] = "dead"
               PROVE  cb[m][t] # "registered" /\ cb[m][t] # "running"
    BY DEF NoCallbackLost
  <2>1. ManagerInv(m) /\ TokenInv(m, t) /\ EndInv(m)
    BY DEF CallbackInv, KInv, TreeInv, CallTreeInv
  <2>2. CASE ~has_state[m]
    BY <2>1, <2>2 DEF TokenInv
  <2>3. CASE is_cancelled[m]
    <3>1. call[m].to_run = {} /\ call[m].running = -1 /\ callbacks[m] = {}
      BY <2>1, <2>3 DEF ManagerInv, Stopped
    <3>2. t # -1
      BY MaxTokenAssumption DEF Tokens
    <3> QED BY <2>1, <3>1, <3>2 DEF TokenInv
  <2> QED BY <2>1, <2>2, <2>3 DEF EndInv
<1> QED BY <1>1, TreeInvariant, PTL

(* "If `*parent` is cancelled, `*this` will be cancelled"                  *)
(* (cancellation.h:57), for every child that the parent's StartCancel does *)
(* not reach inside its constructor (cancellation.cc:33-36), whatever else *)
(* the two interleave with.                                                *)
THEOREM CancelReaches == Spec => []CancelReachesChildren
<1>1. TypeOK /\ CallbackInv /\ TreeInv => CancelReachesChildren
  <2> SUFFICES ASSUME TypeOK, CallbackInv, TreeInv, NEW c \in Managers,
                      parent[c] # Null, life[c] = "live", is_cancelled[parent[c]],
                      c \notin call[parent[c]].late
               PROVE  Stopped(c)
    BY DEF CancelReachesChildren
  <2>1. parent[c] \in Managers
    BY DEF TypeOK
  <2>2. call[parent[c]].children = {}
    BY <2>1 DEF CallbackInv, KInv, ManagerInv, TreeInv, CallTreeInv, ChildrenInv
  <2>3. is_removed[c]
    BY <2>1 DEF TreeInv, ListInv, LiveInv, Linked, Stopped
  <2> QED BY <2>2, <2>3 DEF TreeInv, CallTreeInv, EndInv, Reached
<1> QED BY <1>1, TreeInvariant, PTL

=============================================================================
