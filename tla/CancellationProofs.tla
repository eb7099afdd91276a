------------------------- MODULE CancellationProofs -------------------------
(***************************************************************************)
(* Theorems about Cancellation, for any set of managers and any number of  *)
(* tokens: its type invariant, the contract of DeregisterCallback, and     *)
(* that what became of a callback is final.                                *)
(***************************************************************************)
EXTENDS Cancellation, TLAPS

(* Before the constructor has ended no client has touched the manager, and *)
(* before it has been linked no StartCancel has.                           *)
Unready(m) == life[m] \in {"unborn", "constructing", "refused"}
Detached(m) == life[m] \in {"unborn", "refused"}

(* The part of CallbackInv that speaks of manager m: where the StartCancel *)
(* of m is and the flags of m agree, and the callbacks of m are in the     *)
(* place that their fate says.                                             *)
ManagerInv(m) ==
    /\ is_cancelling[m] <=> call[m].pc \in {"callbacks", "children", "in_child"}
    /\ call[m].pc = "notify" => call[m].note
    /\ call[m].note => Stopped(m)
    /\ ~(is_cancelling[m] /\ is_cancelled[m])
    /\ notified[m] => is_cancelled[m]
    /\ Unready(m) => /\ next_token[m] = 0 /\ ~has_state[m]
                      /\ ~call[m].note /\ ~notified[m]
    /\ Detached(m) => call[m].pc = "none"
    /\ callbacks[m] # {} => ~Stopped(m)
    /\ call[m].to_run # {} => call[m].pc = "callbacks"
    /\ call[m].running # -1 => call[m].pc = "callbacks"

TokenInv(m, t) ==
    /\ t >= next_token[m] => cb[m][t] = "none"
    /\ cb[m][t] = "registered" <=> t \in callbacks[m] \cup call[m].to_run
    /\ cb[m][t] = "running" <=> t = call[m].running
    /\ cb[m][t] = "ran" => Stopped(m)
    /\ cb[m][t] \in {"registered", "running", "ran"} => has_state[m]
    /\ dereg[m][t] = "blocked" => cb[m][t] \in {"registered", "running", "ran"}
    /\ dereg[m][t] = "true" => cb[m][t] = "deregistered"
    /\ dereg[m][t] = "false" => cb[m][t] = "ran"

(* The inductive invariant.                                                *)
KInv(m) == ManagerInv(m) /\ \A t \in Tokens : TokenInv(m, t)
CallbackInv == \A m \in Managers : KInv(m)

(* The links lead only to managers whose constructor has linked them, so   *)
(* StartCancel never reaches another one.                                  *)
Born == {m \in Managers : ~Detached(m)}
LinkInv ==
    \A m \in Managers : /\ first_child[m] \in Born \cup {Null}
                        /\ next_sibling[m] \in Born \cup {Null}
                        /\ call[m].children \subseteq Born

(* A step that leaves alone what KInv(k) speaks of.                        *)
Same(k) ==
    /\ Unready(k)' => Unready(k) /\ has_state'[k] = has_state[k]
    /\ Detached(k)' => Detached(k)
    /\ is_cancelling'[k] = is_cancelling[k]
    /\ is_cancelled'[k] = is_cancelled[k]
    /\ has_state[k] => has_state'[k]
    /\ callbacks'[k] = callbacks[k]
    /\ notified'[k] = notified[k]
    /\ next_token'[k] = next_token[k]
    /\ call'[k] = call[k]
    /\ cb'[k] = cb[k]
    /\ dereg'[k] = dereg[k]

-----------------------------------------------------------------------------
LEMMA ChildListType == ASSUME NEW m \in Managers PROVE ChildList(m) \in SUBSET Managers
  BY DEF ChildList

(* The frame of a new call is well typed.                                  *)
LEMMA CallFrameType ==
  ASSUME TypeOK, NEW m \in Managers, NEW c \in {"client", "parent", "destructor"}
  PROVE  /\ CallFrame(m, c) \in Call
         /\ CallFrame(m, c).pc = "callbacks"
         /\ CallFrame(m, c).to_run = callbacks[m]
         /\ CallFrame(m, c).running = -1
         /\ CallFrame(m, c).children = ChildList(m)
         /\ CallFrame(m, c).note = has_state[m]
         /\ CallFrame(m, c).late = {}
         /\ CallFrame(m, c).caller = c
  BY ChildListType DEF CallFrame, NoCall, Call, TypeOK

(* The first section of StartCancel keeps the types of what it writes.     *)
LEMMA EnterType ==
  ASSUME TypeOK, NEW m \in Managers, EnterStartCancel(m)
  PROVE  /\ is_cancelling' \in [Managers -> BOOLEAN]
         /\ callbacks' \in [Managers -> SUBSET Tokens]
         /\ first_child' \in [Managers -> Managers \cup {Null}]
         /\ is_removed' \in [Managers -> BOOLEAN]
  BY DEF EnterStartCancel, TypeOK

LEMMA FateMembers ==
  /\ {"issued", "refused", "registered", "running", "ran", "deregistered"} \subseteq Fate
  /\ {"true", "false", "blocked", "try_false"} \subseteq Dereg
  BY DEF Fate, Dereg

(* Recording a fate, or the state of a deregistration, keeps its type.     *)
LEMMA RecordType ==
  ASSUME TypeOK, NEW m \in Managers, NEW t \in Tokens
  PROVE  /\ \A v \in Fate : [cb EXCEPT ![m][t] = v] \in [Managers -> [Tokens -> Fate]]
         /\ \A v \in Dereg : [dereg EXCEPT ![m][t] = v] \in [Managers -> [Tokens -> Dereg]]
  BY DEF TypeOK

(* Every variable keeps its type: in particular a walk along the links     *)
(* meets managers only, and StartCancel runs issued tokens only.           *)
THEOREM TypeCorrect == Spec => []TypeOK
<1>1. Init => TypeOK
  BY MaxTokenAssumption DEF Init, TypeOK, NoCall, Call, Life, Fate, Dereg
<1>2. ASSUME TypeOK, [Next]_vars PROVE TypeOK'
  <2>1. ASSUME NEW m \in Managers, New(m) PROVE TypeOK'
    BY <1>2, <2>1 DEF New, Life, fields, links, TypeOK
  <2>2. ASSUME NEW m \in Managers, NEW p \in Managers, NewChild(p, m) PROVE TypeOK'
    <3>0. is_cancelled' \in [Managers -> BOOLEAN]
      BY <1>2, <2>2 DEF NewChild, TypeOK
    <3>1. CASE Stopped(p)
      BY <1>2, <2>2, <3>0, <3>1 DEF NewChild, RegisterChild, TypeOK, Life
    <3>2. CASE ~Stopped(p)
      <4>0. /\ first_child' = [first_child EXCEPT ![p] = m]
            /\ next_sibling' = [next_sibling EXCEPT ![m] = first_child[p]]
            /\ prev_sibling' = [c \in Managers |-> IF c = m THEN Null
                                    ELSE IF c = first_child[p] THEN m ELSE prev_sibling[c]]
        BY <2>2, <3>2 DEF NewChild, RegisterChild
      <4>1. /\ first_child' \in [Managers -> Managers \cup {Null}]
            /\ next_sibling' \in [Managers -> Managers \cup {Null}]
        BY <1>2, <4>0 DEF TypeOK
      <4>2. prev_sibling' \in [Managers -> Managers \cup {Null}]
        BY <1>2, <4>0 DEF TypeOK
      <4> QED BY <1>2, <2>2, <3>0, <3>2, <4>1, <4>2 DEF NewChild, RegisterChild, TypeOK, Life
    <3> QED BY <3>1, <3>2
  <2>3. ASSUME NEW m \in Managers, get_cancellation_token(m) PROVE TypeOK'
    <3>1. next_token' \in [Managers -> 0 .. MaxToken]
      BY <1>2, <2>3, MaxTokenAssumption DEF get_cancellation_token, TypeOK
    <3>2. cb' \in [Managers -> [Tokens -> Fate]]
      BY <1>2, <2>3, MaxTokenAssumption DEF get_cancellation_token, TypeOK, Tokens, Fate
    <3> QED BY <1>2, <2>3, <3>1, <3>2 DEF get_cancellation_token, TypeOK, links
  <2>4. ASSUME NEW m \in Managers, NEW t \in Tokens, RegisterCallback(m, t) PROVE TypeOK'
    <3>1. cb' \in [Managers -> [Tokens -> Fate]]
      <4>1. \/ cb' = [cb EXCEPT ![m][t] = "refused"]
            \/ cb' = [cb EXCEPT ![m][t] = "registered"]
        BY <2>4 DEF RegisterCallback
      <4>2. CASE cb' = [cb EXCEPT ![m][t] = "refused"]
        BY <1>2, <4>2 DEF TypeOK, Fate
      <4>3. CASE cb' = [cb EXCEPT ![m][t] = "registered"]
        BY <1>2, <4>3 DEF TypeOK, Fate
      <4> QED BY <4>1, <4>2, <4>3
    <3>2. callbacks' \in [Managers -> SUBSET Tokens]
      BY <1>2, <2>4 DEF RegisterCallback, TypeOK
    <3> QED BY <1>2, <2>4, <3>1, <3>2 DEF RegisterCallback, TypeOK, links
  <2>5. ASSUME NEW m \in Managers, NEW t \in Tokens, DeregisterCallback(m, t) PROVE TypeOK'
    <3>1. cb' \in [Managers -> [Tokens -> Fate]]
      <4>1. cb' = cb \/ cb' = [cb EXCEPT ![m][t] = "deregistered"]
        BY <2>5 DEF DeregisterCallback, Erase
      <4>2. CASE cb' = cb
        BY <1>2, <4>2 DEF TypeOK
      <4>3. CASE cb' = [cb EXCEPT ![m][t] = "deregistered"]
        BY <1>2, <4>3 DEF TypeOK, Fate
      <4> QED BY <4>1, <4>2, <4>3
    <3>2. dereg' \in [Managers -> [Tokens -> Dereg]]
      BY <1>2, <2>5, RecordType, FateMembers DEF DeregisterCallback, Erase
    <3>3. callbacks' \in [Managers -> SUBSET Tokens]
      BY <1>2, <2>5 DEF DeregisterCallback, TypeOK, Erase
    <3> QED BY <1>2, <2>5, <3>1, <3>2, <3>3 DEF DeregisterCallback, TypeOK, links
  <2>6. ASSUME NEW m \in Managers, NEW t \in Tokens, TryDeregisterCallback(m, t) PROVE TypeOK'
    <3>1. cb' \in [Managers -> [Tokens -> Fate]]
      <4>1. cb' = cb \/ cb' = [cb EXCEPT ![m][t] = "deregistered"]
        BY <2>6 DEF TryDeregisterCallback, Erase
      <4>2. CASE cb' = cb
        BY <1>2, <4>2 DEF TypeOK
      <4>3. CASE cb' = [cb EXCEPT ![m][t] = "deregistered"]
        BY <1>2, <4>3 DEF TypeOK, Fate
      <4> QED BY <4>1, <4>2, <4>3
    <3>2. dereg' \in [Managers -> [Tokens -> Dereg]]
      BY <1>2, <2>6, RecordType, FateMembers DEF TryDeregisterCallback, Erase
    <3>3. callbacks' \in [Managers -> SUBSET Tokens]
      BY <1>2, <2>6 DEF TryDeregisterCallback, TypeOK, Erase
    <3> QED BY <1>2, <2>6, <3>1, <3>2, <3>3 DEF TryDeregisterCallback, TypeOK, links
  <2>7. ASSUME NEW m \in Managers, StartCancel(m) PROVE TypeOK'
    BY <1>2, <2>7, CallFrameType, EnterType DEF StartCancel, EnterStartCancel, TypeOK
  <2>8. ASSUME NEW m \in Managers, Destroy(m) PROVE TypeOK'
    <3>1. life' \in [Managers -> Life]
      BY <1>2, <2>8 DEF Destroy, TypeOK, Life
    <3>2. CASE parent[m] = Null
      BY <1>2, <2>8, <3>1, <3>2 DEF Destroy, TypeOK, fields, links
    <3>3. CASE parent[m] # Null
      <4>1. parent[m] \in Managers /\ Unlink(m)
        BY <1>2, <2>8, <3>3 DEF Destroy, TypeOK
      <4>2. first_child' \in [Managers -> Managers \cup {Null}]
        BY <1>2, <4>1 DEF Unlink, TypeOK, links
      <4>3. next_sibling' \in [Managers -> Managers \cup {Null}]
        BY <1>2, <4>1 DEF Unlink, TypeOK, links
      <4>4. prev_sibling' \in [Managers -> Managers \cup {Null}]
        BY <1>2, <4>1 DEF Unlink, TypeOK, links
      <4>5. is_removed' \in [Managers -> BOOLEAN]
        BY <1>2, <4>1 DEF Unlink, TypeOK, links
      <4> QED BY <1>2, <2>8, <3>1, <4>2, <4>3, <4>4, <4>5 DEF Destroy, TypeOK, fields
    <3> QED BY <3>2, <3>3
  <2>9. ASSUME NEW m \in Managers, NEW t \in Tokens, BeginCallback(m, t) PROVE TypeOK'
    <3> DEFINE new == [call[m] EXCEPT !.running = t, !.to_run = @ \ {t}]
    <3>1. call[m] \in Call
      BY <1>2 DEF TypeOK
    <3>2. new \in Call
      BY <2>9, <3>1 DEF BeginCallback, Call
    <3>3. call' = [call EXCEPT ![m] = new]
      BY <2>9 DEF BeginCallback
    <3>4. call' \in [Managers -> Call]
      BY <1>2, <3>2, <3>3 DEF TypeOK
    <3>5. cb' \in [Managers -> [Tokens -> Fate]]
      BY <1>2, <2>9, <3>1 DEF BeginCallback, TypeOK, Fate
    <3> QED BY <1>2, <2>9, <3>4, <3>5 DEF BeginCallback, TypeOK, fields, links
  <2>10. ASSUME NEW m \in Managers, NEW t \in Tokens, DeregisterWakes(m, t) PROVE TypeOK'
    <3>1. dereg' \in [Managers -> [Tokens -> Dereg]]
      BY <1>2, <2>10 DEF DeregisterWakes, TypeOK, Dereg
    <3> QED BY <1>2, <2>10, <3>1 DEF DeregisterWakes, TypeOK, fields, links
  <2>11. ASSUME NEW m \in Managers, EndCallback(m) PROVE TypeOK'
    <3> DEFINE new == [call[m] EXCEPT !.running = -1]
    <3>1. call[m] \in Call
      BY <1>2 DEF TypeOK
    <3>2. new \in Call
      BY <2>11, <3>1 DEF EndCallback, Call
    <3>3. call' = [call EXCEPT ![m] = new]
      BY <2>11 DEF EndCallback
    <3>4. call' \in [Managers -> Call]
      BY <1>2, <3>2, <3>3 DEF TypeOK
    <3>5. cb' \in [Managers -> [Tokens -> Fate]]
      BY <1>2, <2>11, <3>1 DEF EndCallback, TypeOK, Fate, Call
    <3> QED BY <1>2, <2>11, <3>4, <3>5 DEF EndCallback, TypeOK, fields, links
  <2>12. ASSUME NEW m \in Managers, CallbacksDone(m) PROVE TypeOK'
    <3> DEFINE new == [call[m] EXCEPT !.pc = "children"]
    <3>1. call[m] \in Call
      BY <1>2 DEF TypeOK
    <3>2. new \in Call
      BY <2>12, <3>1 DEF CallbacksDone, Call
    <3>3. call' = [call EXCEPT ![m] = new]
      BY <2>12 DEF CallbacksDone
    <3>4. call' \in [Managers -> Call]
      BY <1>2, <3>2, <3>3 DEF TypeOK
    <3> QED BY <1>2, <2>12, <3>4 DEF CallbacksDone, TypeOK, fields, links
  <2>13. ASSUME NEW m \in Managers, NEW c \in Managers, CancelChild(m, c) PROVE TypeOK'
    <3>1. call[m] \in Call
      BY <1>2 DEF TypeOK
    <3>0. Late(m, c) \in SUBSET Managers
      BY <3>1 DEF Call, Late
    <3>2. CASE Stopped(c)
      <4> DEFINE new == [call[m] EXCEPT !.children = @ \ {c}, !.late = Late(m, c)]
      <4>1. new \in Call
        BY <3>0, <3>1 DEF Call
      <4>2. call' = [call EXCEPT ![m] = new]
        BY <2>13, <3>2 DEF CancelChild
      <4>3. call' \in [Managers -> Call]
        BY <1>2, <4>1, <4>2 DEF TypeOK
      <4> QED BY <1>2, <2>13, <3>2, <4>3 DEF CancelChild, TypeOK, fields, links
    <3>3. CASE ~Stopped(c)
      <4> DEFINE new == [call[m] EXCEPT !.pc = "in_child", !.child = c, !.late = Late(m, c)]
      <4> DEFINE frame == CallFrame(c, "parent")
      <4>1. new \in Call /\ frame \in Call
        BY <1>2, <3>0, <3>1, CallFrameType DEF Call
      <4>2. call' = [[call EXCEPT ![m] = new] EXCEPT ![c] = frame]
        BY <2>13, <3>3 DEF CancelChild
      <4> HIDE DEF new, frame
      <4>3. call' \in [Managers -> Call]
        BY <1>2, <4>1, <4>2 DEF TypeOK
      <4> QED BY <1>2, <2>13, <3>3, <4>3, EnterType DEF CancelChild, EnterStartCancel, TypeOK
    <3> QED BY <3>2, <3>3
  <2>14. ASSUME NEW m \in Managers, ChildReturns(m) PROVE TypeOK'
    <3> DEFINE new == [call[m] EXCEPT !.pc = "children", !.child = Null, !.children = @ \ {call[m].child}]
    <3>1. call[m] \in Call
      BY <1>2 DEF TypeOK
    <3>2. new \in Call
      BY <2>14, <3>1 DEF ChildReturns, Call
    <3>3. call' = [call EXCEPT ![m] = new]
      BY <2>14 DEF ChildReturns
    <3>4. call' \in [Managers -> Call]
      BY <1>2, <3>2, <3>3 DEF TypeOK
    <3> QED BY <1>2, <2>14, <3>4 DEF ChildReturns, TypeOK, fields, links
  <2>15. ASSUME NEW m \in Managers, BecomeCancelled(m) PROVE TypeOK'
    <3> DEFINE new == [call[m] EXCEPT !.pc = IF call[m].note THEN "notify" ELSE "done"]
    <3>1. call[m] \in Call
      BY <1>2 DEF TypeOK
    <3>2. new \in Call
      BY <2>15, <3>1 DEF BecomeCancelled, Call
    <3>3. call' = [call EXCEPT ![m] = new]
      BY <2>15 DEF BecomeCancelled
    <3>4. call' \in [Managers -> Call]
      BY <1>2, <3>2, <3>3 DEF TypeOK
    <3> QED BY <1>2, <2>15, <3>4 DEF BecomeCancelled, TypeOK, links
  <2>16. ASSUME NEW m \in Managers, Notify(m) PROVE TypeOK'
    <3> DEFINE new == [call[m] EXCEPT !.pc = "done"]
    <3>1. call[m] \in Call
      BY <1>2 DEF TypeOK
    <3>2. new \in Call
      BY <2>16, <3>1 DEF Notify, Call
    <3>3. call' = [call EXCEPT ![m] = new]
      BY <2>16 DEF Notify
    <3>4. call' \in [Managers -> Call]
      BY <1>2, <3>2, <3>3 DEF TypeOK
    <3>5. notified' \in [Managers -> BOOLEAN]
      BY <1>2, <2>16 DEF Notify, TypeOK
    <3> QED BY <1>2, <2>16, <3>4, <3>5 DEF Notify, TypeOK, links
  <2>17. ASSUME NEW m \in Managers, DeregisterChildWakes(m) PROVE TypeOK'
    BY <1>2, <2>17 DEF DeregisterChildWakes, Life, fields, links, TypeOK
  <2>18. ASSUME NEW m \in Managers, CancelSelf(m) PROVE TypeOK'
    <3>1. CASE has_state[m] /\ ~Stopped(m)
      <4>1. life' \in [Managers -> Life]
        <5>1. life' = [life EXCEPT ![m] = "in_cancel"]
          BY <2>18, <3>1 DEF CancelSelf
        <5> QED BY <1>2, <5>1 DEF TypeOK, Life
      <4>2. call' \in [Managers -> Call]
        <5>1. CallFrame(m, "destructor") \in Call
          BY <1>2, CallFrameType
        <5>2. call' = [call EXCEPT ![m] = CallFrame(m, "destructor")]
          BY <2>18, <3>1 DEF CancelSelf
        <5> QED BY <1>2, <5>1, <5>2 DEF TypeOK
      <4> QED
        BY <1>2, <2>18, <3>1, <4>1, <4>2, EnterType DEF CancelSelf, EnterStartCancel, TypeOK
    <3>2. CASE ~(has_state[m] /\ ~Stopped(m))
      BY <1>2, <2>18, <3>2 DEF CancelSelf, TypeOK, Life, fields, links
    <3> QED BY <3>1, <3>2
  <2>19. ASSUME NEW m \in Managers, DestructorReturns(m) PROVE TypeOK'
    BY <1>2, <2>19 DEF DestructorReturns, Life, fields, links, TypeOK
  <2>20. CASE UNCHANGED vars
    BY <1>2, <2>20 DEF vars, TypeOK, fields, links
  <2>21. ASSUME NEW m \in Managers, EndConstructor(m) PROVE TypeOK'
    BY <1>2, <2>21 DEF EndConstructor, Life, links, TypeOK
  <2> QED
    BY <1>2, <2>1, <2>2, <2>3, <2>4, <2>5, <2>6, <2>7, <2>8, <2>9, <2>10, <2>11, <2>12,
       <2>13, <2>14, <2>15, <2>16, <2>17, <2>18, <2>19, <2>20, <2>21 DEF Next, Client, Progress
<1> QED BY <1>1, <1>2, PTL DEF Spec

-----------------------------------------------------------------------------
(* The walk along the links stays inside any set that holds the head and   *)
(* is closed under next_sibling_.                                          *)
LEMMA ChildListBorn ==
  ASSUME TypeOK, LinkInv, NEW m \in Managers
  PROVE  ChildList(m) \subseteq Born
<1>1. Born \in SUBSET Managers
  BY DEF Born
<1>2. first_child[m] # Null => first_child[m] \in Born
  BY DEF LinkInv
<1>3. \A d \in Born : next_sibling[d] # Null => next_sibling[d] \in Born
  BY DEF LinkInv, Born
<1> QED BY <1>1, <1>2, <1>3 DEF ChildList

LEMMA LinkFrame ==
  ASSUME TypeOK, LinkInv, UNCHANGED <<first_child, next_sibling>>,
         \A k \in Managers : /\ Detached(k)' => Detached(k)
                             /\ call'[k].children \subseteq call[k].children
  PROVE  LinkInv'
  BY DEF LinkInv, Born

LEMMA EnterLink ==
  ASSUME TypeOK, LinkInv, NEW m \in Managers, EnterStartCancel(m),
         NEW c \in {"client", "parent", "destructor"}, call'[m] = CallFrame(m, c),
         \A k \in Managers \ {m} : call'[k].children \subseteq call[k].children,
         \A k \in Managers : Detached(k)' => Detached(k)
  PROVE  LinkInv'
<1>1. call'[m].children \subseteq Born
  BY CallFrameType, ChildListBorn
<1>2. Born \subseteq Born'
  BY DEF Born
<1>3. next_sibling' = next_sibling /\ \A k \in Managers : first_child'[k] \in {first_child[k], Null}
  BY DEF EnterStartCancel, TypeOK
<1> QED BY <1>1, <1>2, <1>3 DEF LinkInv

LEMMA LinkStep == TypeOK /\ LinkInv /\ [Next]_vars => LinkInv'
<1>1. SUFFICES ASSUME TypeOK, LinkInv, [Next]_vars PROVE LinkInv'
  OBVIOUS
<1>2. LinkInv'
  <2>1. ASSUME NEW m \in Managers, New(m) PROVE LinkInv'
    BY <1>1, <2>1, LinkFrame DEF New, links, TypeOK, Detached
  <2>2. ASSUME NEW m \in Managers, NEW p \in Managers, NewChild(p, m) PROVE LinkInv'
    <3>1. /\ Born \subseteq Born' /\ call' = call
          /\ ~Stopped(p) => m \in Born'
      BY <1>1, <2>2 DEF NewChild, RegisterChild, TypeOK, Born, Detached
    <3>2. \A k \in Managers :
             /\ first_child'[k] = first_child[k] \/ (first_child'[k] = m /\ ~Stopped(p))
             /\ next_sibling'[k] \in {next_sibling[k], first_child[p]}
      BY <1>1, <2>2 DEF NewChild, TypeOK, RegisterChild
    <3> QED BY <1>1, <3>1, <3>2 DEF LinkInv
  <2>3. ASSUME NEW m \in Managers, get_cancellation_token(m) PROVE LinkInv'
    BY <1>1, <2>3, LinkFrame DEF get_cancellation_token, links, Detached
  <2>4. ASSUME NEW m \in Managers, NEW t \in Tokens, RegisterCallback(m, t) PROVE LinkInv'
    BY <1>1, <2>4, LinkFrame DEF RegisterCallback, links, Detached
  <2>5. ASSUME NEW m \in Managers, NEW t \in Tokens, DeregisterCallback(m, t) PROVE LinkInv'
    BY <1>1, <2>5, LinkFrame DEF DeregisterCallback, links, Detached
  <2>6. ASSUME NEW m \in Managers, NEW t \in Tokens, TryDeregisterCallback(m, t) PROVE LinkInv'
    BY <1>1, <2>6, LinkFrame DEF TryDeregisterCallback, links, Detached
  <2>7. ASSUME NEW m \in Managers, StartCancel(m) PROVE LinkInv'
    <3>1. call'[m] = CallFrame(m, "client") /\ \A k \in Managers \ {m} : call'[k] = call[k]
      BY <1>1, <2>7 DEF StartCancel, TypeOK
    <3> QED BY <1>1, <2>7, <3>1, EnterLink DEF StartCancel, Detached
  <2>8. ASSUME NEW m \in Managers, Destroy(m) PROVE LinkInv'
    <3>1. Born' = Born /\ call' = call
      BY <1>1, <2>8 DEF Destroy, MayDestroy, TypeOK, Born, Detached
    <3>2. \A k \in Managers : /\ first_child'[k] \in {first_child[k], next_sibling[m]}
                              /\ next_sibling'[k] \in {next_sibling[k], next_sibling[m]}
      BY <1>1, <2>8 DEF Destroy, Unlink, links, TypeOK
    <3> QED BY <1>1, <3>1, <3>2 DEF LinkInv
  <2>9. ASSUME NEW m \in Managers, NEW t \in Tokens, BeginCallback(m, t) PROVE LinkInv'
    BY <1>1, <2>9, LinkFrame DEF BeginCallback, links, TypeOK, Call, Detached
  <2>10. ASSUME NEW m \in Managers, NEW t \in Tokens, DeregisterWakes(m, t) PROVE LinkInv'
    BY <1>1, <2>10, LinkFrame DEF DeregisterWakes, links, Detached
  <2>11. ASSUME NEW m \in Managers, EndCallback(m) PROVE LinkInv'
    BY <1>1, <2>11, LinkFrame DEF EndCallback, links, TypeOK, Call, Detached
  <2>12. ASSUME NEW m \in Managers, CallbacksDone(m) PROVE LinkInv'
    BY <1>1, <2>12, LinkFrame DEF CallbacksDone, links, TypeOK, Call, Detached
  <2>13. ASSUME NEW m \in Managers, NEW c \in Managers, CancelChild(m, c) PROVE LinkInv'
    <3>0. call[m] \in Call /\ UNCHANGED life
      BY <1>1, <2>13 DEF TypeOK, CancelChild
    <3>1. CASE Stopped(c)
      <4>1. \A k \in Managers : call'[k].children \subseteq call[k].children
        <5>1. call'[m].children = call[m].children \ {c}
          BY <1>1, <2>13, <3>0, <3>1 DEF CancelChild, TypeOK, Call
        <5>2. \A k \in Managers \ {m} : call'[k] = call[k]
          BY <1>1, <2>13, <3>1 DEF CancelChild, TypeOK
        <5> QED BY <5>1, <5>2
      <4> QED BY <1>1, <2>13, <3>0, <3>1, <4>1, LinkFrame DEF CancelChild, links, Detached
    <3>2. CASE ~Stopped(c)
      <4>1. /\ EnterStartCancel(c) /\ call'[c] = CallFrame(c, "parent")
            /\ \A k \in Managers \ {c} : call'[k].children \subseteq call[k].children
        <5>1. EnterStartCancel(c) /\ call'[c] = CallFrame(c, "parent")
          BY <1>1, <2>13, <3>2 DEF CancelChild, TypeOK
        <5>2. m # c => call'[m] = [call[m] EXCEPT !.pc = "in_child", !.child = c, !.late = Late(m, c)]
          BY <1>1, <2>13, <3>2 DEF CancelChild, TypeOK
        <5>3. m # c => call'[m].children = call[m].children
          BY <3>0, <5>2 DEF Call
        <5>4. \A k \in Managers \ {m, c} : call'[k] = call[k]
          BY <1>1, <2>13, <3>2 DEF CancelChild, TypeOK
        <5> QED BY <5>1, <5>3, <5>4
      <4> QED BY <1>1, <3>0, <4>1, EnterLink DEF Detached
    <3> QED BY <3>1, <3>2
  <2>14. ASSUME NEW m \in Managers, ChildReturns(m) PROVE LinkInv'
    BY <1>1, <2>14, LinkFrame DEF ChildReturns, links, TypeOK, Call, Detached
  <2>15. ASSUME NEW m \in Managers, BecomeCancelled(m) PROVE LinkInv'
    BY <1>1, <2>15, LinkFrame DEF BecomeCancelled, links, TypeOK, Call, Detached
  <2>16. ASSUME NEW m \in Managers, Notify(m) PROVE LinkInv'
    BY <1>1, <2>16, LinkFrame DEF Notify, links, TypeOK, Call, Detached
  <2>17. ASSUME NEW m \in Managers, DeregisterChildWakes(m) PROVE LinkInv'
    BY <1>1, <2>17, LinkFrame DEF DeregisterChildWakes, links, TypeOK, Detached
  <2>18. ASSUME NEW m \in Managers, CancelSelf(m) PROVE LinkInv'
    <3>0. \A k \in Managers : Detached(k)' => Detached(k)
      BY <1>1, <2>18 DEF CancelSelf, TypeOK, Detached
    <3>1. CASE has_state[m] /\ ~Stopped(m)
      <4>1. /\ EnterStartCancel(m) /\ call'[m] = CallFrame(m, "destructor")
            /\ \A k \in Managers \ {m} : call'[k] = call[k]
        BY <1>1, <2>18, <3>1 DEF CancelSelf, TypeOK
      <4> QED BY <1>1, <3>0, <4>1, EnterLink
    <3>2. CASE ~(has_state[m] /\ ~Stopped(m))
      BY <1>1, <2>18, <3>0, <3>2, LinkFrame DEF CancelSelf, links, Detached
    <3> QED BY <3>1, <3>2
  <2>19. ASSUME NEW m \in Managers, DestructorReturns(m) PROVE LinkInv'
    BY <1>1, <2>19, LinkFrame DEF DestructorReturns, links, TypeOK, Detached
  <2>20. CASE UNCHANGED vars
    BY <1>1, <2>20, LinkFrame DEF vars, links, Detached
  <2>21. ASSUME NEW m \in Managers, EndConstructor(m) PROVE LinkInv'
    BY <1>1, <2>21, LinkFrame DEF EndConstructor, links, TypeOK, Detached
  <2> QED
    BY <1>1, <2>1, <2>2, <2>3, <2>4, <2>5, <2>6, <2>7, <2>8, <2>9, <2>10, <2>11, <2>12,
       <2>13, <2>14, <2>15, <2>16, <2>17, <2>18, <2>19, <2>20, <2>21 DEF Next, Client, Progress
<1> QED BY <1>2

(* A step that does not touch manager k keeps its invariant.               *)
LEMMA FrameInv ==
  ASSUME TypeOK, NEW k \in Managers, KInv(k), Same(k)
  PROVE  KInv(k)'
<1>1. ManagerInv(k)'
  BY DEF KInv, ManagerInv, Same, Stopped, Call, TypeOK
<1>2. ASSUME NEW t \in Tokens PROVE TokenInv(k, t)'
  BY DEF KInv, TokenInv, Same, Stopped, Call, TypeOK
<1> QED BY <1>1, <1>2 DEF KInv

(* Before StartCancel no callback has begun, and once the manager is       *)
(* cancelled none is left: each has run.                                   *)
LEMMA BeforeAndAfter ==
  ASSUME TypeOK, NEW m \in Managers, KInv(m), NEW t \in Tokens
  PROVE  /\ ~Stopped(m) => /\ cb[m][t] \notin {"running", "ran"}
                           /\ call[m].to_run = {} /\ call[m].running = -1
         /\ is_cancelled[m] /\ cb[m][t] \in {"registered", "running", "ran"}
                => cb[m][t] = "ran"
<1>1. ManagerInv(m) /\ TokenInv(m, t)
  BY DEF KInv
<1>2. t \in callbacks[m] => callbacks[m] # {}
  OBVIOUS
<1>3. t \in call[m].to_run => call[m].to_run # {}
  OBVIOUS
<1>4. t # -1
  BY MaxTokenAssumption DEF Tokens
<1> QED BY <1>1, <1>2, <1>3, <1>4 DEF ManagerInv, TokenInv, Stopped

(* The first section of StartCancel moves the callbacks of the manager     *)
(* into the new call.                                                      *)
LEMMA EnterInv ==
  ASSUME TypeOK, NEW m \in Managers, KInv(m), EnterStartCancel(m),
         NEW c \in {"client", "parent", "destructor"}, call'[m] = CallFrame(m, c),
         ~Detached(m)', Unready(m)' => Unready(m)
  PROVE  KInv(m)'
<1>1. ManagerInv(m) /\ \A t \in Tokens : TokenInv(m, t)
  BY DEF KInv
<1>2. /\ call'[m].pc = "callbacks" /\ call'[m].to_run = callbacks[m] /\ call'[m].running = -1
      /\ call'[m].note = has_state[m]
  BY CallFrameType
<1>3. /\ ~Stopped(m) /\ is_cancelling'[m] = TRUE /\ callbacks'[m] = {}
      /\ UNCHANGED <<is_cancelled, has_state, notified, next_token, cb, dereg>>
  BY DEF EnterStartCancel, TypeOK
<1>4. ManagerInv(m)'
  BY <1>1, <1>2, <1>3 DEF ManagerInv, Unready, Detached, Stopped
<1>5. ASSUME NEW t \in Tokens PROVE TokenInv(m, t)'
  <2>1. /\ cb[m][t] \notin {"running", "ran"} /\ call[m].to_run = {} /\ t # -1
    BY <1>3, BeforeAndAfter, MaxTokenAssumption DEF Tokens
  <2> QED BY <1>1, <1>2, <1>3, <2>1 DEF TokenInv, Stopped
<1> QED BY <1>4, <1>5 DEF KInv

LEMMA CallbackStep == TypeOK /\ LinkInv /\ CallbackInv /\ [Next]_vars => CallbackInv'
<1>1. SUFFICES ASSUME TypeOK, LinkInv, CallbackInv, [Next]_vars PROVE CallbackInv'
  OBVIOUS
<1>2. CallbackInv'
  <2>1. ASSUME NEW m \in Managers, New(m) PROVE CallbackInv'
    <3>1. ASSUME NEW k \in Managers PROVE Same(k)
      BY <1>1, <2>1 DEF New, TypeOK, Same, Unready, Detached, fields, links
    <3> QED BY <1>1, <3>1, FrameInv DEF CallbackInv
  <2>2. ASSUME NEW m \in Managers, NEW p \in Managers, NewChild(p, m) PROVE CallbackInv'
    <3>0. ManagerInv(m) /\ call[m] \in Call /\ \A s \in Tokens : TokenInv(m, s)
      BY <1>1 DEF CallbackInv, KInv, TypeOK
    <3>1. ASSUME NEW k \in Managers, k # m PROVE Same(k)
      <4>1. life[p] = "live" /\ RegisterChild(p, m)
        BY <2>2 DEF NewChild
      <4>2. is_cancelled'[k] = is_cancelled[k]
        BY <1>1, <2>2, <3>1 DEF NewChild, TypeOK
      <4>3. /\ life'[k] = life[k] /\ (has_state[k] => has_state'[k])
            /\ k # p => has_state'[k] = has_state[k]
        BY <1>1, <3>1, <4>1 DEF RegisterChild, TypeOK
      <4>4. UNCHANGED <<is_cancelling, callbacks, notified, next_token, call, cb, dereg>>
        BY <2>2 DEF NewChild
      <4> QED BY <4>1, <4>2, <4>3, <4>4 DEF Same, Unready, Detached
    <3>2. ManagerInv(m)'
      <4>1. /\ life[m] = "unborn" /\ life[p] = "live" /\ m # p
            /\ next_token[m] = 0 /\ call[m].pc = "none" /\ ~is_cancelling[m]
            /\ ~call[m].note /\ ~notified[m] /\ ~has_state[m]
        BY <2>2, <3>0 DEF NewChild, ManagerInv, Unready, Detached
      <4>2. \A s \in Tokens : cb[m][s] = "none"
        BY <3>0, <4>1, MaxTokenAssumption DEF TokenInv, Tokens
      <4>3. callbacks[m] = {}
        BY <1>1, <3>0, <4>2 DEF TokenInv, TypeOK
      <4>4. /\ has_state'[m] = has_state[m]
            /\ is_cancelling' = is_cancelling /\ callbacks' = callbacks
            /\ notified' = notified /\ call' = call /\ next_token' = next_token
        BY <1>1, <2>2, <4>1 DEF NewChild, RegisterChild, TypeOK
      <4> QED BY <3>0, <4>1, <4>3, <4>4 DEF ManagerInv, Stopped, Unready, Detached
    <3>3. ASSUME NEW s \in Tokens PROVE TokenInv(m, s)'
      <4>1. next_token[m] = 0
        BY <2>2, <3>0 DEF NewChild, ManagerInv, Unready
      <4>2. cb[m][s] = "none"
        BY <3>0, <4>1, MaxTokenAssumption DEF TokenInv, Tokens
      <4>3. UNCHANGED <<callbacks, next_token, call, cb, dereg>>
        BY <2>2 DEF NewChild
      <4> QED BY <3>0, <4>2, <4>3 DEF TokenInv
    <3> QED BY <1>1, <3>1, <3>2, <3>3, FrameInv DEF CallbackInv, KInv
  <2>3. ASSUME NEW m \in Managers, get_cancellation_token(m) PROVE CallbackInv'
    <3>0. ManagerInv(m) /\ call[m] \in Call /\ \A s \in Tokens : TokenInv(m, s)
      BY <1>1 DEF CallbackInv, KInv, TypeOK
    <3>1. ASSUME NEW k \in Managers, k # m PROVE Same(k)
      BY <1>1, <2>3, <3>1 DEF get_cancellation_token, TypeOK, Same, Unready, Detached, links, Tokens
    <3>2. ManagerInv(m)'
      BY <1>1, <2>3, <3>0, MaxTokenAssumption DEF get_cancellation_token, TypeOK, ManagerInv, Unready, Detached, Stopped, Call, links, Tokens
    <3>3. ASSUME NEW s \in Tokens PROVE TokenInv(m, s)'
      BY <1>1, <2>3, <3>0, MaxTokenAssumption DEF get_cancellation_token, TypeOK, ManagerInv, TokenInv, Stopped, Call, links, Tokens
    <3> QED BY <1>1, <3>1, <3>2, <3>3, FrameInv DEF CallbackInv, KInv
  <2>4. ASSUME NEW m \in Managers, NEW t \in Tokens, RegisterCallback(m, t) PROVE CallbackInv'
    <3>0. ManagerInv(m) /\ call[m] \in Call /\ \A s \in Tokens : TokenInv(m, s)
      BY <1>1 DEF CallbackInv, KInv, TypeOK
    <3>1. ASSUME NEW k \in Managers, k # m PROVE Same(k)
      BY <1>1, <2>4, <3>1 DEF RegisterCallback, TypeOK, Same, Unready, Detached, links
    <3>2. ManagerInv(m)'
      BY <1>1, <2>4, <3>0 DEF RegisterCallback, TypeOK, ManagerInv, Unready, Detached, Stopped, Call, links
    <3>3. ASSUME NEW s \in Tokens PROVE TokenInv(m, s)'
      BY <1>1, <2>4, <3>0 DEF RegisterCallback, TypeOK, ManagerInv, TokenInv, Stopped, Call, links
    <3> QED BY <1>1, <3>1, <3>2, <3>3, FrameInv DEF CallbackInv, KInv
  <2>5. ASSUME NEW m \in Managers, NEW t \in Tokens, DeregisterCallback(m, t) PROVE CallbackInv'
    <3>0. ManagerInv(m) /\ call[m] \in Call /\ \A s \in Tokens : TokenInv(m, s)
      BY <1>1 DEF CallbackInv, KInv, TypeOK
    <3>1. ASSUME NEW k \in Managers, k # m PROVE Same(k)
      BY <1>1, <2>5, <3>1 DEF DeregisterCallback, TypeOK, Same, Unready, Detached, links, Erase, MayDeregister
    <3>2. ManagerInv(m)'
      BY <1>1, <2>5, <3>0 DEF DeregisterCallback, TypeOK, ManagerInv, Unready, Detached, Stopped, Call, links, Erase, MayDeregister
    <3>3. ASSUME NEW s \in Tokens PROVE TokenInv(m, s)'
      <4>0. KInv(m)
        BY <3>0 DEF KInv
      <4>1. CASE Stopped(m) /\ s = t
        <5>1. cb[m][t] \in {"registered", "running", "ran"} /\ has_state[m]
          BY <2>5, <3>0 DEF DeregisterCallback, MayDeregister, TokenInv
        <5>2. /\ cb' = cb /\ dereg'[m][t] \in {"blocked", "false"}
              /\ dereg'[m][t] = "false" => is_cancelled[m]
          BY <1>1, <2>5, <4>1, <5>1 DEF DeregisterCallback, TypeOK, Stopped
        <5>3. dereg'[m][t] = "false" => cb[m][t] = "ran"
          BY <1>1, <4>0, <5>1, <5>2, BeforeAndAfter
        <5> QED
          BY <1>1, <2>5, <3>0, <4>1, <5>1, <5>2, <5>3 DEF DeregisterCallback, TokenInv, Stopped, Erase
      <4>2. CASE ~Stopped(m) /\ s = t
        <5>1. call[m].to_run = {} /\ call[m].running = -1
          BY <1>1, <4>0, <4>2, BeforeAndAfter
        <5>2. /\ cb'[m][t] = "deregistered" /\ dereg'[m][t] = "true"
              /\ callbacks'[m] = callbacks[m] \ {t} /\ call' = call /\ next_token' = next_token
          BY <1>1, <2>5, <4>2 DEF DeregisterCallback, Erase, TypeOK, Stopped
        <5>3. cb[m][t] # "none" /\ t # -1
          BY <2>5, MaxTokenAssumption DEF DeregisterCallback, MayDeregister, Tokens
        <5> QED BY <3>0, <4>2, <5>1, <5>2, <5>3 DEF TokenInv
      <4>3. CASE s # t
        <5>1. /\ cb'[m][s] = cb[m][s] /\ dereg'[m][s] = dereg[m][s]
              /\ s \in callbacks'[m] <=> s \in callbacks[m]
          BY <1>1, <2>5, <4>3 DEF DeregisterCallback, Erase, TypeOK
        <5> QED BY <2>5, <3>0, <5>1 DEF DeregisterCallback, TokenInv, Stopped
      <4> QED BY <4>1, <4>2, <4>3
    <3> QED BY <1>1, <3>1, <3>2, <3>3, FrameInv DEF CallbackInv, KInv
  <2>6. ASSUME NEW m \in Managers, NEW t \in Tokens, TryDeregisterCallback(m, t) PROVE CallbackInv'
    <3>0. ManagerInv(m) /\ call[m] \in Call /\ \A s \in Tokens : TokenInv(m, s)
      BY <1>1 DEF CallbackInv, KInv, TypeOK
    <3>1. ASSUME NEW k \in Managers, k # m PROVE Same(k)
      BY <1>1, <2>6, <3>1 DEF TryDeregisterCallback, TypeOK, Same, Unready, Detached, links, Erase, MayDeregister
    <3>2. ManagerInv(m)'
      BY <1>1, <2>6, <3>0 DEF TryDeregisterCallback, TypeOK, ManagerInv, Unready, Detached, Stopped, Call, links, Erase, MayDeregister
    <3>3. ASSUME NEW s \in Tokens PROVE TokenInv(m, s)'
      <4>0. KInv(m)
        BY <3>0 DEF KInv
      <4>1. CASE Stopped(m)
        <5>1. cb' = cb /\ callbacks' = callbacks /\ dereg'[m][t] = "try_false"
          BY <1>1, <2>6, <4>1 DEF TryDeregisterCallback, TypeOK
        <5>2. s # t => dereg'[m][s] = dereg[m][s]
          BY <1>1, <2>6, <4>1 DEF TryDeregisterCallback, TypeOK
        <5> QED BY <2>6, <3>0, <5>1, <5>2 DEF TryDeregisterCallback, TokenInv, Stopped
      <4>2. CASE ~Stopped(m) /\ s = t
        <5>1. call[m].to_run = {} /\ call[m].running = -1
          BY <1>1, <4>0, <4>2, BeforeAndAfter
        <5>2. /\ cb'[m][t] = "deregistered" /\ dereg'[m][t] = "true"
              /\ callbacks'[m] = callbacks[m] \ {t} /\ call' = call /\ next_token' = next_token
          BY <1>1, <2>6, <4>2 DEF TryDeregisterCallback, Erase, TypeOK
        <5>3. cb[m][t] # "none" /\ t # -1
          BY <2>6, MaxTokenAssumption DEF TryDeregisterCallback, MayDeregister, Tokens
        <5> QED BY <3>0, <4>2, <5>1, <5>2, <5>3 DEF TokenInv
      <4>3. CASE ~Stopped(m) /\ s # t
        <5>1. /\ cb'[m][s] = cb[m][s] /\ dereg'[m][s] = dereg[m][s]
              /\ s \in callbacks'[m] <=> s \in callbacks[m]
          BY <1>1, <2>6, <4>3 DEF TryDeregisterCallback, Erase, TypeOK
        <5> QED BY <2>6, <3>0, <5>1 DEF TryDeregisterCallback, TokenInv, Stopped
      <4> QED BY <4>1, <4>2, <4>3
    <3> QED BY <1>1, <3>1, <3>2, <3>3, FrameInv DEF CallbackInv, KInv
  <2>7. ASSUME NEW m \in Managers, StartCancel(m) PROVE CallbackInv'
    <3>0. ManagerInv(m) /\ call[m] \in Call /\ \A s \in Tokens : TokenInv(m, s)
      BY <1>1 DEF CallbackInv, KInv, TypeOK
    <3>1. ASSUME NEW k \in Managers, k # m PROVE Same(k)
      BY <1>1, <2>7, <3>1 DEF StartCancel, TypeOK, Same, Unready, Detached, EnterStartCancel
    <3>2. ManagerInv(m)'
      BY <1>1, <2>7, <3>0, CallFrameType DEF StartCancel, TypeOK, ManagerInv, Unready, Detached, Stopped, Call, EnterStartCancel
    <3>3. ASSUME NEW s \in Tokens PROVE TokenInv(m, s)'
      BY <1>1, <2>7, <3>0, CallFrameType DEF StartCancel, TypeOK, ManagerInv, TokenInv, Stopped, Call, EnterStartCancel
    <3> QED BY <1>1, <3>1, <3>2, <3>3, FrameInv DEF CallbackInv, KInv
  <2>8. ASSUME NEW m \in Managers, Destroy(m) PROVE CallbackInv'
    <3>1. ASSUME NEW k \in Managers PROVE Same(k)
      BY <1>1, <2>8 DEF Destroy, TypeOK, Same, Unready, Detached, fields, links
    <3> QED BY <1>1, <3>1, FrameInv DEF CallbackInv
  <2>9. ASSUME NEW m \in Managers, NEW t \in Tokens, BeginCallback(m, t) PROVE CallbackInv'
    <3>0. ManagerInv(m) /\ call[m] \in Call /\ \A s \in Tokens : TokenInv(m, s)
      BY <1>1 DEF CallbackInv, KInv, TypeOK
    <3>1. ASSUME NEW k \in Managers, k # m PROVE Same(k)
      BY <1>1, <2>9, <3>1 DEF BeginCallback, TypeOK, Same, Unready, Detached, fields, links
    <3>2. ManagerInv(m)'
      BY <1>1, <2>9, <3>0 DEF BeginCallback, TypeOK, ManagerInv, Unready, Detached, Stopped, Call, fields, links
    <3>3. ASSUME NEW s \in Tokens PROVE TokenInv(m, s)'
      <4>1. /\ call'[m].running = t /\ call'[m].to_run = call[m].to_run \ {t}
            /\ call[m].running = -1 /\ call[m].pc = "callbacks" /\ t \in call[m].to_run
        BY <1>1, <2>9, <3>0 DEF BeginCallback, TypeOK, Call
      <4>2. cb'[m][t] = "running" /\ (s # t => cb'[m][s] = cb[m][s])
        BY <1>1, <2>9 DEF BeginCallback, TypeOK
      <4>3. cb[m][t] = "registered" /\ callbacks[m] = {} /\ s # -1
        BY <3>0, <4>1, MaxTokenAssumption DEF TokenInv, ManagerInv, Stopped, Tokens
      <4>4. UNCHANGED <<is_cancelled, is_cancelling, callbacks, has_state, next_token, dereg>>
        BY <2>9 DEF BeginCallback, fields
      <4> QED BY <3>0, <4>1, <4>2, <4>3, <4>4 DEF TokenInv, Stopped
    <3> QED BY <1>1, <3>1, <3>2, <3>3, FrameInv DEF CallbackInv, KInv
  <2>10. ASSUME NEW m \in Managers, NEW t \in Tokens, DeregisterWakes(m, t) PROVE CallbackInv'
    <3>0. ManagerInv(m) /\ call[m] \in Call /\ \A s \in Tokens : TokenInv(m, s)
      BY <1>1 DEF CallbackInv, KInv, TypeOK
    <3>1. ASSUME NEW k \in Managers, k # m PROVE Same(k)
      BY <1>1, <2>10, <3>1 DEF DeregisterWakes, TypeOK, Same, Unready, Detached, fields, links
    <3>2. ManagerInv(m)'
      BY <1>1, <2>10, <3>0 DEF DeregisterWakes, TypeOK, ManagerInv, Unready, Detached, Stopped, Call, fields, links
    <3>3. ASSUME NEW s \in Tokens PROVE TokenInv(m, s)'
      <4>0. KInv(m)
        BY <3>0 DEF KInv
      <4>1. cb[m][t] = "ran"
        BY <1>1, <2>10, <3>0, <4>0, BeforeAndAfter DEF DeregisterWakes, ManagerInv, TokenInv
      <4>2. dereg'[m][t] = "false" /\ (s # t => dereg'[m][s] = dereg[m][s])
        BY <1>1, <2>10 DEF DeregisterWakes, TypeOK
      <4> QED BY <2>10, <3>0, <4>1, <4>2 DEF DeregisterWakes, TokenInv, Stopped, fields
    <3> QED BY <1>1, <3>1, <3>2, <3>3, FrameInv DEF CallbackInv, KInv
  <2>11. ASSUME NEW m \in Managers, EndCallback(m) PROVE CallbackInv'
    <3>0. ManagerInv(m) /\ call[m] \in Call /\ \A s \in Tokens : TokenInv(m, s)
      BY <1>1 DEF CallbackInv, KInv, TypeOK
    <3>1. ASSUME NEW k \in Managers, k # m PROVE Same(k)
      BY <1>1, <2>11, <3>1 DEF EndCallback, TypeOK, Same, Unready, Detached, fields, links
    <3>2. ManagerInv(m)'
      BY <1>1, <2>11, <3>0 DEF EndCallback, TypeOK, ManagerInv, Unready, Detached, Stopped, Call, fields, links
    <3>3. ASSUME NEW s \in Tokens PROVE TokenInv(m, s)'
      <4>1. /\ call'[m].running = -1 /\ call'[m].to_run = call[m].to_run
            /\ call[m].running \in Tokens /\ call[m].pc = "callbacks"
        BY <1>1, <2>11, <3>0 DEF EndCallback, TypeOK, Call
      <4>2. /\ cb'[m][call[m].running] = "ran"
            /\ s # call[m].running => cb'[m][s] = cb[m][s]
        BY <1>1, <2>11, <4>1 DEF EndCallback, TypeOK
      <4>3. cb[m][call[m].running] = "running" /\ is_cancelling[m] /\ s # -1
        BY <3>0, <4>1, MaxTokenAssumption DEF TokenInv, ManagerInv, Tokens
      <4>4. UNCHANGED <<is_cancelled, is_cancelling, callbacks, has_state, next_token, dereg>>
        BY <2>11 DEF EndCallback, fields
      <4> QED BY <3>0, <4>1, <4>2, <4>3, <4>4 DEF TokenInv, Stopped
    <3> QED BY <1>1, <3>1, <3>2, <3>3, FrameInv DEF CallbackInv, KInv
  <2>12. ASSUME NEW m \in Managers, CallbacksDone(m) PROVE CallbackInv'
    <3>0. ManagerInv(m) /\ call[m] \in Call /\ \A s \in Tokens : TokenInv(m, s)
      BY <1>1 DEF CallbackInv, KInv, TypeOK
    <3>1. ASSUME NEW k \in Managers, k # m PROVE Same(k)
      BY <1>1, <2>12, <3>1 DEF CallbacksDone, TypeOK, Same, Unready, Detached, fields, links
    <3>2. ManagerInv(m)'
      BY <1>1, <2>12, <3>0 DEF CallbacksDone, TypeOK, ManagerInv, Unready, Detached, Stopped, Call, fields, links
    <3>3. ASSUME NEW s \in Tokens PROVE TokenInv(m, s)'
      BY <1>1, <2>12, <3>0 DEF CallbacksDone, TypeOK, ManagerInv, TokenInv, Stopped, Call, fields, links
    <3> QED BY <1>1, <3>1, <3>2, <3>3, FrameInv DEF CallbackInv, KInv
  <2>13. ASSUME NEW m \in Managers, NEW c \in Managers, CancelChild(m, c) PROVE CallbackInv'
    <3>0. /\ ManagerInv(m) /\ call[m] \in Call /\ \A s \in Tokens : TokenInv(m, s)
          /\ ManagerInv(c) /\ call[c] \in Call /\ \A s \in Tokens : TokenInv(c, s)
      BY <1>1 DEF CallbackInv, KInv, TypeOK
    <3>1. CASE Stopped(c)
      <4>1. ASSUME NEW k \in Managers, k # m PROVE Same(k)
        BY <1>1, <2>13, <3>1, <4>1 DEF CancelChild, TypeOK, Same, Unready, Detached, fields, links
      <4>2. /\ call'[m].pc = call[m].pc /\ call'[m].to_run = call[m].to_run
            /\ call'[m].running = call[m].running /\ call'[m].note = call[m].note
        BY <1>1, <2>13, <3>0, <3>1 DEF CancelChild, TypeOK, Call
      <4>3. UNCHANGED <<life, fields, cb, dereg>>
        BY <2>13, <3>1 DEF CancelChild
      <4>4. ManagerInv(m)'
        BY <3>0, <4>2, <4>3 DEF ManagerInv, Unready, Detached, Stopped, fields
      <4>5. ASSUME NEW s \in Tokens PROVE TokenInv(m, s)'
        BY <3>0, <4>2, <4>3 DEF TokenInv, Stopped, fields
      <4> QED BY <1>1, <4>1, <4>4, <4>5, FrameInv DEF CallbackInv, KInv
    <3>2. CASE ~Stopped(c)
      <4>1. call[m].pc = "children" /\ m # c
        BY <2>13, <3>0, <3>2 DEF CancelChild, ManagerInv, Stopped
      <4>2. EnterStartCancel(c) /\ UNCHANGED life
        BY <2>13, <3>2 DEF CancelChild
      <4>0. ~Detached(c)' /\ (Unready(c)' => Unready(c))
        BY <1>1, <2>13, <4>2 DEF CancelChild, LinkInv, Born, Detached, Unready
      <4>3. /\ call'[c] = CallFrame(c, "parent")
            /\ call'[m] = [call[m] EXCEPT !.pc = "in_child", !.child = c, !.late = Late(m, c)]
            /\ \A k \in Managers \ {m, c} : call'[k] = call[k]
        BY <1>1, <2>13, <3>2, <4>1 DEF CancelChild, TypeOK
      <4>4. KInv(c)'
        BY <1>1, <3>2, <4>0, <4>2, <4>3, EnterInv DEF CallbackInv
      <4>5. ASSUME NEW k \in Managers, k # m, k # c PROVE Same(k)
        BY <1>1, <4>2, <4>3, <4>5 DEF EnterStartCancel, TypeOK, Same, Unready, Detached
      <4>6. /\ call'[m].pc = "in_child" /\ call'[m].to_run = call[m].to_run
            /\ call'[m].running = call[m].running /\ call'[m].note = call[m].note
        BY <3>0, <4>3 DEF Call
      <4>7. /\ is_cancelling'[m] = is_cancelling[m] /\ callbacks'[m] = callbacks[m]
            /\ UNCHANGED <<life, is_cancelled, has_state, notified, next_token, cb, dereg>>
        BY <1>1, <4>1, <4>2 DEF EnterStartCancel, TypeOK
      <4>8. ManagerInv(m)'
        BY <3>0, <4>1, <4>6, <4>7 DEF ManagerInv, Unready, Detached, Stopped
      <4>9. ASSUME NEW s \in Tokens PROVE TokenInv(m, s)'
        BY <3>0, <4>6, <4>7 DEF TokenInv, Stopped
      <4> QED BY <1>1, <4>4, <4>5, <4>8, <4>9, FrameInv DEF CallbackInv, KInv
    <3> QED BY <3>1, <3>2
  <2>14. ASSUME NEW m \in Managers, ChildReturns(m) PROVE CallbackInv'
    <3>0. ManagerInv(m) /\ call[m] \in Call /\ \A s \in Tokens : TokenInv(m, s)
      BY <1>1 DEF CallbackInv, KInv, TypeOK
    <3>1. ASSUME NEW k \in Managers, k # m PROVE Same(k)
      BY <1>1, <2>14, <3>1 DEF ChildReturns, TypeOK, Same, Unready, Detached, fields, links
    <3>2. ManagerInv(m)'
      BY <1>1, <2>14, <3>0 DEF ChildReturns, TypeOK, ManagerInv, Unready, Detached, Stopped, Call, fields, links
    <3>3. ASSUME NEW s \in Tokens PROVE TokenInv(m, s)'
      BY <1>1, <2>14, <3>0 DEF ChildReturns, TypeOK, ManagerInv, TokenInv, Stopped, Call, fields, links
    <3> QED BY <1>1, <3>1, <3>2, <3>3, FrameInv DEF CallbackInv, KInv
  <2>15. ASSUME NEW m \in Managers, BecomeCancelled(m) PROVE CallbackInv'
    <3>0. ManagerInv(m) /\ call[m] \in Call /\ \A s \in Tokens : TokenInv(m, s)
      BY <1>1 DEF CallbackInv, KInv, TypeOK
    <3>1. ASSUME NEW k \in Managers, k # m PROVE Same(k)
      BY <1>1, <2>15, <3>1 DEF BecomeCancelled, TypeOK, Same, Unready, Detached, links
    <3>2. ManagerInv(m)'
      BY <1>1, <2>15, <3>0 DEF BecomeCancelled, TypeOK, ManagerInv, Unready, Detached, Stopped, Call, links
    <3>3. ASSUME NEW s \in Tokens PROVE TokenInv(m, s)'
      BY <1>1, <2>15, <3>0 DEF BecomeCancelled, TypeOK, ManagerInv, TokenInv, Stopped, Call, links
    <3> QED BY <1>1, <3>1, <3>2, <3>3, FrameInv DEF CallbackInv, KInv
  <2>16. ASSUME NEW m \in Managers, Notify(m) PROVE CallbackInv'
    <3>0. ManagerInv(m) /\ call[m] \in Call /\ \A s \in Tokens : TokenInv(m, s)
      BY <1>1 DEF CallbackInv, KInv, TypeOK
    <3>1. ASSUME NEW k \in Managers, k # m PROVE Same(k)
      BY <1>1, <2>16, <3>1 DEF Notify, TypeOK, Same, Unready, Detached, links
    <3>2. ManagerInv(m)'
      BY <1>1, <2>16, <3>0 DEF Notify, TypeOK, ManagerInv, Unready, Detached, Stopped, Call, links
    <3>3. ASSUME NEW s \in Tokens PROVE TokenInv(m, s)'
      BY <1>1, <2>16, <3>0 DEF Notify, TypeOK, ManagerInv, TokenInv, Stopped, Call, links
    <3> QED BY <1>1, <3>1, <3>2, <3>3, FrameInv DEF CallbackInv, KInv
  <2>17. ASSUME NEW m \in Managers, DeregisterChildWakes(m) PROVE CallbackInv'
    <3>1. ASSUME NEW k \in Managers PROVE Same(k)
      BY <1>1, <2>17 DEF DeregisterChildWakes, TypeOK, Same, Unready, Detached, fields, links
    <3> QED BY <1>1, <3>1, FrameInv DEF CallbackInv
  <2>18. ASSUME NEW m \in Managers, CancelSelf(m) PROVE CallbackInv'
    <3>1. CASE has_state[m] /\ ~Stopped(m)
      <4>1. /\ EnterStartCancel(m) /\ life' = [life EXCEPT ![m] = "in_cancel"]
            /\ call' = [call EXCEPT ![m] = CallFrame(m, "destructor")]
        BY <2>18, <3>1 DEF CancelSelf
      <4>2. call'[m] = CallFrame(m, "destructor") /\ ~Detached(m)' /\ ~Unready(m)'
        BY <1>1, <2>18, <4>1 DEF CancelSelf, TypeOK, Unready, Detached
      <4>3. KInv(m)'
        BY <1>1, <4>1, <4>2, EnterInv DEF CallbackInv
      <4>4. ASSUME NEW k \in Managers, k # m PROVE Same(k)
        BY <1>1, <4>1, <4>4 DEF EnterStartCancel, TypeOK, Same, Unready, Detached
      <4> QED BY <1>1, <4>3, <4>4, FrameInv DEF CallbackInv
    <3>2. CASE ~(has_state[m] /\ ~Stopped(m))
      <4>1. ASSUME NEW k \in Managers PROVE Same(k)
        BY <1>1, <2>18, <3>2 DEF CancelSelf, TypeOK, Same, Unready, Detached, fields, links
      <4> QED BY <1>1, <4>1, FrameInv DEF CallbackInv
    <3> QED BY <3>1, <3>2
  <2>19. ASSUME NEW m \in Managers, DestructorReturns(m) PROVE CallbackInv'
    <3>1. ASSUME NEW k \in Managers PROVE Same(k)
      BY <1>1, <2>19 DEF DestructorReturns, TypeOK, Same, Unready, Detached, fields, links
    <3> QED BY <1>1, <3>1, FrameInv DEF CallbackInv
  <2>20. CASE UNCHANGED vars
    <3>1. ASSUME NEW k \in Managers PROVE Same(k)
      BY <2>20 DEF vars, Same, Unready, Detached, fields, links
    <3> QED BY <1>1, <3>1, FrameInv DEF CallbackInv
  <2>21. ASSUME NEW m \in Managers, EndConstructor(m) PROVE CallbackInv'
    <3>0. ManagerInv(m) /\ call[m] \in Call /\ \A s \in Tokens : TokenInv(m, s)
      BY <1>1 DEF CallbackInv, KInv, TypeOK
    <3>1. ASSUME NEW k \in Managers, k # m PROVE Same(k)
      BY <1>1, <2>21, <3>1 DEF EndConstructor, TypeOK, Same, Unready, Detached, links
    <3>2. /\ ~Unready(m)' /\ ~Detached(m)' /\ Unready(m)
          /\ is_cancelled'[m] = (life[m] = "refused")
          /\ UNCHANGED <<is_cancelling, has_state, callbacks, notified, next_token, call, cb, dereg>>
      BY <1>1, <2>21 DEF EndConstructor, TypeOK, Unready, Detached
    <3>3. \A s \in Tokens : cb[m][s] = "none"
      BY <3>0, <3>2, MaxTokenAssumption DEF ManagerInv, TokenInv, Tokens
    <3>4. callbacks[m] = {}
      BY <1>1, <3>0, <3>3 DEF TokenInv, TypeOK
    <3>5. is_cancelled'[m] => ~is_cancelling[m]
      BY <3>0, <3>2 DEF ManagerInv, Detached
    <3>6. ManagerInv(m)'
      BY <3>0, <3>2, <3>4, <3>5 DEF ManagerInv, Stopped
    <3>7. ASSUME NEW s \in Tokens PROVE TokenInv(m, s)'
      BY <3>0, <3>2, <3>3 DEF TokenInv
    <3> QED BY <1>1, <3>1, <3>6, <3>7, FrameInv DEF CallbackInv, KInv
  <2> QED
    BY <1>1, <2>1, <2>2, <2>3, <2>4, <2>5, <2>6, <2>7, <2>8, <2>9, <2>10, <2>11, <2>12,
       <2>13, <2>14, <2>15, <2>16, <2>17, <2>18, <2>19, <2>20, <2>21 DEF Next, Client, Progress
<1> QED BY <1>2

(* The step formula of CallbackFinal.                                      *)
FinalStep ==
    \A m \in Managers, t \in Tokens :
        cb[m][t] \in {"ran", "deregistered", "refused"} => cb'[m][t] = cb[m][t]

LEMMA CallbackFinalStep == TypeOK /\ CallbackInv /\ [Next]_vars => FinalStep
<1>1. SUFFICES ASSUME TypeOK, CallbackInv, [Next]_vars PROVE FinalStep
  OBVIOUS
<1>2. FinalStep
  <2>1. ASSUME NEW m \in Managers, get_cancellation_token(m) PROVE FinalStep
    <3>1. KInv(m) /\ call[m] \in Call /\ \A s \in Tokens : TokenInv(m, s)
      BY <1>1 DEF CallbackInv, KInv, TypeOK
    <3>2. next_token[m] \in Tokens /\ cb[m][next_token[m]] = "none"
      BY <1>1, <2>1, <3>1, MaxTokenAssumption DEF get_cancellation_token, TypeOK, Tokens, TokenInv
    <3> QED BY <1>1, <2>1, <3>2 DEF get_cancellation_token, TypeOK, FinalStep
  <2>2. ASSUME NEW m \in Managers, NEW t \in Tokens, RegisterCallback(m, t) PROVE FinalStep
    BY <1>1, <2>2 DEF RegisterCallback, TypeOK, FinalStep
  <2>3. ASSUME NEW m \in Managers, NEW t \in Tokens, DeregisterCallback(m, t) PROVE FinalStep
    <3>1. KInv(m) /\ call[m] \in Call /\ \A s \in Tokens : TokenInv(m, s)
      BY <1>1 DEF CallbackInv, KInv, TypeOK
    <3>2. ~Stopped(m) => cb[m][t] # "ran"
      BY <1>1, <3>1, BeforeAndAfter
    <3>3. ~Stopped(m) => cb[m][t] = "registered" \/ cb[m][t] = "running"
      BY <2>3, <3>2 DEF DeregisterCallback, MayDeregister
    <3>4. CASE Stopped(m)
      BY <2>3, <3>4 DEF DeregisterCallback, Stopped, FinalStep
    <3>5. CASE ~Stopped(m)
      <4>1. cb' = [cb EXCEPT ![m][t] = "deregistered"]
        BY <2>3, <3>5 DEF DeregisterCallback, Erase, Stopped
      <4> QED BY <1>1, <3>3, <3>5, <4>1 DEF TypeOK, FinalStep
    <3> QED BY <3>4, <3>5
  <2>4. ASSUME NEW m \in Managers, NEW t \in Tokens, TryDeregisterCallback(m, t) PROVE FinalStep
    <3>1. KInv(m) /\ call[m] \in Call /\ \A s \in Tokens : TokenInv(m, s)
      BY <1>1 DEF CallbackInv, KInv, TypeOK
    <3>2. ~Stopped(m) => cb[m][t] # "ran"
      BY <1>1, <3>1, BeforeAndAfter
    <3>3. ~Stopped(m) => cb[m][t] = "registered" \/ cb[m][t] = "running"
      BY <2>4, <3>2 DEF TryDeregisterCallback, MayDeregister
    <3>4. CASE Stopped(m)
      BY <2>4, <3>4 DEF TryDeregisterCallback, FinalStep
    <3>5. CASE ~Stopped(m)
      <4>1. cb' = [cb EXCEPT ![m][t] = "deregistered"]
        BY <2>4, <3>5 DEF TryDeregisterCallback, Erase
      <4> QED BY <1>1, <3>3, <3>5, <4>1 DEF TypeOK, FinalStep
    <3> QED BY <3>4, <3>5
  <2>5. ASSUME NEW m \in Managers, NEW t \in Tokens, BeginCallback(m, t) PROVE FinalStep
    <3>1. KInv(m) /\ call[m] \in Call /\ \A s \in Tokens : TokenInv(m, s)
      BY <1>1 DEF CallbackInv, KInv, TypeOK
    <3>2. cb[m][t] = "registered"
      BY <2>5, <3>1 DEF BeginCallback, TokenInv
    <3> QED BY <1>1, <2>5, <3>2 DEF BeginCallback, TypeOK, FinalStep
  <2>6. ASSUME NEW m \in Managers, EndCallback(m) PROVE FinalStep
    <3>1. KInv(m) /\ call[m] \in Call /\ \A s \in Tokens : TokenInv(m, s)
      BY <1>1 DEF CallbackInv, KInv, TypeOK
    <3>2. call[m].running \in Tokens
      BY <2>6, <3>1 DEF EndCallback, Call
    <3>3. cb[m][call[m].running] = "running"
      BY <3>1, <3>2 DEF TokenInv
    <3> QED BY <1>1, <2>6, <3>2, <3>3 DEF EndCallback, TypeOK, FinalStep
  <2>7. CASE UNCHANGED cb
    BY <2>7 DEF FinalStep
  <2>8. ASSUME NEW m \in Managers, CancelChild(m, m) \/ \E c \in Managers : CancelChild(m, c)
        PROVE  UNCHANGED cb
    BY <2>8 DEF CancelChild, EnterStartCancel
  <2>9. ASSUME NEW m \in Managers,
               \/ New(m) \/ EndConstructor(m) \/ \E p \in Managers : NewChild(p, m)
               \/ StartCancel(m) \/ Destroy(m) \/ CallbacksDone(m)
               \/ \E t \in Tokens : DeregisterWakes(m, t)
               \/ ChildReturns(m) \/ BecomeCancelled(m) \/ Notify(m)
               \/ DeregisterChildWakes(m) \/ CancelSelf(m) \/ DestructorReturns(m)
        PROVE  UNCHANGED cb
    BY <2>9 DEF New, NewChild, EndConstructor, StartCancel, EnterStartCancel, Destroy, CallbacksDone,
       DeregisterWakes, ChildReturns, BecomeCancelled, Notify, DeregisterChildWakes,
       CancelSelf, DestructorReturns
  <2>10. CASE UNCHANGED vars
    BY <2>7, <2>10 DEF vars
  <2> QED
    BY <1>1, <2>1, <2>2, <2>3, <2>4, <2>5, <2>6, <2>7, <2>8, <2>9, <2>10
       DEF Next, Client, Progress
<1> QED BY <1>2

LEMMA CallbackInvariant == Spec => [](TypeOK /\ LinkInv /\ CallbackInv)
<1>1. Init => LinkInv /\ CallbackInv
  <2>1. SUFFICES ASSUME Init PROVE LinkInv /\ CallbackInv
    OBVIOUS
  <2>2. LinkInv
    BY <2>1 DEF Init, LinkInv, NoCall
  <2>3. ASSUME NEW m \in Managers PROVE ManagerInv(m)
    BY <2>1 DEF Init, ManagerInv, NoCall, Stopped, Unready, Detached
  <2>4. ASSUME NEW m \in Managers, NEW t \in Tokens PROVE TokenInv(m, t)
    BY <2>1, MaxTokenAssumption DEF Init, TokenInv, NoCall, Stopped, Tokens
  <2> QED BY <2>2, <2>3, <2>4 DEF CallbackInv, KInv
<1> QED BY <1>1, TypeCorrect, LinkStep, CallbackStep, PTL DEF Spec

(* The contract of DeregisterCallback, cancellation.h:126-135: true means  *)
(* that the callback has not run and is not going to, false that it has    *)
(* run to its end.                                                         *)
THEOREM DeregisterCorrect == Spec => []DeregisterContract
<1>1. CallbackInv => DeregisterContract
  BY DEF CallbackInv, KInv, TokenInv, DeregisterContract
<1> QED BY <1>1, CallbackInvariant, PTL

(* A callback runs at most once, and never after it was deregistered or    *)
(* refused, however many threads call StartCancel, both deregistrations    *)
(* and the destructors.                                                    *)
THEOREM CallbacksFinal == Spec => CallbackFinal
<1>1. TypeOK /\ CallbackInv /\ [Next]_vars => [FinalStep]_vars
  BY CallbackFinalStep
<1> QED BY <1>1, CallbackInvariant, PTL DEF Spec, CallbackFinal, FinalStep

=============================================================================
