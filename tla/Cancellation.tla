---------------------------- MODULE Cancellation ----------------------------
(***************************************************************************)
(* CancellationManager, tensorflow/core/framework/cancellation.{h,cc}.     *)
(*                                                                         *)
(* A manager holds callbacks under tokens and a doubly linked list of      *)
(* child managers.  StartCancel takes both out of the manager under its    *)
(* mutex, runs the callbacks and cancels the children WITHOUT the mutex,   *)
(* and then takes the mutex again to become cancelled.  Everything else    *)
(* (registration, both deregistrations, construction and destruction of    *)
(* children) may happen in between.                                        *)
(*                                                                         *)
(* One action is one critical section of mu_, or one step that the code    *)
(* takes outside of it.  Threads are not named: a call in progress is      *)
(* recorded with the object it works on (at most one StartCancel per       *)
(* manager is past its first section and still has something to do there,  *)
(* one constructor and one destructor per manager, one DeregisterCallback  *)
(* per token), so any number of threads is modelled.                       *)
(*                                                                         *)
(* What the clients of the class owe it, from the comments of the header,  *)
(* is in the guards: a token is used after get_cancellation_token and      *)
(* deregistered once, a parent outlives its children, a manager is         *)
(* destroyed when no client is inside one of its methods, and a callback   *)
(* does not call the manager that runs it.                                 *)
(***************************************************************************)
EXTENDS Integers, FiniteSets

CONSTANTS
    Managers,   \* the CancellationManager objects that are ever constructed
    MaxToken,   \* bound on the tokens a manager issues (the code: int64)
    MaxRoots,   \* bound on the managers constructed without a parent
    Null        \* nullptr

ASSUME NullAssumption == Null \notin Managers
ASSUME MaxTokenAssumption == MaxToken \in Nat /\ MaxRoots \in Nat

Tokens == 0 .. MaxToken - 1

VARIABLES
    life,                     \* is the object in its constructor, constructed, in its destructor, gone
    parent,                   \* parent_
    is_cancelling,            \* is_cancelling_
    is_cancelled,             \* is_cancelled_
    has_state,                \* state_ is allocated
    callbacks,                \* state_->callbacks, the set of its tokens
    notified,                 \* state_->cancelled_notification
    next_token,               \* next_cancellation_token_
    first_child,              \* state_->first_child
    prev_sibling,             \* prev_sibling_
    next_sibling,             \* next_sibling_
    is_removed,               \* is_removed_from_parent_
    call,                     \* the StartCancel call past its first section
    cb,                       \* history: what became of the callback of a token
    dereg                     \* DeregisterCallback / TryDeregisterCallback of a token

fields == <<parent, is_cancelling, is_cancelled, has_state, callbacks, notified, next_token>>
links == <<first_child, prev_sibling, next_sibling, is_removed>>
vars == <<life, fields, links, call, cb, dereg>>

(* The locals of StartCancel.  `pc` is where it is; `running` is the token *)
(* whose callback is executing, -1 between two callbacks; `note` is        *)
(* cancelled_notification # nullptr; `caller` is who called it; `late` is  *)
(* history: the children that it reached while their constructor had yet   *)
(* to store is_cancelled_.                                                 *)
Call == [pc : {"none", "callbacks", "children", "in_child", "notify", "done"},
         to_run : SUBSET Tokens,
         running : Tokens \cup {-1},
         children : SUBSET Managers,
         child : Managers \cup {Null},
         note : BOOLEAN,
         late : SUBSET Managers,
         caller : {"none", "client", "parent", "destructor"}]

NoCall == [pc |-> "none", to_run |-> {}, running |-> -1, children |-> {},
           child |-> Null, note |-> FALSE, late |-> {}, caller |-> "none"]

(* "constructing" and "refused" are inside CancellationManager(parent),    *)
(* after RegisterChild has returned false or true.                         *)
Life == {"unborn", "constructing", "refused", "live",
         "wait_parent", "cancel_self", "in_cancel", "dead"}
Fate == {"none", "issued", "refused", "registered", "running", "ran", "deregistered"}
Dereg == {"none", "blocked", "true", "false", "try_false"}

TypeOK ==
    /\ life \in [Managers -> Life]
    /\ parent \in [Managers -> Managers \cup {Null}]
    /\ is_cancelling \in [Managers -> BOOLEAN]
    /\ is_cancelled \in [Managers -> BOOLEAN]
    /\ has_state \in [Managers -> BOOLEAN]
    /\ callbacks \in [Managers -> SUBSET Tokens]
    /\ notified \in [Managers -> BOOLEAN]
    /\ next_token \in [Managers -> 0 .. MaxToken]
    /\ first_child \in [Managers -> Managers \cup {Null}]
    /\ prev_sibling \in [Managers -> Managers \cup {Null}]
    /\ next_sibling \in [Managers -> Managers \cup {Null}]
    /\ is_removed \in [Managers -> BOOLEAN]
    /\ call \in [Managers -> Call]
    /\ cb \in [Managers -> [Tokens -> Fate]]
    /\ dereg \in [Managers -> [Tokens -> Dereg]]

Init ==
    /\ life = [m \in Managers |-> "unborn"]
    /\ parent = [m \in Managers |-> Null]
    /\ is_cancelling = [m \in Managers |-> FALSE]
    /\ is_cancelled = [m \in Managers |-> FALSE]
    /\ has_state = [m \in Managers |-> FALSE]
    /\ callbacks = [m \in Managers |-> {}]
    /\ notified = [m \in Managers |-> FALSE]
    /\ next_token = [m \in Managers |-> 0]
    /\ first_child = [m \in Managers |-> Null]
    /\ prev_sibling = [m \in Managers |-> Null]
    /\ next_sibling = [m \in Managers |-> Null]
    /\ is_removed = [m \in Managers |-> FALSE]
    /\ call = [m \in Managers |-> NoCall]
    /\ cb = [m \in Managers |-> [t \in Tokens |-> "none"]]
    /\ dereg = [m \in Managers |-> [t \in Tokens |-> "none"]]

Stopped(m) == is_cancelled[m] \/ is_cancelling[m]

-----------------------------------------------------------------------------
(* Construction.                                                           *)

(* CancellationManager().  Managers of different trees do not meet.        *)
New(m) ==
    /\ life[m] = "unborn"
    /\ Cardinality({r \in Managers : life[r] # "unborn" /\ parent[r] = Null}) < MaxRoots
    /\ life' = [life EXCEPT ![m] = "live"]
    /\ UNCHANGED <<fields, links, call, cb, dereg>>

(* Mutant: only is_cancelled_ is tested, not is_cancelling_. *)
RegisterChild_IgnoresCancelling(p, m) ==
    IF is_cancelled[p]
    THEN /\ is_removed' = [is_removed EXCEPT ![m] = TRUE]
         /\ life' = [life EXCEPT ![m] = "refused"]
         /\ UNCHANGED <<has_state, first_child, prev_sibling, next_sibling>>
    ELSE /\ has_state' = [has_state EXCEPT ![p] = TRUE]
         /\ first_child' = [first_child EXCEPT ![p] = m]
         /\ next_sibling' = [next_sibling EXCEPT ![m] = first_child[p]]
         /\ prev_sibling' = [c \in Managers |->
                IF c = m THEN Null
                ELSE IF c = first_child[p] THEN m ELSE prev_sibling[c]]
         /\ life' = [life EXCEPT ![m] = "constructing"]
         /\ UNCHANGED is_removed

(* The critical section of the parent: the child is linked at the head of  *)
(* the list, or is to be born cancelled.                                   *)
RegisterChild(p, m) ==
    IF Stopped(p)
    THEN /\ is_removed' = [is_removed EXCEPT ![m] = TRUE]
         /\ life' = [life EXCEPT ![m] = "refused"]
         /\ UNCHANGED <<has_state, first_child, prev_sibling, next_sibling>>
    ELSE /\ has_state' = [has_state EXCEPT ![p] = TRUE]
         /\ first_child' = [first_child EXCEPT ![p] = m]
         /\ next_sibling' = [next_sibling EXCEPT ![m] = first_child[p]]
         /\ prev_sibling' = [c \in Managers |->
                IF c = m THEN Null
                ELSE IF c = first_child[p] THEN m ELSE prev_sibling[c]]
         /\ life' = [life EXCEPT ![m] = "constructing"]
         /\ UNCHANGED is_removed

(* CancellationManager(parent) up to the return of RegisterChild.  Its     *)
(* is_cancelled_ has no initializer: until the constructor stores to it, a *)
(* StartCancel of the parent that reaches m may read either value.         *)
NewChild(p, m) ==
    /\ life[m] = "unborn" /\ life[p] = "live"
    /\ parent' = [parent EXCEPT ![m] = p]
    /\ RegisterChild(p, m)
    /\ \E indeterminate \in BOOLEAN :
          is_cancelled' = [is_cancelled EXCEPT ![m] = indeterminate]
    /\ UNCHANGED <<is_cancelling, callbacks, notified, next_token, call, cb, dereg>>

(* is_cancelled_ = the result of RegisterChild, stored without any lock.   *)
EndConstructor(m) ==
    /\ life[m] \in {"constructing", "refused"}
    /\ is_cancelled' = [is_cancelled EXCEPT ![m] = (life[m] = "refused")]
    /\ life' = [life EXCEPT ![m] = "live"]
    /\ UNCHANGED <<parent, is_cancelling, has_state, callbacks, notified, next_token,
                   links, call, cb, dereg>>

-----------------------------------------------------------------------------
(* Callbacks.                                                              *)

get_cancellation_token(m) ==
    /\ life[m] = "live" /\ next_token[m] < MaxToken
    /\ next_token' = [next_token EXCEPT ![m] = @ + 1]
    /\ cb' = [cb EXCEPT ![m][next_token[m]] = "issued"]
    /\ UNCHANGED <<life, parent, is_cancelling, is_cancelled, has_state, callbacks,
                   notified, links, call, dereg>>

RegisterCallback(m, t) ==
    /\ life[m] = "live" /\ cb[m][t] = "issued"
    /\ IF Stopped(m)
       THEN /\ cb' = [cb EXCEPT ![m][t] = "refused"]
            /\ UNCHANGED <<has_state, callbacks>>
       ELSE /\ cb' = [cb EXCEPT ![m][t] = "registered"]
            /\ has_state' = [has_state EXCEPT ![m] = TRUE]
            /\ callbacks' = [callbacks EXCEPT ![m] = @ \cup {t}]
    /\ UNCHANGED <<life, parent, is_cancelling, is_cancelled, notified, next_token,
                   links, call, dereg>>

(* A client deregisters a token for which RegisterCallback returned true.  *)
MayDeregister(m, t) ==
    /\ life[m] = "live"
    /\ cb[m][t] \in {"registered", "running", "ran"}
    /\ dereg[m][t] \in {"none", "try_false"}

(* Mutant: true is returned but the callback stays in the map. *)
Erase_KeepsCallback(m, t) ==
    /\ cb' = [cb EXCEPT ![m][t] = "deregistered"]
    /\ dereg' = [dereg EXCEPT ![m][t] = "true"]
    /\ UNCHANGED callbacks

Erase(m, t) ==
    /\ callbacks' = [callbacks EXCEPT ![m] = @ \ {t}]
    /\ cb' = [cb EXCEPT ![m][t] = "deregistered"]
    /\ dereg' = [dereg EXCEPT ![m][t] = "true"]

(* Mutant: false is returned without waiting for the running callbacks. *)
DeregisterCallback_NoWait(m, t) ==
    /\ MayDeregister(m, t)
    /\ \/ /\ Stopped(m)
          /\ dereg' = [dereg EXCEPT ![m][t] = "false"]
          /\ UNCHANGED <<callbacks, cb>>
       \/ /\ ~Stopped(m)
          /\ Erase(m, t)
    /\ UNCHANGED <<life, parent, is_cancelling, is_cancelled, has_state, notified,
                   next_token, links, call>>

(* DeregisterCallback up to its return, or up to the wait for the          *)
(* notification of the StartCancel that is in progress.                    *)
DeregisterCallback(m, t) ==
    /\ MayDeregister(m, t)
    /\ \/ /\ is_cancelled[m]
          /\ dereg' = [dereg EXCEPT ![m][t] = "false"]
          /\ UNCHANGED <<callbacks, cb>>
       \/ /\ ~is_cancelled[m] /\ is_cancelling[m]
          /\ dereg' = [dereg EXCEPT ![m][t] = IF has_state[m] THEN "blocked" ELSE "false"]
          /\ UNCHANGED <<callbacks, cb>>
       \/ /\ ~Stopped(m)
          /\ Erase(m, t)
    /\ UNCHANGED <<life, parent, is_cancelling, is_cancelled, has_state, notified,
                   next_token, links, call>>

DeregisterWakes(m, t) ==
    /\ dereg[m][t] = "blocked" /\ notified[m]
    /\ dereg' = [dereg EXCEPT ![m][t] = "false"]
    /\ UNCHANGED <<life, fields, links, call, cb>>

TryDeregisterCallback(m, t) ==
    /\ MayDeregister(m, t)
    /\ IF Stopped(m)
       THEN /\ dereg[m][t] = "none"
            /\ dereg' = [dereg EXCEPT ![m][t] = "try_false"]
            /\ UNCHANGED <<callbacks, cb>>
       ELSE Erase(m, t)
    /\ UNCHANGED <<life, parent, is_cancelling, is_cancelled, has_state, notified,
                   next_token, links, call>>

-----------------------------------------------------------------------------
(* StartCancel.                                                            *)

(* The managers a walk along next_sibling_ from first_child meets: the     *)
(* least set that holds the head and is closed under next_sibling_.        *)
ChildList(m) ==
    {c \in Managers : \A S \in SUBSET Managers :
        /\ first_child[m] # Null => first_child[m] \in S
        /\ \A d \in S : next_sibling[d] # Null => next_sibling[d] \in S
        => c \in S}

(* The first critical section, past the early return.                      *)
EnterStartCancel(m) ==
    /\ ~Stopped(m)
    /\ is_cancelling' = [is_cancelling EXCEPT ![m] = TRUE]
    /\ callbacks' = [callbacks EXCEPT ![m] = {}]
    /\ first_child' = [first_child EXCEPT ![m] = Null]
    /\ is_removed' = [c \in Managers |-> is_removed[c] \/ c \in ChildList(m)]
    /\ UNCHANGED <<parent, is_cancelled, has_state, notified, next_token,
                   prev_sibling, next_sibling, cb, dereg>>

CallFrame(m, caller) ==
    [NoCall EXCEPT !.pc = "callbacks", !.to_run = callbacks[m],
                   !.children = ChildList(m), !.note = has_state[m], !.caller = caller]

(* A client calls StartCancel.  The early return changes nothing.          *)
StartCancel(m) ==
    /\ life[m] = "live"
    /\ EnterStartCancel(m)
    /\ call' = [call EXCEPT ![m] = CallFrame(m, "client")]
    /\ UNCHANGED life

BeginCallback(m, t) ==
    /\ call[m].pc = "callbacks" /\ call[m].running = -1 /\ t \in call[m].to_run
    /\ call' = [call EXCEPT ![m].running = t, ![m].to_run = @ \ {t}]
    /\ cb' = [cb EXCEPT ![m][t] = "running"]
    /\ UNCHANGED <<life, fields, links, dereg>>

EndCallback(m) ==
    /\ call[m].pc = "callbacks" /\ call[m].running # -1
    /\ call' = [call EXCEPT ![m].running = -1]
    /\ cb' = [cb EXCEPT ![m][call[m].running] = "ran"]
    /\ UNCHANGED <<life, fields, links, dereg>>

CallbacksDone(m) ==
    /\ call[m].pc = "callbacks" /\ call[m].running = -1 /\ call[m].to_run = {}
    /\ call' = [call EXCEPT ![m].pc = "children"]
    /\ UNCHANGED <<life, fields, links, cb, dereg>>

(* The children reached so far during their construction.                  *)
Late(m, c) == call[m].late \cup {d \in {c} : life[d] = "constructing"}

(* child->StartCancel() for the next child: a call of its own if the child *)
(* is not stopped yet, and its early return otherwise.                     *)
CancelChild(m, c) ==
    /\ call[m].pc = "children" /\ c \in call[m].children
    /\ IF Stopped(c)
       THEN /\ call' = [call EXCEPT ![m].children = @ \ {c}, ![m].late = Late(m, c)]
            /\ UNCHANGED <<fields, links, cb, dereg>>
       ELSE /\ EnterStartCancel(c)
            /\ call' = [call EXCEPT ![m].pc = "in_child", ![m].child = c,
                                    ![m].late = Late(m, c),
                                    ![c] = CallFrame(c, "parent")]
    /\ UNCHANGED life

(* The call on the child is over, or has been over since before a client's *)
(* own StartCancel of that child began (EndConstructor can undo the first).*)
ChildReturns(m) ==
    /\ call[m].pc = "in_child"
    /\ call[call[m].child].pc = "done" \/ call[call[m].child].caller # "parent"
    /\ call' = [call EXCEPT ![m].pc = "children", ![m].child = Null,
                            ![m].children = @ \ {call[m].child}]
    /\ UNCHANGED <<life, fields, links, cb, dereg>>

(* The second critical section.  A call that found no state_ is over then. *)
BecomeCancelled(m) ==
    /\ call[m].pc = "children" /\ call[m].children = {}
    /\ is_cancelling' = [is_cancelling EXCEPT ![m] = FALSE]
    /\ is_cancelled' = [is_cancelled EXCEPT ![m] = TRUE]
    /\ call' = [call EXCEPT ![m].pc = IF call[m].note THEN "notify" ELSE "done"]
    /\ UNCHANGED <<life, parent, has_state, callbacks, notified, next_token, links, cb, dereg>>

(* Mutant: the notification is forgotten. *)
Notify_Forgotten(m) ==
    /\ call[m].pc = "notify"
    /\ call' = [call EXCEPT ![m].pc = "done"]
    /\ UNCHANGED <<life, fields, links, cb, dereg>>

Notify(m) ==
    /\ call[m].pc = "notify"
    /\ notified' = [notified EXCEPT ![m] = TRUE]
    /\ call' = [call EXCEPT ![m].pc = "done"]
    /\ UNCHANGED <<life, parent, is_cancelling, is_cancelled, has_state, callbacks,
                   next_token, links, cb, dereg>>

-----------------------------------------------------------------------------
(* Destruction.                                                            *)

(* No client is inside a method of m, and its children are gone.           *)
MayDestroy(m) ==
    /\ life[m] = "live"
    /\ call[m].caller = "client" => call[m].pc = "done"
    /\ \A t \in Tokens : dereg[m][t] # "blocked"
    /\ \A c \in Managers : parent[c] = m => life[c] = "dead"

(* Mutant: the back pointer of the next sibling is not updated. *)
Unlink_KeepsBackPointer(m) ==
    IF is_removed[m]
    THEN UNCHANGED links
    ELSE /\ first_child' = IF prev_sibling[m] = Null
                           THEN [first_child EXCEPT ![parent[m]] = next_sibling[m]]
                           ELSE first_child
         /\ next_sibling' = [c \in Managers |->
                IF c = prev_sibling[m] THEN next_sibling[m] ELSE next_sibling[c]]
         /\ is_removed' = [is_removed EXCEPT ![m] = TRUE]
         /\ UNCHANGED prev_sibling

(* parent_->DeregisterChild(m), its critical section.                      *)
Unlink(m) ==
    IF is_removed[m]
    THEN UNCHANGED links
    ELSE /\ first_child' = IF prev_sibling[m] = Null
                           THEN [first_child EXCEPT ![parent[m]] = next_sibling[m]]
                           ELSE first_child
         /\ next_sibling' = [c \in Managers |->
                IF c = prev_sibling[m] THEN next_sibling[m] ELSE next_sibling[c]]
         /\ prev_sibling' = [c \in Managers |->
                IF c = next_sibling[m] THEN prev_sibling[m] ELSE prev_sibling[c]]
         /\ is_removed' = [is_removed EXCEPT ![m] = TRUE]

(* Mutant: DeregisterChild never waits. *)
DeregisterChildWaits_Never(m) == FALSE

(* The destructor waits for the StartCancel of the parent.  When state_ of *)
(* the parent is null the code evaluates &state_->cancelled_notification   *)
(* on the null pointer; the member is the first of State, so the address   *)
(* is null in the builds of this code, and the wait is skipped.            *)
DeregisterChildWaits(m) == is_cancelling[parent[m]] /\ has_state[parent[m]]

(* ~CancellationManager() up to the wait in DeregisterChild.               *)
Destroy(m) ==
    /\ MayDestroy(m)
    /\ IF parent[m] = Null
       THEN /\ life' = [life EXCEPT ![m] = "cancel_self"]
            /\ UNCHANGED links
       ELSE /\ Unlink(m)
            /\ life' = [life EXCEPT ![m] =
                    IF DeregisterChildWaits(m) THEN "wait_parent" ELSE "cancel_self"]
    /\ UNCHANGED <<fields, call, cb, dereg>>

DeregisterChildWakes(m) ==
    /\ life[m] = "wait_parent" /\ notified[parent[m]]
    /\ life' = [life EXCEPT ![m] = "cancel_self"]
    /\ UNCHANGED <<fields, links, call, cb, dereg>>

(* Mutant: the destructor does not cancel. *)
CancelSelf_NoCancel(m) ==
    /\ life[m] = "cancel_self"
    /\ life' = [life EXCEPT ![m] = "dead"]
    /\ UNCHANGED <<fields, links, call, cb, dereg>>

(* if (state_) StartCancel(); then the members are gone.                   *)
CancelSelf(m) ==
    /\ life[m] = "cancel_self"
    /\ IF has_state[m] /\ ~Stopped(m)
       THEN /\ EnterStartCancel(m)
            /\ call' = [call EXCEPT ![m] = CallFrame(m, "destructor")]
            /\ life' = [life EXCEPT ![m] = "in_cancel"]
       ELSE /\ life' = [life EXCEPT ![m] = "dead"]
            /\ UNCHANGED <<fields, links, call, cb, dereg>>

DestructorReturns(m) ==
    /\ life[m] = "in_cancel" /\ call[m].pc = "done"
    /\ life' = [life EXCEPT ![m] = "dead"]
    /\ UNCHANGED <<fields, links, call, cb, dereg>>

-----------------------------------------------------------------------------
(* The steps of a call in progress on m: a thread is executing them.       *)
Progress(m) ==
    \/ \E t \in Tokens : BeginCallback(m, t) \/ DeregisterWakes(m, t)
    \/ EndCallback(m) \/ CallbacksDone(m)
    \/ \E c \in Managers : CancelChild(m, c)
    \/ ChildReturns(m) \/ BecomeCancelled(m) \/ Notify(m)
    \/ EndConstructor(m)
    \/ DeregisterChildWakes(m) \/ CancelSelf(m) \/ DestructorReturns(m)

(* The calls that clients make.                                            *)
Client(m) ==
    \/ New(m)
    \/ \E p \in Managers : NewChild(p, m)
    \/ get_cancellation_token(m)
    \/ \E t \in Tokens : RegisterCallback(m, t) \/ DeregisterCallback(m, t)
                         \/ TryDeregisterCallback(m, t)
    \/ StartCancel(m)
    \/ Destroy(m)

Next == \E m \in Managers : Client(m) \/ Progress(m)

Spec == Init /\ [][Next]_vars

(* A thread that is inside a call is eventually scheduled.  Nothing is     *)
(* assumed of the clients: they may never make another call.               *)
FairSpec == Spec /\ \A m \in Managers : WF_vars(Progress(m))

-----------------------------------------------------------------------------
(* Correctness.                                                            *)

(* A StartCancel in progress works on live objects only: neither its       *)
(* manager nor a child it has still to cancel has been destroyed.  The     *)
(* destructor of a child relies on the wait in DeregisterChild             *)
(* (cancellation.cc:170-180) for this.                                     *)
NoUseAfterFree ==
    \A m \in Managers : call[m].pc \notin {"none", "done"} =>
        /\ life[m] \notin {"unborn", "dead"}
        /\ \A c \in call[m].children : life[c] \notin {"unborn", "dead"}

(* The intrusive list of a manager (first_child, next_sibling_,            *)
(* prev_sibling_) holds exactly the children that are not removed from     *)
(* their parent, and its back pointers invert its forward pointers, under  *)
(* any interleaving of constructors, destructors and StartCancel.          *)
ChildListOK ==
    \A m \in Managers :
        /\ ChildList(m) = {c \in Managers : life[c] # "unborn" /\ parent[c] = m /\ ~is_removed[c]}
        /\ \A c \in ChildList(m) :
              /\ prev_sibling[c] = Null <=> first_child[m] = c
              /\ prev_sibling[c] # Null => next_sibling[prev_sibling[c]] = c
              /\ next_sibling[c] # Null => prev_sibling[next_sibling[c]] = c

(* "Returns true iff the callback was deregistered and will not be         *)
(* invoked; otherwise returns false after the callback has been invoked,   *)
(* blocking if necessary" (cancellation.h:126-129): after true the         *)
(* callback is neither running nor has it run, after false it has run to   *)
(* its end.                                                                *)
DeregisterContract ==
    \A m \in Managers, t \in Tokens :
        /\ dereg[m][t] = "true" => cb[m][t] = "deregistered"
        /\ dereg[m][t] = "false" => cb[m][t] = "ran"

(* A callback runs at most once, and not after it was deregistered or      *)
(* refused, although StartCancel runs it from a copy of the map and may be *)
(* called any number of times, by clients, by the parent and by the        *)
(* destructor.                                                             *)
CallbackFinal ==
    [][\A m \in Managers, t \in Tokens :
        cb[m][t] \in {"ran", "deregistered", "refused"} => cb'[m][t] = cb[m][t]]_vars

(* No registered callback is forgotten: once the manager is cancelled, or  *)
(* has been destroyed, each one has run or was deregistered.               *)
NoCallbackLost ==
    \A m \in Managers : is_cancelled[m] \/ life[m] = "dead" =>
        \A t \in Tokens : cb[m][t] \notin {"registered", "running"}

(* "If `*parent` is cancelled, `*this` will be cancelled"                  *)
(* (cancellation.h:57), for every child.  The code does not keep this: the *)
(* constructor stores is_cancelled_ after the child was linked             *)
(* (cancellation.cc:33-36), over what a StartCancel of the parent did.     *)
CancelReachesEveryChild ==
    \A c \in Managers :
        parent[c] # Null /\ life[c] = "live" /\ is_cancelled[parent[c]] => Stopped(c)

(* The same for the children that the parent's StartCancel did not reach   *)
(* inside their constructor: such a child of a cancelled manager is        *)
(* cancelled, or another thread is in the middle of cancelling it, however *)
(* its registration and destruction interleave with the parent's           *)
(* StartCancel, also when the parent's own cancellation was lost that way  *)
(* and made again.                                                         *)
CancelReachesChildren ==
    \A c \in Managers :
        parent[c] # Null /\ life[c] = "live" /\ is_cancelled[parent[c]]
        /\ c \notin call[parent[c]].late => Stopped(c)

(* Every wait ends: a DeregisterCallback that blocks returns, a destructor *)
(* returns, and a StartCancel that began makes its manager cancelled.      *)
CallsReturn ==
    \A m \in Managers :
        /\ \A t \in Tokens : dereg[m][t] = "blocked" ~> dereg[m][t] = "false"
        /\ life[m] \in {"wait_parent", "cancel_self", "in_cancel"} ~> life[m] = "dead"
        /\ is_cancelling[m] ~> is_cancelled[m]

=============================================================================
