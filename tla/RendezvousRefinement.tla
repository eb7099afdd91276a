------------------------- MODULE RendezvousRefinement -------------------------
(***************************************************************************)
(* LocalRendezvous implements the channel of RendezvousChannel, for any    *)
(* number of cancellation managers.  With two on one key, the callback of  *)
(* one can take the item of the other, since it looks for a token and      *)
(* tokens are per manager: the channel's Cause says so.                    *)
(***************************************************************************)
EXTENDS RendezvousProofs

(* What the channel sees of a request x.                                    *)
View(x) ==
    CASE x.pc = "idle" -> [state |-> "idle"]
      [] x.pc # "idle" /\ x.result = "none" -> [state |-> "waiting", key |-> x.key, cm |-> x.cm]
      [] x.pc # "idle" /\ x.result \in Sends ->
            [state |-> "settled", key |-> x.key, cm |-> x.cm, result |-> x.result]
      [] OTHER -> [state |-> "failed", key |-> x.key, cm |-> x.cm]

LEMMA ViewIs ==
    ASSUME NEW x
    PROVE  /\ x.pc = "idle" => View(x) = Channel!NoRequest
           /\ x.pc # "idle" /\ x.result = "none" => View(x) = Channel!Waiting(x.key, x.cm)
           /\ x.pc # "idle" /\ x.result \in Sends =>
                 View(x) = [state |-> "settled", key |-> x.key, cm |-> x.cm, result |-> x.result]
           /\ x.pc # "idle" /\ x.result \in {"CANCELLED", "ABORTED"} =>
                 View(x) = Channel!Failed(x.key, x.cm)
  <1>1. "none" \notin Sends /\ "CANCELLED" \notin Sends /\ "ABORTED" \notin Sends
    BY DisjointAssumption
  <1>2. x.pc = "idle" => View(x) = Channel!NoRequest
    BY DEF View, Channel!NoRequest
  <1>3. x.pc # "idle" /\ x.result = "none" => View(x) = Channel!Waiting(x.key, x.cm)
    BY <1>1 DEF View, Channel!Waiting
  <1>4. x.pc # "idle" /\ x.result \in Sends =>
           View(x) = [state |-> "settled", key |-> x.key, cm |-> x.cm, result |-> x.result]
    BY <1>1 DEF View
  <1>5. x.pc # "idle" /\ x.result \in {"CANCELLED", "ABORTED"} =>
           View(x) = Channel!Failed(x.key, x.cm)
    BY <1>1 DEF View, Channel!Failed
  <1> QED BY <1>2, <1>3, <1>4, <1>5

LEMMA ViewsAre ==
    ASSUME NEW q, q = req
    PROVE  [r \in Recvs |-> ChannelRequest(r)] = [r \in Recvs |-> View(q[r])]
  BY DEF ChannelRequest, View

LEMMA ViewsWillBe ==
    [r \in Recvs |-> ChannelRequest(r)]' = [r \in Recvs |-> View(req'[r])]
  BY DEF ChannelRequest, View

-----------------------------------------------------------------------------
(* To the channel the request x stays what it was.                          *)
Stays(x, y) ==
    \/ y = x
    \/ /\ x.pc = "idle" <=> y.pc = "idle"
       /\ y.result = x.result /\ y.key = x.key /\ y.cm = x.cm

(* The request x, new or waiting, fails.                                    *)
Fails(x, y) ==
    /\ x.pc = "idle" \/ (x.pc = "queued" /\ x.result = "none" /\ y.key = x.key /\ y.cm = x.cm)
    /\ y.pc # "idle" /\ y.result \in {"CANCELLED", "ABORTED"}

Aborted == status # "OK" \/ deleted

(* The request r may fail now: a manager is cancelled that is its own, or   *)
(* that of another request of its key.                                      *)
Caused(r) ==
    /\ req'[r].cm \in Managers
    /\ \/ cm[req'[r].cm] # "live"
       \/ \E x \in Recvs : /\ req[x].pc # "idle" /\ req[x].key = req'[r].key
                            /\ req[x].cm \in Managers /\ cm[req[x].cm] # "live"

LEMMA ChannelFail ==
    ASSUME req \in [Recvs -> Request], req' \in [Recvs -> Request], UNCHANGED <<sent, received>>,
           Aborted => Aborted', \A c \in Managers : cm'[c] # "live" <=> cm[c] # "live",
           \A r \in Recvs :
              \/ Stays(req[r], req'[r])
              \/ /\ Fails(req[r], req'[r])
                 /\ Aborted' \/ Caused(r)
    PROVE  Channel!Fail
  <1> DEFINE old == [r \in Recvs |-> View(req[r])]
             new == [r \in Recvs |-> View(req'[r])]
             F == {Channel!Failed(k, c) : k \in Keys, c \in Managers \cup {NoCM}}
             Users(k) == {old[r].cm : r \in {x \in Recvs : old[x] # Channel!NoRequest
                                                           /\ old[x].key = k}}
  <1>1. ASSUME NEW r \in Recvs, Stays(req[r], req'[r]) PROVE View(req'[r]) = View(req[r])
    BY <1>1 DEF Stays, View
  <1>2. ASSUME NEW r \in Recvs, Fails(req[r], req'[r])
        PROVE  \E k \in Keys, c \in Managers \cup {NoCM} :
                  /\ k = req'[r].key /\ c = req'[r].cm
                  /\ View(req[r]) \in {Channel!NoRequest, Channel!Waiting(k, c)}
                  /\ View(req'[r]) = Channel!Failed(k, c)
    <2>1. PICK k \in Keys, c \in Managers \cup {NoCM} : k = req'[r].key /\ c = req'[r].cm
      BY DEF Request, CMs
    <2>2. View(req'[r]) = Channel!Failed(k, c)
      BY <1>2, <2>1, ViewIs DEF Fails
    <2>3. View(req[r]) \in {Channel!NoRequest, Channel!Waiting(k, c)}
      BY <1>2, <2>1, ViewIs DEF Fails
    <2> QED BY <2>1, <2>2, <2>3
  <1>3. new \in [Recvs -> {old[r] : r \in Recvs} \cup F]
    <2>1. ASSUME NEW r \in Recvs PROVE View(req'[r]) \in {old[x] : x \in Recvs} \cup F
      BY <1>1, <1>2
    <2> QED BY <2>1
  <1>4. ASSUME NEW r \in Recvs, new[r] # old[r]
        PROVE  \E k \in Keys, c \in Managers \cup {NoCM} :
                  /\ old[r] \in {Channel!NoRequest, Channel!Waiting(k, c)}
                  /\ new[r] = Channel!Failed(k, c)
                  /\ \/ Aborted'
                     \/ /\ c # NoCM
                        /\ (Users(k) \cup {c}) \cap {d \in Managers : cm[d] # "live"} # {}
    <2>1. Fails(req[r], req'[r]) /\ (Aborted' \/ Caused(r))
      BY <1>1, <1>4
    <2>2. PICK k \in Keys, c \in Managers \cup {NoCM} :
                  /\ k = req'[r].key /\ c = req'[r].cm
                  /\ View(req[r]) \in {Channel!NoRequest, Channel!Waiting(k, c)}
                  /\ View(req'[r]) = Channel!Failed(k, c)
      BY <1>2, <2>1
    <2>3. ASSUME Caused(r)
          PROVE  c # NoCM /\ \E d \in Users(k) \cup {c} : d \in Managers /\ cm[d] # "live"
      <3>1. c \in Managers /\ c # NoCM
        BY <2>2, <2>3, DisjointAssumption DEF Caused
      <3>2. CASE cm[c] # "live"
        BY <3>1, <3>2
      <3>3. CASE \E x \in Recvs : /\ req[x].pc # "idle" /\ req[x].key = k
                                  /\ req[x].cm \in Managers /\ cm[req[x].cm] # "live"
        <4>1. PICK x \in Recvs : /\ req[x].pc # "idle" /\ req[x].key = k
                                 /\ req[x].cm \in Managers /\ cm[req[x].cm] # "live"
          BY <3>3
        <4>2. old[x] # Channel!NoRequest /\ old[x].key = k /\ old[x].cm = req[x].cm
          <5>1. /\ View(req[x]) # Channel!NoRequest /\ View(req[x]).key = req[x].key
                /\ View(req[x]).cm = req[x].cm
            BY <4>1 DEF View, Channel!NoRequest, Channel!Waiting, Channel!Failed
          <5> QED BY <4>1, <5>1
        <4>3. req[x].cm \in Users(k)
          BY <4>2
        <4> QED BY <3>1, <4>1, <4>3
      <3> QED BY <2>2, <2>3, <3>2, <3>3 DEF Caused
    <2> QED BY <2>1, <2>2, <2>3
  <1>5. {d \in Managers : cm'[d] # "live"} = {d \in Managers : cm[d] # "live"}
    OBVIOUS
  <1>6. /\ [r \in Recvs |-> ChannelRequest(r)] = old
        /\ [r \in Recvs |-> ChannelRequest(r)]' = new
    BY ViewsAre, ViewsWillBe
  <1> HIDE DEF old, new
  <1>7. ASSUME NEW k PROVE Channel!Users(k) = Users(k)
    BY <1>6 DEF Channel!Users
  <1> HIDE DEF Users
  <1>8. ASSUME NEW k, NEW c
        PROVE  Channel!Cause(k, c) <=>
                  \/ Aborted'
                  \/ /\ c # NoCM
                     /\ (Users(k) \cup {c}) \cap {d \in Managers : cm[d] # "live"} # {}
    BY <1>7 DEF Channel!Cause, Aborted
  <1>9. ASSUME NEW r \in Recvs, new[r] # old[r]
        PROVE  \E k \in Keys, c \in Managers \cup {NoCM} :
                  /\ old[r] \in {Channel!NoRequest, Channel!Waiting(k, c)}
                  /\ new[r] = Channel!Failed(k, c)
                  /\ Channel!Cause(k, c)
    BY <1>4, <1>8, <1>9
  <1> QED BY <1>3, <1>5, <1>6, <1>9 DEF Channel!Fail, Aborted

-----------------------------------------------------------------------------
(* The actions, one by one.                                                 *)

(* The steps of a request after it was completed, and of its callbacks,     *)
(* are not seen, unless the last Unref aborts the table.                    *)
LEMMA UnrefStep ==
    ASSUME TypeOK, TypeOK', RendezvousInv, NEW q \in [Recvs -> Request], Unref(q),
           \A r \in Recvs : Stays(req[r], q[r]) /\ (q[r].pc = "queued" => q[r] = req[r]),
           UNCHANGED <<cm, sent, received>>
    PROVE  Channel!Fail
  <1>1. CASE rc # 1
    <2>1. req' = q /\ UNCHANGED <<deleted, status>>
      BY <1>1 DEF Unref
    <2>2. Aborted => Aborted'
      BY <2>1 DEF Aborted
    <2>3. req \in [Recvs -> Request] /\ req' \in [Recvs -> Request]
      BY DEF TypeOK
    <2> QED BY <2>1, <2>2, <2>3, ChannelFail
  <1>2. CASE rc = 1
    <2>1. req' = AbortTable(q) /\ deleted'
      BY <1>2 DEF Unref
    <2>2. Aborted'
      BY <2>1 DEF Aborted
    <2>3. req \in [Recvs -> Request] /\ req' \in [Recvs -> Request]
      BY DEF TypeOK
    <2>4. ASSUME NEW r \in Recvs PROVE Stays(req[r], req'[r]) \/ Fails(req[r], req'[r])
      <3>1. req'[r] = IF q[r].pc = "queued" THEN Completed(q[r], "ABORTED") ELSE q[r]
        BY <2>1 DEF AbortTable
      <3>2. CASE q[r].pc # "queued"
        BY <3>1, <3>2
      <3>3. CASE q[r].pc = "queued"
        <4>1. /\ req'[r].pc \in {"call_done", "taken"} /\ req'[r].result = "ABORTED"
              /\ req'[r].key = q[r].key /\ req'[r].cm = q[r].cm
          BY <3>1, <3>3 DEF Completed, Request
        <4>2. RequestOK(req[r], cb[r], cm)
          BY DEF RendezvousInv, RequestInv
        <4> QED BY <3>3, <4>1, <4>2 DEF Fails, RequestOK
      <3> QED BY <3>2, <3>3
    <2> QED BY <2>2, <2>3, <2>4, ChannelFail
  <1> QED BY <1>1, <1>2

LEMMA UnrefSteps ==
    ASSUME TypeOK, TypeOK', RendezvousInv, NEW r \in Recvs,
           UnrefRefused(r) \/ UnrefWaiter(r) \/ UnrefCancelled(r)
    PROVE  Channel!Fail
  <1>1. CASE UnrefCancelled(r)
    <2>1. Unref(req) /\ UNCHANGED <<cm, sent, received>> /\ req \in [Recvs -> Request]
      BY <1>1 DEF UnrefCancelled, TypeOK
    <2>2. \A x \in Recvs : Stays(req[x], req[x])
      BY DEF Stays
    <2> QED BY <2>1, <2>2, UnrefStep
  <1>2. CASE UnrefRefused(r) \/ UnrefWaiter(r)
    <2>1. PICK q : q = [req EXCEPT ![r].pc = "call_done"]
      OBVIOUS
    <2>2. Unref(q) /\ UNCHANGED <<cm, sent, received>> /\ req[r].pc \in {"refused", "unref"}
      BY <1>2, <2>1 DEF UnrefRefused, UnrefWaiter
    <2>3. req \in [Recvs -> Request] /\ req[r] \in Request
      BY DEF TypeOK
    <2>4. /\ q \in [Recvs -> Request] /\ q[r].pc = "call_done" /\ q[r].key = req[r].key
          /\ q[r].cm = req[r].cm /\ q[r].result = req[r].result
          /\ \A x \in Recvs \ {r} : q[x] = req[x]
      BY <2>1, <2>3 DEF Request
    <2>5. ASSUME NEW x \in Recvs
          PROVE  Stays(req[x], q[x]) /\ (q[x].pc = "queued" => q[x] = req[x])
      <3>1. CASE x = r
        BY <2>2, <2>4, <3>1 DEF Stays
      <3>2. CASE x # r
        BY <2>4, <3>2 DEF Stays
      <3> QED BY <3>1, <3>2
    <2> QED BY <2>2, <2>4, <2>5, UnrefStep
  <1> QED BY <1>1, <1>2

(* The other steps that a completed request and its caller take.            *)
LEMMA SettledStep ==
    ASSUME TypeOK, TypeOK', RendezvousInv, NEW r \in Recvs,
           \/ WaiterDeregisters(r) \/ CallDone(r) \/ RecvReturns(r) \/ RecvTimesOut(r)
           \/ CancelRecvDone(r)
    PROVE  Channel!Fail
  <1>1. /\ UNCHANGED <<status, deleted, cm, sent, received>>
        /\ req \in [Recvs -> Request] /\ req' \in [Recvs -> Request]
    BY DEF WaiterDeregisters, CallDone, RecvReturns, RecvTimesOut, CancelRecvDone, TypeOK
  <1>2. Aborted => Aborted'
    BY <1>1 DEF Aborted
  <1>3. \A x \in Recvs : Stays(req[x], req'[x])
    <2>1. CASE req' = req
      BY <2>1 DEF Stays
    <2>2. ASSUME \A x \in Recvs \ {r} : req'[x] = req[x],
                 req'[r].pc = "idle" <=> req[r].pc = "idle",
                 req'[r].result = req[r].result, req'[r].key = req[r].key, req'[r].cm = req[r].cm
          PROVE  \A x \in Recvs : Stays(req[x], req'[x])
      BY <2>2 DEF Stays
    <2>3. req[r] \in Request
      BY DEF TypeOK
    <2>4. CASE WaiterDeregisters(r)
      <3>1. PICK pc \in {"unref", "call_done"} : req' = [req EXCEPT ![r].pc = pc]
        BY <2>4 DEF WaiterDeregisters
      <3>2. /\ \A x \in Recvs \ {r} : req'[x] = req[x]
            /\ req'[r].pc = pc /\ req[r].pc = "taken"
            /\ req'[r].result = req[r].result /\ req'[r].key = req[r].key /\ req'[r].cm = req[r].cm
        BY <1>1, <2>3, <2>4, <3>1 DEF Request, WaiterDeregisters
      <3> QED BY <2>2, <3>2
    <2>5. CASE CallDone(r)
      <3>1. req' = [req EXCEPT ![r].pc = "done", ![r].called = @ + 1] /\ req[r].pc = "call_done"
        BY <2>5 DEF CallDone
      <3>2. /\ \A x \in Recvs \ {r} : req'[x] = req[x]
            /\ req'[r].pc = "done"
            /\ req'[r].result = req[r].result /\ req'[r].key = req[r].key /\ req'[r].cm = req[r].cm
        BY <1>1, <2>3, <3>1 DEF Request
      <3> QED BY <2>2, <3>1, <3>2
    <2>6. CASE RecvReturns(r) \/ RecvTimesOut(r)
      <3>1. PICK caller \in {"returned", "gone"} : req' = [req EXCEPT ![r].caller = caller]
        BY <2>6 DEF RecvReturns, RecvTimesOut
      <3>2. /\ \A x \in Recvs \ {r} : req'[x] = req[x]
            /\ req'[r].pc = req[r].pc
            /\ req'[r].result = req[r].result /\ req'[r].key = req[r].key /\ req'[r].cm = req[r].cm
        BY <1>1, <2>3, <3>1 DEF Request
      <3> QED BY <2>2, <3>2
    <2>7. CASE CancelRecvDone(r)
      BY <2>1, <2>7 DEF CancelRecvDone
    <2> QED BY <2>4, <2>5, <2>6, <2>7
  <1> QED BY <1>1, <1>2, <1>3, ChannelFail

LEMMA StartAbortStep ==
    ASSUME TypeOK, TypeOK', RendezvousInv, StartAbort
    PROVE  Channel!Fail
  <1>1. /\ req' = AbortTable(req) /\ status' = "ABORTED" /\ UNCHANGED <<cm, sent, received>>
        /\ req \in [Recvs -> Request] /\ req' \in [Recvs -> Request]
    BY DEF StartAbort, TypeOK
  <1>2. Aborted'
    BY <1>1 DEF Aborted
  <1>3. ASSUME NEW r \in Recvs PROVE Stays(req[r], req'[r]) \/ Fails(req[r], req'[r])
    <2>1. req'[r] = IF req[r].pc = "queued" THEN Completed(req[r], "ABORTED") ELSE req[r]
      BY <1>1 DEF AbortTable
    <2>2. CASE req[r].pc # "queued"
      BY <2>1, <2>2 DEF Stays
    <2>3. CASE req[r].pc = "queued"
      <3>1. /\ req'[r].pc \in {"call_done", "taken"} /\ req'[r].result = "ABORTED"
            /\ req'[r].key = req[r].key /\ req'[r].cm = req[r].cm
        <4>1. req[r] \in Request
          BY <1>1
        <4> QED BY <2>1, <2>3, <4>1 DEF Completed, Request
      <3>2. RequestOK(req[r], cb[r], cm)
        BY DEF RendezvousInv, RequestInv
      <3> QED BY <2>3, <3>1, <3>2 DEF Fails, RequestOK
    <2> QED BY <2>2, <2>3
  <1> QED BY <1>1, <1>2, <1>3, ChannelFail

(* The callback of a manager that is not live takes a request of the same   *)
(* key: its own, or one that has the same token from another manager.       *)
LEMMA CancelRecvStep ==
    ASSUME TypeOK, TypeOK', RendezvousInv, NEW r \in Recvs, CancelRecv(r)
    PROVE  Channel!Fail
  <1>1. /\ UNCHANGED <<status, deleted, cm, sent, received>> /\ cb[r] = "to_run"
        /\ req \in [Recvs -> Request] /\ req' \in [Recvs -> Request]
    BY DEF CancelRecv, TypeOK
  <1>2. Aborted => Aborted'
    BY <1>1 DEF Aborted
  <1>3. ASSUME NEW x \in Recvs
        PROVE  \/ Stays(req[x], req'[x])
               \/ Fails(req[x], req'[x]) /\ Caused(x)
    <2>1. CASE Matches(r) = {}
      BY <2>1 DEF CancelRecv, Stays
    <2>2. CASE Matches(r) # {}
      <3>1. PICK k : k = req[r].key
        OBVIOUS
      <3>2. PICK y \in Recvs : /\ req' = [req EXCEPT ![y] = Completed(@, "CANCELLED")]
                               /\ req[y].pc = "queued" /\ req[y].cm \in Managers
                               /\ req[y].key = k
        <4>1. k \in Keys
          BY <1>1, <3>1 DEF Request
        <4>2. PICK i \in 1 .. Len(table[k]) :
                 /\ i = CHOOSE m \in Matches(r) : \A n \in Matches(r) : m <= n
                 /\ table[k][i] \in Recvs /\ req[table[k][i]].pc = "queued"
                 /\ req[table[k][i]].cm \in Managers /\ req[table[k][i]].key = k
          BY <1>1, <2>2, <3>1, <4>1, MatchIs
        <4>3. req' = [req EXCEPT ![table[k][i]] = Completed(@, "CANCELLED")]
          BY <2>2, <3>1, <4>2 DEF CancelRecv
        <4> QED BY <4>2, <4>3
      <3>3. req[r].cm \in Managers /\ cm[req[r].cm] # "live" /\ req[r].pc # "idle"
        <4>1. RequestOK(req[r], cb[r], cm) /\ req[r].cm \in CMs
          BY DEF RendezvousInv, RequestInv, TypeOK, Request
        <4> QED BY <1>1, <4>1 DEF RequestOK, CMs
      <3>5. CASE x # y
        BY <1>1, <3>2, <3>5 DEF Stays
      <3>6. CASE x = y
        <4>1. req[y] \in Request /\ req'[y] = Completed(req[y], "CANCELLED")
          BY <1>1, <3>2
        <4>2. /\ req'[y].pc \in {"call_done", "taken"} /\ req'[y].result = "CANCELLED"
              /\ req'[y].key = req[y].key /\ req'[y].cm = req[y].cm
          BY <4>1 DEF Completed, Request
        <4>3. RequestOK(req[y], cb[y], cm)
          BY DEF RendezvousInv, RequestInv
        <4>4. Fails(req[y], req'[y])
          BY <3>2, <4>2, <4>3 DEF Fails, RequestOK
        <4>5. Caused(y)
          BY <3>1, <3>2, <3>3, <4>2 DEF Caused
        <4> QED BY <3>6, <4>4, <4>5
      <3> QED BY <3>5, <3>6
    <2> QED BY <2>1, <2>2
  <1> QED BY <1>1, <1>2, <1>3, ChannelFail

LEMMA StartCancelStep ==
    ASSUME TypeOK, NEW c \in Managers, StartCancel(c)
    PROVE  Channel!Cancel(c)
  <1>1. UNCHANGED <<req, status, deleted, sent, received>> /\ cm' = [cm EXCEPT ![c] = "cancelling"]
    BY DEF StartCancel
  <1>2. {d \in Managers : cm'[d] # "live"} = {d \in Managers : cm[d] # "live"} \cup {c}
    BY <1>1 DEF TypeOK
  <1>3. [r \in Recvs |-> ChannelRequest(r)]' = [r \in Recvs |-> ChannelRequest(r)]
    BY <1>1 DEF ChannelRequest
  <1> QED BY <1>1, <1>2, <1>3 DEF Channel!Cancel

(* A message is accepted, refused, or given to the request that waits.      *)
LEMMA SendStep ==
    ASSUME TypeOK, TypeOK', RendezvousInv, NEW v \in Sends, NEW k \in Keys, Send(v, k)
    PROVE  Channel!Fail \/ Channel!Send(k, v) \/ Channel!SendToWaiter(k, v)
  <1>1. /\ UNCHANGED <<status, deleted, cm>> /\ ~deleted /\ TableOK(table, req)
        /\ req \in [Recvs -> Request] /\ req' \in [Recvs -> Request]
        /\ table[k] \in Seq(Items) /\ sent[k] \in Seq(Sends) /\ received[k] \in Seq(Sends)
    BY ClientHolds DEF Send, RendezvousInv, TypeOK, Items
  <1>2. CASE ~Open
    <2>1. UNCHANGED <<req, sent, received>>
      BY <1>2 DEF Send
    <2>2. Aborted => Aborted'
      BY <1>1 DEF Aborted
    <2>3. \A r \in Recvs : Stays(req[r], req'[r])
      BY <2>1 DEF Stays
    <2>4. Channel!Fail
      BY <1>1, <2>1, <2>2, <2>3, ChannelFail
    <2> QED BY <2>4
  <1>3. CASE Open /\ ~HeadIs(k, Recvs)
    <2>1. sent' = [sent EXCEPT ![k] = Append(@, v)] /\ UNCHANGED <<req, received>>
      BY <1>3 DEF Send
    <2>2. [r \in Recvs |-> ChannelRequest(r)]' = [r \in Recvs |-> ChannelRequest(r)]
      BY <2>1 DEF ChannelRequest
    <2>3. Channel!Send(k, v)
      BY <1>1, <1>3, <2>1, <2>2 DEF Channel!Send, Channel!Accept, Open
    <2> QED BY <2>3
  <1>4. CASE Open /\ HeadIs(k, Recvs)
    <2>1. PICK x \in Recvs : x = Head(table[k]) /\ table[k] # <<>>
      BY <1>4 DEF HeadIs
    <2>2. /\ req' = [req EXCEPT ![x] = Completed(@, v)]
          /\ sent' = [sent EXCEPT ![k] = Append(@, v)]
          /\ received' = [received EXCEPT ![k] = Append(@, v)]
      BY <1>4, <2>1 DEF Send
    <2>3. req[x].pc = "queued" /\ req[x].key = k /\ req[x] \in Request /\ req[x].cm \in CMs
      <3>1. 1 \in 1 .. Len(table[k]) /\ x = table[k][1]
        BY <1>1, <2>1, TailItem
      <3>2. req[x].pc = "queued" /\ req[x].key = k
        BY <1>1, <3>1 DEF TableOK
      <3> QED BY <1>1, <3>2 DEF Request
    <2>4. req[x].result = "none"
      BY <2>3 DEF RendezvousInv, RequestInv, RequestOK
    <2>5. /\ req'[x].pc # "idle" /\ req'[x].result = v /\ req'[x].key = k /\ req'[x].cm = req[x].cm
          /\ \A y \in Recvs \ {x} : req'[y] = req[y]
      <3>1. req'[x] = Completed(req[x], v) /\ \A y \in Recvs \ {x} : req'[y] = req[y]
        BY <1>1, <2>2
      <3> QED BY <2>3, <3>1 DEF Completed, Request
    <2>6. Len(received[k]) < Len(sent'[k]) /\ sent'[k][Len(received[k]) + 1] = v
      <3>1. AllIn(table[k], Recvs)
        BY <1>1, <2>1, Uniform
      <3>2. MessagesOK(table[k], sent[k], received[k])
        BY <1>1, <1>4 DEF RendezvousInv, MessagesInv, Open
      <3>3. /\ Len(received[k]) < Len(Append(sent[k], v))
            /\ Append(sent[k], v)[Len(received[k]) + 1] = v
        BY <1>1, <2>1, <3>1, <3>2, MessagePassed
      <3>4. sent'[k] = Append(sent[k], v)
        BY <2>2 DEF TypeOK
      <3> QED BY <3>3, <3>4
    <2> DEFINE c == req[x].cm
               old == [r \in Recvs |-> View(req[r])]
               new == [r \in Recvs |-> View(req'[r])]
    <2>7. old[x] = Channel!Waiting(k, c)
      BY <2>3, <2>4, ViewIs
    <2>8. new = [old EXCEPT ![x] = [state |-> "settled", key |-> k, cm |-> c, result |-> v]]
      <3>1. View(req'[x]) = [state |-> "settled", key |-> k, cm |-> c, result |-> v]
        BY <2>5, ViewIs
      <3> QED BY <2>5, <3>1
    <2>9. /\ [r \in Recvs |-> ChannelRequest(r)] = old
          /\ [r \in Recvs |-> ChannelRequest(r)]' = new
      BY ViewsAre, ViewsWillBe
    <2> HIDE DEF old, new
    <2>10. Channel!Accept(k, v)
      BY <1>1, <1>4, <2>2 DEF Channel!Accept, Open
    <2>11. Channel!Settle(x, k, c)
      BY <2>2, <2>6, <2>8, <2>9 DEF Channel!Settle
    <2>12. \E r \in Recvs, d \in Managers \cup {NoCM} :
              [y \in Recvs |-> ChannelRequest(y)][r] = Channel!Waiting(k, d) /\ Channel!Settle(r, k, d)
      BY <2>3, <2>7, <2>9, <2>11 DEF CMs
    <2>13. Channel!SendToWaiter(k, v)
      BY <1>1, <2>10, <2>12 DEF Channel!SendToWaiter
    <2> QED BY <2>13
  <1> QED BY <1>2, <1>3, <1>4

(* A request is refused, is settled by a message in the table, or waits.    *)
LEMMA RecvAsyncStep ==
    ASSUME TypeOK, TypeOK', RendezvousInv, NEW r \in Recvs, NEW k \in Keys, NEW c \in CMs,
           NEW mode \in Modes, RecvAsync(r, k, c, mode)
    PROVE  Channel!Fail \/ Channel!Request(r, k, c) \/ Channel!RequestSettled(r, k, c)
  <1>1. /\ UNCHANGED <<status, deleted, cm, sent>> /\ ~deleted /\ TableOK(table, req)
        /\ req \in [Recvs -> Request] /\ req' \in [Recvs -> Request] /\ req[r].pc = "idle"
        /\ table[k] \in Seq(Items) /\ sent[k] \in Seq(Sends) /\ received[k] \in Seq(Sends)
    BY ClientHolds DEF RecvAsync, RendezvousInv, TypeOK, Items
  <1>2. PICK q \in Request : /\ q = Called(k, c, mode) /\ q.pc = "idle" /\ q.key = k /\ q.cm = c
                             /\ q.token = kInvalidToken /\ q.result = "none" /\ q.called = 0
    BY CalledIs
  <1>3. Aborted => Aborted'
    BY <1>1 DEF Aborted
  <1> DEFINE old == [x \in Recvs |-> View(req[x])]
             new == [x \in Recvs |-> View(req'[x])]
  <1>4. /\ [x \in Recvs |-> ChannelRequest(x)] = old
        /\ [x \in Recvs |-> ChannelRequest(x)]' = new
    BY ViewsAre, ViewsWillBe
  <1>5. old[r] = Channel!NoRequest
    BY <1>1, ViewIs
  <1>6. ASSUME NEW x, req' = [req EXCEPT ![r] = x] PROVE new = [old EXCEPT ![r] = View(x)]
    BY <1>1, <1>6
  <1> HIDE DEF old, new
  <1>7. ASSUME NEW x, req' = [req EXCEPT ![r] = x], x.pc # "idle",
               x.result \in {"CANCELLED", "ABORTED"}, x.cm = c, received' = received,
               ~Open \/ (c \in Managers /\ cm[c] # "live")
        PROVE  Channel!Fail
    <2>1. req'[r] = x /\ \A y \in Recvs \ {r} : req'[y] = req[y]
      BY <1>1, <1>7
    <2>2. Fails(req[r], req'[r])
      BY <1>1, <1>7, <2>1 DEF Fails
    <2>3. \A y \in Recvs \ {r} : Stays(req[y], req'[y])
      BY <2>1 DEF Stays
    <2>4. Aborted' \/ Caused(r)
      BY <1>1, <1>7, <2>1 DEF Aborted, Open, Caused
    <2>5. \A y \in Recvs : \/ Stays(req[y], req'[y])
                           \/ /\ Fails(req[y], req'[y])
                              /\ Aborted' \/ Caused(y)
      BY <2>2, <2>3, <2>4
    <2> QED BY <1>1, <1>3, <1>7, <2>5, ChannelFail
  <1>8. ASSUME NEW x, req' = [req EXCEPT ![r] = x], x.pc = "queued", x.result = "none",
               x.cm = c, x.key = k, received' = received
        PROVE  Channel!Request(r, k, c)
    <2>1. View(x) = Channel!Waiting(k, c)
      BY <1>8, ViewIs
    <2>2. new = [old EXCEPT ![r] = Channel!Waiting(k, c)]
      BY <1>6, <1>8, <2>1
    <2> QED BY <1>1, <1>4, <1>5, <1>8, <2>2 DEF Channel!Request
  <1>9. ASSUME NEW pc \in {"call_done", "refused"}, NEW result \in Results,
               NEW x, x = Inline(q, pc, result)
        PROVE  x \in Request /\ x.pc = pc /\ x.key = k /\ x.cm = c /\ x.result = result
    BY <1>2, <1>9, InlineIs
  <1>10. CASE ~Open
    <2>1. PICK x : x = Inline(q, "call_done", "ABORTED")
      OBVIOUS
    <2>2. req' = [req EXCEPT ![r] = x] /\ UNCHANGED received
      BY <1>2, <1>10, <2>1 DEF RecvAsync
    <2>3. "ABORTED" \in Results
      BY DEF Results
    <2>4. x.pc = "call_done" /\ x.cm = c /\ x.result = "ABORTED"
      BY <1>9, <2>1, <2>3
    <2>5. Channel!Fail
      BY <1>7, <1>10, <2>2, <2>4
    <2> QED BY <2>5
  <1>11. CASE Open /\ HeadIs(k, Sends)
    <2>1. PICK v \in Sends : v = Head(table[k]) /\ table[k] # <<>>
      BY <1>11 DEF HeadIs
    <2>2. PICK x : x = Inline(q, "call_done", v)
      OBVIOUS
    <2>3. req' = [req EXCEPT ![r] = x] /\ received' = [received EXCEPT ![k] = Append(@, v)]
      BY <1>2, <1>11, <2>1, <2>2 DEF RecvAsync
    <2>4. v \in Results
      BY DEF Results
    <2>5. x.pc = "call_done" /\ x.key = k /\ x.cm = c /\ x.result = v
      BY <1>9, <2>2, <2>4
    <2>6. View(x) = [state |-> "settled", key |-> k, cm |-> c, result |-> v]
      BY <2>5, ViewIs
    <2>7. Len(received[k]) < Len(sent[k]) /\ sent[k][Len(received[k]) + 1] = v
      <3>1. AllIn(table[k], Sends)
        BY <1>1, <2>1, Uniform
      <3>2. MessagesOK(table[k], sent[k], received[k])
        BY <1>1, <1>11 DEF RendezvousInv, MessagesInv, Open
      <3> QED BY <1>1, <2>1, <3>1, <3>2, MessageTaken
    <2>8. new = [old EXCEPT ![r] = [state |-> "settled", key |-> k, cm |-> c, result |-> v]]
      BY <1>6, <2>3, <2>6
    <2>9. Channel!Settle(r, k, c)
      BY <1>1, <1>4, <2>3, <2>7, <2>8 DEF Channel!Settle
    <2>10. Channel!RequestSettled(r, k, c)
      BY <1>1, <1>4, <1>5, <1>11, <2>9 DEF Channel!RequestSettled, Open
    <2> QED BY <2>10
  <1>12. CASE Open /\ ~HeadIs(k, Sends) /\ c = NoCM
    <2>1. PICK x : x = [q EXCEPT !.pc = "queued"]
      OBVIOUS
    <2>2. req' = [req EXCEPT ![r] = x] /\ UNCHANGED received
      BY <1>2, <1>12, <2>1 DEF RecvAsync
    <2>3. x.pc = "queued" /\ x.result = "none" /\ x.cm = c /\ x.key = k
      BY <1>2, <2>1 DEF Request
    <2>4. Channel!Request(r, k, c)
      BY <1>8, <2>2, <2>3
    <2> QED BY <2>4
  <1>13. CASE Open /\ ~HeadIs(k, Sends) /\ c # NoCM
    <2>1. c \in Managers
      BY <1>13 DEF CMs
    <2>2. CASE cm[c] = "live"
      <3>1. PICK x : x = [q EXCEPT !.pc = "queued", !.token = next_token[c]]
        OBVIOUS
      <3>2. req' = [req EXCEPT ![r] = x] /\ UNCHANGED received
        BY <1>2, <1>13, <2>2, <3>1 DEF RecvAsync
      <3>3. x.pc = "queued" /\ x.result = "none" /\ x.cm = c /\ x.key = k
        BY <1>2, <3>1 DEF Request
      <3>4. Channel!Request(r, k, c)
        BY <1>8, <3>2, <3>3
      <3> QED BY <3>4
    <2>3. CASE cm[c] # "live"
      <3>1. PICK y : y = Inline(q, "refused", "CANCELLED")
        OBVIOUS
      <3>2. PICK x : x = [y EXCEPT !.token = next_token[c]]
        OBVIOUS
      <3>3. req' = [req EXCEPT ![r] = x] /\ UNCHANGED received
        BY <1>2, <1>13, <2>3, <3>1, <3>2 DEF RecvAsync
      <3>4. "CANCELLED" \in Results
        BY DEF Results
      <3>5. y \in Request /\ y.pc = "refused" /\ y.cm = c /\ y.result = "CANCELLED"
        BY <1>9, <3>1, <3>4
      <3>6. x.pc = "refused" /\ x.cm = c /\ x.result = "CANCELLED"
        BY <3>2, <3>5 DEF Request
      <3>7. Channel!Fail
        BY <1>7, <2>1, <2>3, <3>3, <3>6
      <3> QED BY <3>7
    <2> QED BY <2>2, <2>3
  <1> QED BY <1>10, <1>11, <1>12, <1>13

-----------------------------------------------------------------------------
LEMMA ChannelInit ==
    ASSUME Init
    PROVE  Channel!Init
  <1>1. \A r \in Recvs : req[r].pc = "idle"
    BY DEF Init, NoRequest
  <1>2. [r \in Recvs |-> View(req[r])] = [r \in Recvs |-> Channel!NoRequest]
    BY <1>1, ViewIs
  <1>3. [r \in Recvs |-> ChannelRequest(r)] = [r \in Recvs |-> Channel!NoRequest]
    BY <1>2, ViewsAre
  <1>4. status = "OK" /\ ~deleted /\ \A c \in Managers : cm[c] = "live"
    BY DEF Init
  <1>5. sent = [k \in Keys |-> <<>>] /\ received = [k \in Keys |-> <<>>]
    BY DEF Init
  <1> QED BY <1>3, <1>4, <1>5 DEF Channel!Init

LEMMA ChannelNext ==
    ASSUME TypeOK, TypeOK', RendezvousInv, [Next]_vars
    PROVE  [Channel!Next]_(Channel!vars)
  <1>1. ASSUME NEW v \in Sends, NEW k \in Keys, Send(v, k) PROVE Channel!Next
    BY <1>1, SendStep DEF Channel!Next
  <1>2. ASSUME NEW r \in Recvs, NEW k \in Keys, NEW c \in CMs, NEW mode \in Modes,
               RecvAsync(r, k, c, mode)
        PROVE  Channel!Next
    BY <1>2, RecvAsyncStep DEF Channel!Next, CMs
  <1>3. CASE StartAbort
    BY <1>3, StartAbortStep DEF Channel!Next
  <1>4. CASE ClientUnref
    <2>1. Unref(req) /\ UNCHANGED <<cm, sent, received>> /\ req \in [Recvs -> Request]
      BY <1>4 DEF ClientUnref, TypeOK
    <2>2. \A x \in Recvs : Stays(req[x], req[x])
      BY DEF Stays
    <2>3. Channel!Fail
      BY <2>1, <2>2, UnrefStep
    <2> QED BY <2>3 DEF Channel!Next
  <1>5. ASSUME NEW r \in Recvs, Progress(r) \/ RecvTimesOut(r) PROVE Channel!Next
    <2>1. CASE UnrefRefused(r) \/ UnrefWaiter(r) \/ UnrefCancelled(r)
      BY <2>1, UnrefSteps DEF Channel!Next
    <2>2. CASE WaiterDeregisters(r) \/ CallDone(r) \/ RecvReturns(r) \/ RecvTimesOut(r) \/ CancelRecvDone(r)
      BY <2>2, SettledStep DEF Channel!Next
    <2>3. CASE CancelRecv(r)
      BY <2>3, CancelRecvStep DEF Channel!Next
    <2> QED BY <1>5, <2>1, <2>2, <2>3 DEF Progress
  <1>6. ASSUME NEW c \in Managers, StartCancel(c) PROVE Channel!Next
    BY <1>6, StartCancelStep DEF Channel!Next
  <1>7. ASSUME NEW c \in Managers, CancelDone(c) PROVE Channel!Next
    <2>1. UNCHANGED <<req, status, deleted, sent, received>> /\ cm' = [cm EXCEPT ![c] = "cancelled"]
          /\ cm[c] = "cancelling"
      BY <1>7 DEF CancelDone
    <2>2. /\ \A d \in Managers : cm'[d] # "live" <=> cm[d] # "live"
          /\ req \in [Recvs -> Request] /\ req' \in [Recvs -> Request]
      BY <2>1 DEF TypeOK
    <2>3. (Aborted => Aborted') /\ \A r \in Recvs : Stays(req[r], req'[r])
      BY <2>1 DEF Aborted, Stays
    <2>4. Channel!Fail
      BY <2>1, <2>2, <2>3, ChannelFail
    <2> QED BY <2>4 DEF Channel!Next
  <1>8. CASE UNCHANGED vars
    <2>1. UNCHANGED <<req, status, deleted, cm, sent, received>>
      BY <1>8 DEF vars
    <2>2. [r \in Recvs |-> ChannelRequest(r)]' = [r \in Recvs |-> ChannelRequest(r)]
      BY <2>1 DEF ChannelRequest
    <2> QED BY <2>1, <2>2 DEF Channel!vars
  <1> QED BY <1>1, <1>2, <1>3, <1>4, <1>5, <1>6, <1>7, <1>8 DEF Next

(* LocalRendezvous implements the channel of rendezvous.h:36-124, for any   *)
(* number of keys, messages, requests and cancellation managers: FIFO per   *)
(* key, no message lost or given twice, no request settled twice, no error  *)
(* without an abort, a deletion or the cancellation of a manager that has a *)
(* request on the key (with one manager: of the request's own), and none of *)
(* a request without a manager but by an abort or the deletion.             *)
THEOREM RendezvousImplementsChannel == Spec => ImplementsChannel
  <1>1. Init => Channel!Init
    BY ChannelInit
  <1>2. TypeOK /\ TypeOK' /\ RendezvousInv /\ [Next]_vars => [Channel!Next]_(Channel!vars)
    BY ChannelNext
  <1> QED BY <1>1, <1>2, RendezvousInvariant, PTL DEF Spec, ImplementsChannel, Channel!Spec
=============================================================================
