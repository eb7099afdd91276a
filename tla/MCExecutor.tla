----------------------------- MODULE MCExecutor -----------------------------
(* The graphs and arguments that TLC runs the Executor with.               *)
EXTENDS Executor, TLC

CONSTANTS n1, n2, n3, n4

None == [x \in {n1, n2, n3, n4} |-> <<>>]

(* Two roots that race for the node they both feed; one of them makes two   *)
(* expensive kernels ready at once, one of them by a control edge.          *)
Join ==
    [out |-> (n1 :> <<n3>>) @@ (n2 :> <<n3>>) @@ None,
     control |-> (n2 :> <<n4>>) @@ None,
     op |-> (n1 :> "sync") @@ (n2 :> "const") @@ (n3 :> "sync") @@ (n4 :> "sync"),
     expensive |-> {n3, n4}, deferring |-> {}]

(* n1 may fail while n2, or the kernel of n3 that both feed, waits.        *)
Wait ==
    [out |-> (n1 :> <<n3>>) @@ (n2 :> <<n3>>) @@ (n3 :> <<>>),
     control |-> (n1 :> <<>>) @@ (n2 :> <<>>) @@ (n3 :> <<>>),
     op |-> (n1 :> "sync") @@ (n2 :> "async") @@ (n3 :> "async"),
     expensive |-> {n3}, deferring |-> {n1}]

Empty == [out |-> <<>>, control |-> <<>>, op |-> <<>>, expensive |-> {}, deferring |-> {}]

MCNodes == {n1, n2, n3, n4}
MCGraphs == {Wait, Join, Empty}

(* sync_on_finish is not looked at unless the device allows it.            *)
MCAllArgs == {x \in Arguments :
    /\ x.sync_on_finish => x.allows_sync_on_completion
    /\ ~x.cancellation_manager => ~x.allows_sync_on_completion}
=============================================================================
