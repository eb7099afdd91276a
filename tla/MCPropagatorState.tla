-------------------------- MODULE MCPropagatorState --------------------------
(* The graphs that TLC runs the PropagatorState with, and how often their     *)
(* nodes run for the predicates p (a conditional or outer loop) and q.       *)
EXTENDS PropagatorState, TLC

MCTrips == [{"p", "q"} -> 0 .. 2]

D(src, slot, dst) == [src |-> src, slot |-> slot, dst |-> dst]
C(src, dst) == [src |-> src, dst |-> dst]
Runs(R(_, _)) == [t \in MCTrips |-> R(t["p"], t["q"])]
Least(a, b) == IF a < b THEN a ELSE b

(* if p { while (q) { side(v, c); v, w = v + 1, w + 1 } } with two variables  *)
(* and a side effect that waits for the loop invariant c, two iterations at  *)
(* a time.                                                                   *)
Loop ==
    [kind |-> "v0" :> "op" @@ "c0" :> "op" @@ "if" :> "switch" @@ "inv" :> "constant_enter"
              @@ [n \in {"enterv", "enterw"} |-> "enter"] @@ [n \in {"mergev", "mergew"} |-> "merge"]
              @@ [n \in {"whilev", "whilew"} |-> "switch"] @@ "side" :> "op"
              @@ [n \in {"nextv", "nextw"} |-> "next_iteration"] @@ [n \in {"exitv", "exitw"} |-> "exit"]
              @@ "end" :> "merge" @@ "last" :> "trigger",
     frame |-> [n \in {"v0", "c0", "if", "enterv", "enterw", "inv", "end", "last"} |-> "root"]
               @@ [n \in {"mergev", "mergew", "whilev", "whilew", "side", "nextv", "nextw",
                          "exitv", "exitw"} |-> "loop"],
     data |-> {D("v0", 0, "if"), D("if", 1, "enterv"), D("if", 1, "enterw"), D("if", 0, "end"),
               D("c0", 0, "inv"), D("inv", 0, "side"), D("whilev", 1, "side"),
               D("enterv", 0, "mergev"), D("nextv", 0, "mergev"), D("mergev", 0, "whilev"),
               D("whilev", 1, "nextv"), D("whilev", 0, "exitv"), D("exitv", 0, "end"),
               D("enterw", 0, "mergew"), D("nextw", 0, "mergew"), D("mergew", 0, "whilew"),
               D("whilew", 1, "nextw"), D("whilew", 0, "exitw")},
     control |-> {C("exitw", "last"), C("end", "last")},
     into |-> [n \in {"enterv", "enterw", "inv"} |-> "loop"],
     parallel |-> [n \in {"loop"} |-> 2],
     pred |-> "if" :> "p" @@ "whilev" :> "q" @@ "whilew" :> "q",
     runs |-> [n \in {"v0", "c0", "if", "inv", "end", "last"} |-> Runs(LAMBDA p, q : 1)]
              @@ [n \in {"enterv", "enterw", "exitv", "exitw"} |-> Runs(LAMBDA p, q : Least(p, 1))]
              @@ [n \in {"mergev", "mergew", "whilev", "whilew"} |->
                    Runs(LAMBDA p, q : Least(p, 1) * (q + 1))]
              @@ [n \in {"side", "nextv", "nextw"} |-> Runs(LAMBDA p, q : Least(p, 1) * q)]]

(* while (p) { while (q) { step } ; side } one iteration of the outer loop at  *)
(* a time.                                                                   *)
Nested ==
    [kind |-> "v0" :> "op" @@ "enter" :> "enter" @@ "merge" :> "merge" @@ "while" :> "switch"
              @@ "enter2" :> "enter" @@ "merge2" :> "merge" @@ "while2" :> "switch"
              @@ "next2" :> "next_iteration" @@ "exit2" :> "exit" @@ "side" :> "op"
              @@ "next" :> "next_iteration" @@ "exit" :> "exit" @@ "end" :> "op",
     frame |-> [n \in {"v0", "enter", "end"} |-> "root"]
               @@ [n \in {"merge", "while", "enter2", "side", "next", "exit"} |-> "outer"]
               @@ [n \in {"merge2", "while2", "next2", "exit2"} |-> "inner"],
     data |-> {D("v0", 0, "enter"), D("enter", 0, "merge"), D("next", 0, "merge"),
               D("merge", 0, "while"), D("while", 1, "enter2"), D("while", 0, "exit"),
               D("enter2", 0, "merge2"), D("next2", 0, "merge2"), D("merge2", 0, "while2"),
               D("while2", 1, "next2"), D("while2", 0, "exit2"), D("exit2", 0, "next"),
               D("exit", 0, "end")},
     control |-> {C("while", "side")},
     into |-> "enter" :> "outer" @@ "enter2" :> "inner",
     parallel |-> "outer" :> 1 @@ "inner" :> 2,
     pred |-> "while" :> "p" @@ "while2" :> "q",
     runs |-> [n \in {"v0", "enter", "exit", "end"} |-> Runs(LAMBDA p, q : 1)]
              @@ [n \in {"merge", "while", "side"} |-> Runs(LAMBDA p, q : p + 1)]
              @@ [n \in {"enter2", "exit2", "next"} |-> Runs(LAMBDA p, q : p)]
              @@ [n \in {"merge2", "while2"} |-> Runs(LAMBDA p, q : p * (q + 1))]
              @@ [n \in {"next2"} |-> Runs(LAMBDA p, q : p * q)]]

MCGraphs == {Loop, Nested}
=============================================================================
