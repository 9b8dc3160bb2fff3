----------------------------- MODULE MCProtect -----------------------------
EXTENDS Protect
Seg(k, dpl, p, conf) == [kind |-> k, dpl |-> dpl, p |-> p, conf |-> conf, to |-> 0, wc |-> 0]
\* 1, 2: kernel code and stack; 3, 4: user; 5: conforming; 6: call gate for
\* users; 7: absent data; 8, 9: tasks; 10: user stack of the second task;
\* 11: task gate
MCDesc == <<Seg("code", 0, TRUE, FALSE), Seg("data", 0, TRUE, FALSE), Seg("code", 3, TRUE, FALSE),
            Seg("data", 3, TRUE, FALSE), Seg("code", 0, TRUE, TRUE),
            [kind |-> "callgate", dpl |-> 3, p |-> TRUE, conf |-> FALSE, to |-> Sel(1, 0), wc |-> 1],
            Seg("data", 3, FALSE, FALSE), Seg("tss", 0, TRUE, FALSE), Seg("tss", 3, TRUE, FALSE),
            Seg("data", 3, TRUE, FALSE),
            [kind |-> "taskgate", dpl |-> 3, p |-> TRUE, conf |-> FALSE, to |-> Sel(9, 0), wc |-> 0]>>
Gate(gt, dpl, to) == [gt |-> gt, dpl |-> dpl, p |-> TRUE, to |-> to]
MCIdt == [v \in {"GP", "NP", "SS", "TS", "BP", "IRQ", "SOFT", "KERN"} |->
            CASE v = "SOFT" -> Gate("trap", 3, Sel(1, 0)) [] v = "KERN" -> Gate("int", 0, Sel(1, 0))
              [] v = "BP" -> Gate("int", 3, Sel(3, 3)) [] OTHER -> Gate("int", 0, Sel(1, 0))]
MCTssSp == [l \in 0..3 |-> [ss |-> Sel(2, 0), sp |-> 0]]
MCTask == [t \in {8, 9} |-> [ip |-> 2, fl |-> 1, sp |-> 0, cs |-> Sel(3, 3), ss |-> Sel(10, 3), ds |-> Sel(4, 3), back |-> 0]]
MCForge == {<<1, Sel(1, 0), 3, 0, Sel(2, 0)>>, <<1, Sel(3, 3), 3, 1, Sel(4, 3)>>,
            <<1, Sel(1, 3), 1, 1, Sel(4, 3)>>, <<1, 50, 7, 1, 51>>}
MCDataSels == {Sel(2, 0), Sel(7, 3)}
MCCallSels == {Sel(3, 3), Sel(6, 3), Sel(11, 3)}
MCJumpSels == {Sel(5, 3), Sel(9, 3)}
=============================================================================
