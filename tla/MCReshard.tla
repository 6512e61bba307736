------------------------------- MODULE MCReshard -------------------------------
EXTENDS Reshard
CONSTANTS m1, m2
MCName == [x \in Nodes |-> IF x = m1 THEN 1 ELSE 2]

\* m1 and m2 have these epochs at first.
Layout(e1, e2) ==
    [running |-> Nodes, faulty |-> {}, admin |-> {<<"restart", m1>>, <<"restart", m2>>},
     epochs |-> 3, master |-> [x \in Nodes |-> Null],
     epoch |-> [x \in Nodes |-> IF x = m1 THEN e1 ELSE e2],
     owner |-> [j \in Slots |-> IF j = 2 THEN m2 ELSE m1]]

MCLayouts == {Layout(1, 2), Layout(2, 1)}
MCCollision == {Layout(0, 0)}
=================================================================================
