------------------------------- MODULE MCCluster -------------------------------
EXTENDS Cluster
CONSTANTS m1, m2, m3, a, b

MCName == [x \in Nodes |-> CASE x = m1 -> 1 [] x = a -> 2 [] x = b -> 3 [] x = m2 -> 4 [] OTHER -> 5]

Layout(running, slaves, owned, faulty, admin, epochs) ==
    [running |-> running, faulty |-> faulty, admin |-> admin, epochs |-> epochs,
     epoch |-> [x \in Nodes |-> 0],
     master |-> [x \in Nodes |-> IF x \in slaves THEN m1 ELSE Null],
     owner |-> [j \in Slots |-> IF j \in DOMAIN owned THEN owned[j] ELSE Null]]

\* Two slaves of one master, which may be restarted.
Contest == Layout({m1, a, b}, {a, b}, <<m1>>, {},
                  {<<"force", a>>, <<"force", b>>, <<"restart", m1>>}, 2)

\* A manual failover during which the other slave becomes one of its slaves.
Manual == Layout({m1, a, b}, {a, b}, <<m1>>, {},
                 {<<"failover", a>>, <<"force", b>>, <<"replicate", b>>}, 1)

\* A master that has crashed.
Failure == Layout({m2, m3, a}, {a}, <<m1, m2, m3>>, {m1}, {}, 1)

MCLayouts == {Contest, Manual, Failure}
MCManual == {Manual}
MCContest == {Contest}
MCFailure == {Failure}
=================================================================================
