----------------------------- MODULE MCScenario ------------------------------
EXTENDS Scenario

\* Channels of three nodes with a link across, two of them that share two nodes, and
\* a triangle with a doubled side; with equal metrics and with a slow first channel, whose
\* metric is 3 in 16 bits.
HandMade ==
  LET chs == {<<<<1, 2, 3>>, <<3, 4>>, <<1, 4>>>>, <<<<1, 2, 3>>, <<2, 3, 4>>>>,
              <<<<1, 2>>, <<2, 1>>, <<2, 3>>, <<1, 3>>>>}
      FacesOn(c) == UNION {{<<i, j>> : j \in DOMAIN c[i]} : i \in DOMAIN c}
  IN  {[channels |-> c, metric |-> [f \in FacesOn(c) |-> IF f[1] = 1 THEN slow ELSE 1]] :
         c \in chs, slow \in {1, 65539}}

\* A triangle with two of its sides doubled, and two links in a row.
Triangles == {<<<<1, 2, 3>>, <<2, 1>>, <<2, 3>>>>, <<<<1, 2>>, <<2, 3>>>>}

\* The backbone is faster than the reference, the links to gateways are slower.
Rates == [b2b |-> {20}, b2g |-> {4}, g2c |-> {10}]
Resources == {NA, [mem |-> 1, cpu |-> 2]}

Map == {{1, 2}, {2, 3}, {3, 4}, {2, 4}, {4, 5}, {1, 5}, {3, 5}}
=============================================================================
