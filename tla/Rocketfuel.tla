----------------------------- MODULE Rocketfuel ------------------------------
(***************************************************************************)
(* RocketfuelMapReader: reads the lines of a map, classes the routers as   *)
(* clients, gateways and backbone by their degrees, connects the backbone, *)
(* drops links between the wrong classes and keeps one component.          *)
(*                                                                         *)
(* Vertices are kept in sets ordered by address: here the order of their   *)
(* numbers.  Of what is drawn by chance for a link only the bandwidth is   *)
(* kept, as the OSPF metric that follows from it; the resources of a node  *)
(* are the classes whose parameters they were drawn from.                  *)
(***************************************************************************)
EXTENDS AnnotatedTopology

CONSTANTS
  MapLinks,        \* links a map may have: pairs of routers
  Bandwidths,      \* per class of link, the bandwidths that may be drawn
  ReferenceOspfRate,
  MaxClientDegree  \* bound on RocketfuelParams::clientNodeDegrees

ASSUME RatesAssumption ==
  ReferenceOspfRate \in Nat /\ \A c \in DOMAIN Bandwidths : Bandwidths[c] \subseteq Nat \ {0}

UNKNOWN == 0
CLIENT == 1
GATEWAY == 2
BACKBONE == 3

VARIABLES
  params,    \* [clientNodeDegrees, keepOneComponent, connectBackbones]
  uids,      \* routers whose line is still to come
  vertices,  \* m_graph
  edges,
  rank       \* vertex_rank

mapVars == <<params, uids, vertices, edges, rank>>

DefaultParams == [clientNodeDegrees |-> 1, keepOneComponent |-> TRUE, connectBackbones |-> TRUE]

MapInit ==
  /\ params = DefaultParams
  /\ uids = Routers
  /\ vertices = {} /\ edges = {}
  /\ rank = [u \in Routers |-> UNKNOWN]

Adjacent(v) == {u \in vertices : {u, v} \in edges}
Degree(v) == Cardinality(Adjacent(v))
EdgesIn(V) == {e \in edges : e \subseteq V}
Of(type) == {v \in vertices : rank[v] = type}

\* The nodes of V that v is connected with inside V.
Component(v, V) ==
  LET C[k \in 0 .. Cardinality(V)] ==
        IF k = 0 THEN {v}
        ELSE LET prev == C[k - 1] IN prev \cup {u \in V : \E w \in prev : {u, w} \in edges}
  IN  C[Cardinality(V)]

\* The elements of S as the containers iterate over them.
Listed(S, before) ==
  [i \in 1 .. Cardinality(S) |->
     CHOOSE x \in S : Cardinality({y \in S : <<y, x>> \in before}) = i - 1]

\* connected_components, in the order of their first vertices.
Components(V) ==
  LET parts == {Component(v, V) : v \in V}
  IN  Listed(parts, {x \in parts \X parts : Min(x[1]) < Min(x[2])})

\* GenerateFromMapsFile for the line of router u with its neighbours; a line with a
\* radius above 0 is ignored.
ReadMapLine(u, neighbours, radius) ==
  /\ reader = "map" /\ phase = "read"
  /\ u = Min(uids)
  /\ uids' = uids \ {u}
  /\ vertices' = vertices \cup IF radius > 0 THEN {} ELSE {u} \cup neighbours
  /\ edges' = edges \cup IF radius > 0 THEN {} ELSE {{u, v} : v \in neighbours}
  /\ UNCHANGED <<readerVars, params, rank>>

\* The first of the largest components.
Biggest ==
  LET parts == Components(vertices)
      size == Max({Cardinality(parts[i]) : i \in DOMAIN parts})
  IN  parts[Min({i \in DOMAIN parts : Cardinality(parts[i]) = size})]

KeepOnlyBiggestConnectedComponent ==
  IF params'.keepOneComponent /\ vertices # {} THEN vertices' = Biggest /\ edges' = EdgesIn(Biggest)
  ELSE UNCHANGED <<vertices, edges>>

\* The arguments of Read matter only once the file is read.
EndOfMap ==
  /\ reader = "map" /\ phase = "read" /\ uids = {}
  /\ params' \in [clientNodeDegrees : 1 .. MaxClientDegree,
                  keepOneComponent : BOOLEAN, connectBackbones : BOOLEAN]
  /\ KeepOnlyBiggestConnectedComponent
  /\ phase' = "rank"
  /\ UNCHANGED <<reader, m_nodes, node_comment, m_linksList, processedLinks, linkIterator, lines,
                 uids, rank>>

Ranks == [Routers -> UNKNOWN .. BACKBONE]

\* A call of assignGw: the ranks so far and the neighbours still to do.
GwCalls == [ranks : Ranks, us : SUBSET Routers, nodeType : {GATEWAY, BACKBONE}]
GwCall(r, us, nodeType) == [ranks |-> r, us |-> us, nodeType |-> nodeType]

\* assignGw over the neighbours us, which calls itself for those of small degree.
AssignGw(r, us, degree, nodeType) ==
  LET G[c \in GwCalls] ==
        IF c.us = {} THEN c.ranks
        ELSE LET u == Min(c.us)
                 ranked == [c.ranks EXCEPT ![u] = c.nodeType]
                 deeper == IF Degree(u) < degree THEN G[GwCall(ranked, Adjacent(u), BACKBONE)] ELSE ranked
             IN  G[GwCall(IF c.ranks[u] # UNKNOWN THEN c.ranks ELSE deeper, c.us \ {u}, c.nodeType)]
  IN  G[GwCall(r, us, nodeType)]

\* AssignClients over the vertices: a vertex of the degree becomes a client, whatever
\* it was.
AssignClients(r, clientDegree, gwDegree) ==
  LET A[vs \in SUBSET Routers] ==
        IF vs = {} THEN r
        ELSE LET v == Max(vs)
                 ranked == [A[vs \ {v}] EXCEPT ![v] = CLIENT]
             IN  IF Degree(v) # clientDegree THEN A[vs \ {v}]
                 ELSE AssignGw(ranked, Adjacent(v), gwDegree + 1, GATEWAY)
  IN  A[vertices]

RankVertices ==
  /\ phase = "rank"
  /\ LET R[d \in 0 .. params.clientNodeDegrees] ==
           IF d = 0 THEN rank ELSE AssignClients(R[d - 1], d, Min({d, 3}))
         ranked == R[params.clientNodeDegrees]
     IN  rank' = [v \in Routers |->
           IF v \in vertices /\ ranked[v] = UNKNOWN THEN BACKBONE ELSE ranked[v]]
  /\ phase' = "connect"
  /\ UNCHANGED <<reader, m_nodes, node_comment, m_linksList, processedLinks, linkIterator, lines,
                 params, uids, vertices, edges>>

\* Slip: the last component stays alone.
ExceptLast(parts) == Len(parts) - 1

LastConnected(parts) == Len(parts)

\* Sets of links, with a link between the components a and b in addition.
Joined(sets, a, b) == {js \cup {{v1, v2}} : js \in sets, v1 \in a, v2 \in b}

\* The possible sets of links that connect each component with the one before it.
Joins(parts) ==
  LET J[i \in 1 .. Len(parts)] ==
        IF i = 1 THEN {{}} ELSE Joined(J[i - 1], parts[i - 1], parts[i])
  IN  IF LastConnected(parts) < 1 THEN {{}} ELSE J[LastConnected(parts)]

ConnectBackboneRouters ==
  /\ phase = "connect"
  /\ IF params.connectBackbones
     THEN \E js \in Joins(Components(Of(BACKBONE))) : edges' = edges \cup js
     ELSE UNCHANGED edges
  /\ phase' = "remove"
  /\ UNCHANGED <<reader, m_nodes, node_comment, m_linksList, processedLinks, linkIterator, lines,
                 params, uids, vertices, rank>>

\* Clients have links to gateways only.
RightLink(u, v) ==
  CLIENT \in {rank[u], rank[v]} => {rank[u], rank[v]} = {CLIENT, GATEWAY}

RemoveWrongLinks ==
  /\ phase = "remove"
  /\ edges' = {e \in edges : \A u, v \in e : u # v => RightLink(u, v)}
  /\ phase' = "keep"
  /\ UNCHANGED <<reader, m_nodes, node_comment, m_linksList, processedLinks, linkIterator, lines,
                 params, uids, vertices, rank>>

KeepAgain ==
  /\ phase = "keep"
  /\ UNCHANGED params
  /\ KeepOnlyBiggestConnectedComponent
  /\ phase' = "create"
  /\ UNCHANGED <<reader, m_nodes, node_comment, m_linksList, processedLinks, linkIterator, lines,
                 uids, rank>>

Before(e, d) == Min(e) < Min(d) \/ (Min(e) = Min(d) /\ Max(e) < Max(d))

\* CreateResourcesJSON, CreateMem and CreateCPU: gateways have the memory parameters of
\* their own class and the CPU parameters of the clients.
CreateResourcesJSON(type) == [mem |-> type, cpu |-> IF type = GATEWAY THEN CLIENT ELSE type]

\* CreateNode for the vertices, each into the container of its class.
CreateNodes ==
  /\ phase = "create"
  /\ m_nodes' = vertices
  /\ node_comment' = [v \in vertices |-> CreateResourcesJSON(rank[v])]
  /\ phase' = "nodes"
  /\ UNCHANGED <<reader, m_linksList, processedLinks, linkIterator, lines, mapVars>>

\* The parameters of a link: gateways are linked with each other as with the backbone.
LinkClass(e) ==
  LET types == {rank[v] : v \in e}
  IN  IF types = {BACKBONE} THEN "b2b" ELSE IF CLIENT \in types THEN "g2c" ELSE "b2g"

\* CreateLink: the metric.
Ospf(bandwidth) == Max({1, ReferenceOspfRate \div bandwidth})

\* CreateLink for the edges.
CreateLinks ==
  /\ phase = "nodes"
  /\ \E drawn \in [edges -> UNION {Bandwidths[c] : c \in DOMAIN Bandwidths}] :
       /\ \A e \in edges : drawn[e] \in Bandwidths[LinkClass(e)]
       /\ LET list == Listed(edges, {x \in edges \X edges : Before(x[1], x[2])})
          IN  m_linksList' = [i \in DOMAIN list |->
                                Link(Min(list[i]), Max(list[i]), Ospf(drawn[list[i]]))]
  /\ phase' = "links"
  /\ UNCHANGED <<reader, m_nodes, node_comment, processedLinks, linkIterator, lines, mapVars>>

MapStep ==
  \/ \E u \in uids, radius \in 0 .. 1 :
       \E neighbours \in SUBSET {v \in Routers : {u, v} \in MapLinks} :
         ReadMapLine(u, neighbours, radius)
  \/ EndOfMap \/ RankVertices \/ ConnectBackboneRouters \/ RemoveWrongLinks \/ KeepAgain
  \/ CreateNodes \/ CreateLinks

\* nodeWriter of the map reader's SaveTopology.
NodeWriter(V) == [n \in V |-> node_comment[n]]

\* The map reader's SaveTopology writes the routers of each class.
MapSaveTopology ==
  [SaveTopology EXCEPT !.routers = NodeWriter(Of(BACKBONE) \cup Of(GATEWAY) \cup Of(CLIENT))]

-----------------------------------------------------------------------------
(* Properties. *)

Connected(V) == \A v \in V : Component(v, V) = V

\* "We want backbone to be a fully connected component": no traffic between backbone
\* routers has to pass a gateway, also after links and components were removed.
BackboneConnected ==
  phase \in {"links", "done"} /\ reader = "map" /\ params.connectBackbones => Connected(Of(BACKBONE))

\* Both SaveTopology write what Read makes the same topology of.
RoundTrip == SavedAsRead(IF reader = "map" THEN MapSaveTopology ELSE SaveTopology)
=============================================================================
