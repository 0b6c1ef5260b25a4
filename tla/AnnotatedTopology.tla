-------------------------- MODULE AnnotatedTopology --------------------------
(***************************************************************************)
(* AnnotatedTopologyReader, the base of the topology readers, and          *)
(* RocketfuelWeightsReader, which is read twice: the second file adds an   *)
(* attribute to the links of the first, found by their position.           *)
(***************************************************************************)
EXTENDS Integers, Sequences, FiniteSets, FiniteSetsExt, SequencesExt

CONSTANTS
  Routers,      \* names in the files, numbered in the order of their addresses
  FileRouters,  \* those of the annotated and the weights files
  OspfMetrics,  \* metrics in the files
  Comments,     \* comments of routers in the files: NA, or a node's resources
  MaxLines      \* bound on the lines of a file

ASSUME RoutersAssumption ==
  Routers \subseteq Nat /\ IsFiniteSet(Routers) /\ FileRouters \subseteq Routers

ASSUME OspfAssumption == OspfMetrics \subseteq Nat

VARIABLES
  reader,          \* the class of the reader
  phase,           \* what its Read is at
  m_nodes,         \* NodeContainer
  node_comment,    \* the resources of the nodes that have some
  m_linksList,     \* links; for is the pair whose latency a link was given
  processedLinks,  \* pairs <<from, to>> of the current file
  linkIterator,    \* index into m_linksList of RocketfuelWeightsReader::Read
  lines            \* lines read of the current file

readerVars == <<reader, phase, m_nodes, node_comment, m_linksList, processedLinks, linkIterator, lines>>

NA == [mem |-> 0, cpu |-> 0]   \* no resources

ReaderInit ==
  /\ phase = IF reader = "annotated" THEN "routers" ELSE "read"
  /\ m_nodes = {} /\ node_comment = <<>>
  /\ m_linksList = <<>> /\ processedLinks = {} /\ linkIterator = 1 /\ lines = 0

\* CreateNode; a node whose comment is not NA gets a ComputationModel.
CreateNode(name, comment) ==
  /\ m_nodes' = m_nodes \cup {name}
  /\ node_comment' = IF comment = NA THEN node_comment ELSE node_comment @@ name :> comment

\* AnnotatedTopologyReader::Read, a line of the section of routers; bound: in the
\* order of their addresses.
ReadRouter(name, comment) ==
  /\ phase = "routers" /\ name = Min(FileRouters \ m_nodes)
  /\ CreateNode(name, comment)
  /\ UNCHANGED <<reader, phase, m_linksList, processedLinks, linkIterator, lines>>

\* The line that starts the section of links.
LinkSection ==
  /\ phase = "routers" /\ m_nodes = FileRouters
  /\ phase' = "read"
  /\ UNCHANGED <<reader, m_nodes, node_comment, m_linksList, processedLinks, linkIterator, lines>>

Link(from, to, ospf) == [from |-> from, to |-> to, ospf |-> ospf, for |-> {}]

AddLink(link) == m_linksList' = Append(m_linksList, link)

\* A line is skipped if the link was given in the other direction; the same line
\* again makes a second link.
Duplicated(processed, from, to) == <<to, from>> \in processed

NextLine(from, to) ==
  /\ phase = "read" /\ lines < MaxLines
  /\ from # to
  /\ lines' = lines + (IF Duplicated(processedLinks, from, to) THEN 0 ELSE 1)
  /\ processedLinks' = processedLinks \cup (IF Duplicated(processedLinks, from, to) THEN {} ELSE {<<from, to>>})

\* AnnotatedTopologyReader::Read, the section of links.
ReadAnnotated(from, to, ospf) ==
  /\ reader = "annotated"
  /\ NextLine(from, to)
  /\ IF Duplicated(processedLinks, from, to) THEN UNCHANGED m_linksList ELSE AddLink(Link(from, to, ospf))
  /\ UNCHANGED <<reader, phase, m_nodes, node_comment, linkIterator>>

\* RocketfuelWeightsReader::Read of a file of weights, the first of the two.
ReadWeight(from, to, ospf) ==
  /\ reader = "weights"
  /\ NextLine(from, to)
  /\ IF Duplicated(processedLinks, from, to) THEN UNCHANGED <<m_nodes, m_linksList>>
     ELSE /\ AddLink(Link(from, to, ospf))
          /\ m_nodes' = m_nodes \cup {from, to}
  /\ UNCHANGED <<reader, phase, node_comment, linkIterator>>

OpenLatencies ==
  /\ reader = "weights" /\ phase = "read" /\ m_linksList # <<>>
  /\ phase' = "latencies"
  /\ processedLinks' = {} /\ lines' = 0 /\ linkIterator' = 1
  /\ UNCHANGED <<reader, m_nodes, node_comment, m_linksList>>

\* Slip: a duplicated line moves the iterator too.
AdvancedAlways(from, to) == linkIterator + 1

Advanced(from, to) == IF Duplicated(processedLinks, from, to) THEN linkIterator ELSE linkIterator + 1

\* A line of the second file.  The code does not compare the names with those of the
\* link it is at; the files are assumed to name the same links in the same order,
\* each in either direction, with duplicated lines anywhere.
InOrder(from, to) ==
  \/ Duplicated(processedLinks, from, to)
  \/ /\ lines < Len(m_linksList)
     /\ {from, to} = {m_linksList[lines + 1].from, m_linksList[lines + 1].to}
     /\ \/ <<from, to>> \notin processedLinks
        \/ <<from, to>> = <<m_linksList[lines + 1].from, m_linksList[lines + 1].to>>

\* RocketfuelWeightsReader::Read of a file of latencies: the repeated run.
ReadLatency(from, to) ==
  /\ phase = "latencies"
  /\ InOrder(from, to)
  /\ linkIterator' = Advanced(from, to)
  /\ IF Duplicated(processedLinks, from, to) THEN UNCHANGED <<m_linksList, processedLinks, lines>>
     ELSE /\ linkIterator <= Len(m_linksList)
          /\ m_linksList' = [m_linksList EXCEPT ![linkIterator].for = {from, to}]
          /\ processedLinks' = processedLinks \cup {<<from, to>>}
          /\ lines' = lines + 1
  /\ UNCHANGED <<reader, phase, m_nodes, node_comment>>

\* Commit, after both files: the links of the weights reader are not made by Read.
Committed == reader = "weights" /\ phase = "latencies" /\ lines = Len(m_linksList)

\* ApplySettings (called by Read, and by Commit of the weights reader): a point to
\* point channel per link, in their order.  What is left of Read was local to it.
ApplySettings ==
  /\ m_linksList # <<>>
  /\ \/ reader = "annotated" /\ phase = "read"
     \/ Committed
     \/ reader = "map" /\ phase = "links"
  /\ phase' = "done"
  /\ processedLinks' = {} /\ lines' = 0 /\ linkIterator' = 1
  /\ UNCHANGED <<reader, m_nodes, node_comment, m_linksList>>

ReaderStep ==
  \/ \E name \in FileRouters \ m_nodes, comment \in Comments : ReadRouter(name, comment)
  \/ LinkSection
  \/ \E from, to \in FileRouters, ospf \in OspfMetrics :
       ReadAnnotated(from, to, ospf) \/ ReadWeight(from, to, ospf)
  \/ OpenLatencies
  \/ \E from, to \in FileRouters : ReadLatency(from, to)
  \/ ApplySettings

-----------------------------------------------------------------------------
(* Saving a topology and reading it again. *)

\* Slip: the two ends of a link in the order of their names.
SortedLine(link) == IF link.from <= link.to THEN <<link.from, link.to, link.ospf>>
                    ELSE <<link.to, link.from, link.ospf>>

\* SaveTopology, the line of a link.
SavedLine(link) == <<link.from, link.to, link.ospf>>

\* SaveTopology: every router has the comment NA.
SaveTopology ==
  [routers |-> [n \in m_nodes |-> NA],
   links |-> [i \in DOMAIN m_linksList |-> SavedLine(m_linksList[i])]]

\* AnnotatedTopologyReader::Read of such lines by another reader.
ReadBack(file) ==
  LET Read[n \in 0 .. Len(file)] ==
        IF n = 0 THEN <<>>
        ELSE LET read == Read[n - 1]
             IN  IF Duplicated({<<read[i][1], read[i][2]>> : i \in DOMAIN read}, file[n][1], file[n][2])
                 THEN read ELSE Append(read, file[n])
  IN  Read[Len(file)]

-----------------------------------------------------------------------------
(* Properties. *)

\* The repeated run gives every link the attribute of the line with its own nodes.
LatencyOfOwnLink ==
  \A i \in DOMAIN m_linksList :
    m_linksList[i].for \in {{}, {m_linksList[i].from, m_linksList[i].to}}

\* A topology that is saved and read again is the same: no link is taken for a
\* duplicate of another, every node is in one of the classes that are written and, from
\* the map reader, with its resources.  (Its base class loses them.)
SavedAsRead(file) ==
  phase = "done" =>
    /\ DOMAIN file.routers = m_nodes
    /\ reader = "map" => file.routers = node_comment
    /\ ReadBack(file.links) = [i \in DOMAIN m_linksList |->
                                 <<m_linksList[i].from, m_linksList[i].to, m_linksList[i].ospf>>]
=============================================================================
