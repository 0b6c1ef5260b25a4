------------------------------ MODULE TracePath ------------------------------
(***************************************************************************)
(* What a trace reports: the JSON that TraceBolts put around each other's  *)
(* replies, and what TraceConsumer prints of it.  An object is the         *)
(* sequence of its own members and those of the objects nested in "next".  *)
(* Times are exact: the rounding of float and double is left out.          *)
(***************************************************************************)
EXTENDS Integers, Sequences

CONSTANTS
  MaxHops,  \* bolts on a path
  Times     \* durations: of a link and of a bolt's work before and after

ASSUME TracePathAssumption == MaxHops \in Nat /\ Times \subseteq Nat

Mean == 0   \* TraceBolt::mean, the time to sign, which nothing ever measures

Member(id, delay, overhead) == [Id |-> id, delay |-> delay, overhead |-> overhead]
Text == [kind |-> "text", nodes |-> <<>>]          \* not JSON
Object(nodes) == [kind |-> "object", nodes |-> nodes]

\* createNack: the last bolt.
CreateNack(id, delay, over, extra) == Object(<<Member(id, delay, over + extra)>>)

\* createData: around the reply, if that is JSON.
CreateData(id, delay, over, extra, reply) ==
  Object(<<Member(id, delay, over + extra)>>
           \o (IF reply.kind = "text" THEN <<>> ELSE reply.nodes))

\* format: the first three members of each reply in an array, what is nested is lost.
Format(replies) == [kind |-> "array", nodes |-> {Head(r.nodes) : r \in replies}]

\* How long bolt i of the path p waits for the reply of the rest of the path.
Delay(p) ==
  LET D[k \in 0 .. p.hops - 1] ==      \* from the last bolt backwards
        LET i == p.hops - k
        IN  p.link[i] + IF k = 0 THEN 0 ELSE p.before[i + 1] + D[k - 1] + p.after[i + 1]
  IN  [i \in 1 .. p.hops |-> D[p.hops - i]]

\* The reply of bolt i.  Express_time comes before, E after by the bolt's own work;
\* the last one gets a local Nack, or Data of an application.
ReplyOf(p) ==
  LET delay == Delay(p)
      R[k \in 0 .. p.hops - 1] ==
        LET i == p.hops - k
        IN  IF k = 0 /\ p.nacked THEN CreateNack(i, delay[i], Mean + p.before[i], p.after[i])
            ELSE CreateData(i, delay[i], Mean + p.before[i], p.after[i], IF k = 0 THEN Text ELSE R[k - 1])
  IN  R[p.hops - 1]

\* Slip: the overhead of the last bolt is not taken off.
SumBefore(x, vect) ==
  LET S[i \in 0 .. x] == IF i <= 1 THEN 0 ELSE S[i - 1] + vect[i].overhead
  IN  S[x]

\* sum: the overhead of the bolts behind the first one.
SumOf(x, vect) ==
  LET S[i \in 0 .. x] == IF i = 0 THEN 0 ELSE S[i - 1] + vect[i + 1].overhead
  IN  S[x]

\* pars and getPathDetails: from the first bolt to each of the others.  An array fails
\* an assertion of pars; without an object the first element of an empty vector is read.
GetPathDetails(reply) ==
  LET collected == reply.nodes
  IN  IF reply.kind = "array" THEN "asserted"
      ELSE IF reply.kind = "text" THEN "undefined"
      ELSE [k \in 1 .. Len(collected) - 1 |->
              collected[1].delay - collected[k + 1].delay - SumOf(k, collected)]

Paths(n) ==
  [hops : {n}, link : [1 .. n -> Times], before : [1 .. n -> Times], after : [1 .. n -> Times],
   nacked : BOOLEAN]

-----------------------------------------------------------------------------
\* What is printed for the k-th bolt behind the first is the time on the links to it
\* and back: that of the first link, and for each bolt that of one link more.
LinksPrinted ==
  \A n \in 1 .. MaxHops : \A p \in Paths(n) :
    LET printed == GetPathDetails(ReplyOf(p))
    IN  /\ DOMAIN printed = 1 .. n - 1
        /\ \A k \in 1 .. n - 1 :
             printed[k] = p.link[k] + IF k = 1 THEN 0 ELSE printed[k - 1]
=============================================================================
