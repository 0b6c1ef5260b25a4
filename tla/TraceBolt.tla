----------------------------- MODULE TraceBolt -----------------------------
(***************************************************************************)
(* One TraceBolt: it answers /Trace Interests with what lies upstream.  A  *)
(* request in mode S is expressed once, a request in mode M once per next  *)
(* hop the FIB has for the traced name, all under the nonce of the request *)
(* and each with a random Key-TID of its own (here: the hop it is for).    *)
(* The replies of a multipath trace are to be collected in m_reply and     *)
(* sent as one Data.                                                       *)
(*                                                                         *)
(* External: the network that answers, refuses or drops what the bolt      *)
(* expresses, and the FIB manager that query asks, whose answer is a later *)
(* event.                                                                  *)
(***************************************************************************)
EXTENDS TracePath, FiniteSets, Functions, FiniteSetsExt

CONSTANTS
  Nonces,       \* nonces of the requests
  Faces,        \* faces of the forwarder
  NameLen,      \* components of the traced name
  MaxArrivals   \* bound: Interests the bolt receives

ASSUME TraceBoltAssumption ==
  /\ IsFiniteSet(Faces) /\ NameLen \in Nat \ {0} /\ MaxArrivals \in Nat

Single == "single"              \* the one Interest of a request in mode S
Hops == Faces \cup {Single}
Reasons == {"ProducerLocal", "CacheLocal", "Other"}

\* struct Quest: p1, mhops and the keys of m_reply.
Quest == [p1 : {"M", "S", ""}, mhops : SUBSET Faces, reply : SUBSET Hops]
Empty == [p1 |-> "", mhops |-> {}, reply |-> {}]  \* what operator[] makes
Absent == [p1 |-> "absent"]

VARIABLES
  mode,      \* what the name of a request says after /Trace
  fib,       \* next hops per length of the prefixes of the traced name
  loop, reqs,
  fetching,  \* requests whose FIB query is under way
  pending,   \* Interests expressed and not answered
  accepted,  \* Interests accepted per request
  answered,  \* Data sent under the name of the request
  lost,      \* requests with an Interest or a query that failed
  crashed    \* clean erased end()

vars == <<mode, fib, loop, reqs, fetching, pending, accepted, answered, lost, crashed>>

Init ==
  /\ mode \in [Nonces -> {"M", "S"}] /\ fib \in [1 .. NameLen -> SUBSET Faces]
  /\ loop = {} /\ reqs = [n \in Nonces |-> Absent]
  /\ fetching = {} /\ pending = [n \in Nonces |-> [h \in Hops |-> 0]]
  /\ accepted = [n \in Nonces |-> 0] /\ answered = [n \in Nonces |-> 0]
  /\ lost = {} /\ crashed = FALSE

\* Reqs[n], which makes an entry when there is none.
QuestOf(n) == IF reqs[n] = Absent THEN Empty ELSE reqs[n]

-----------------------------------------------------------------------------
\* Slip: the loop check is skipped.
NeverLooped(n) == FALSE

Islooped(n) == n \in loop

\* onInterest: a new Quest; mode M starts the FIB query, mode S expresses.
OnInterest(n) ==
  /\ FoldFunction(+, 0, accepted) < MaxArrivals
  /\ ~Islooped(n)
  /\ loop' = loop \cup {n}
  /\ reqs' = [reqs EXCEPT ![n] = [Empty EXCEPT !.p1 = mode[n]]]
  /\ accepted' = [accepted EXCEPT ![n] = @ + 1]
  /\ IF mode[n] = "M"
       THEN fetching' = fetching \cup {n} /\ UNCHANGED pending
       ELSE pending' = [pending EXCEPT ![n][Single] = @ + 1] /\ UNCHANGED fetching
  /\ UNCHANGED <<mode, fib, answered, lost, crashed>>

\* The loop of query goes on to shorter prefixes and starts mhops anew at each
\* match: what remains is the entry of the shortest one.
Matching == {l \in 1 .. NameLen : fib[l] # {}}
NextHops == IF Matching = {} THEN {} ELSE fib[Min(Matching)]

\* The answer of the FIB manager: one Interest per next hop.
OnFib(n) ==
  /\ n \in fetching
  /\ fetching' = fetching \ {n}
  /\ reqs' = [reqs EXCEPT ![n] = [QuestOf(n) EXCEPT !.mhops = NextHops]]
  /\ pending' = [pending EXCEPT ![n] =
                   [h \in Hops |-> IF h \in NextHops THEN @[h] + 1 ELSE @[h]]]
  /\ UNCHANGED <<mode, fib, loop, accepted, answered, lost, crashed>>

\* The FIB query fails: only a message is printed.
FibFailed(n) ==
  /\ n \in fetching
  /\ fetching' = fetching \ {n}
  /\ lost' = lost \cup {n}
  /\ UNCHANGED <<mode, fib, loop, reqs, pending, accepted, answered, crashed>>

\* Slip: the nonce stays in loop.
CleanReqsOnly(n) ==
  /\ reqs' = [reqs EXCEPT ![n] = Absent]
  /\ crashed' = (n \notin loop)
  /\ UNCHANGED loop

\* clean erases by iterator, without asking whether there is one.
Clean(n) ==
  /\ reqs' = [reqs EXCEPT ![n] = Absent]
  /\ loop' = loop \ {n}
  /\ crashed' = (n \notin loop)

\* createmulti, called when every next hop has its reply.
Complete(q) == Cardinality(q.mhops) = Cardinality(q.reply)

\* onData and the local Nacks of onNack: a multipath reply is put in m_reply and
\* the whole sent when complete, a single one sent at once under the Quest's
\* Oname (that of no request if the Quest is a new one).  clean in any case.
Answer(n, h) ==
  /\ LET q == QuestOf(n)
         sends == IF q.p1 = "M" THEN Complete([q EXCEPT !.reply = @ \cup {h}])
                                ELSE q.p1 = "S"
     IN  answered' = [answered EXCEPT ![n] = IF sends THEN @ + 1 ELSE @]
  /\ Clean(n)

OnData(n, h) ==
  /\ pending[n][h] > 0
  /\ pending' = [pending EXCEPT ![n][h] = @ - 1]
  /\ Answer(n, h)
  /\ UNCHANGED <<mode, fib, fetching, accepted, lost>>

\* Slip: the Nack of a cache is not supported.
OnlyProducerLocal(reason) == reason = "ProducerLocal"

\* The Nacks that say the trace ends here.
IsLocal(reason) == reason \in {"ProducerLocal", "CacheLocal"}

\* onNack: other reasons change nothing, except that Reqs[n] makes a Quest if
\* there is none.
OnNack(n, h, reason) ==
  /\ pending[n][h] > 0
  /\ pending' = [pending EXCEPT ![n][h] = @ - 1]
  /\ IF IsLocal(reason)
       THEN Answer(n, h)
       ELSE /\ reqs' = [reqs EXCEPT ![n] = QuestOf(n)]
            /\ UNCHANGED <<loop, answered, crashed>>
  /\ lost' = IF reason = "Other" THEN lost \cup {n} ELSE lost
  /\ UNCHANGED <<mode, fib, fetching, accepted>>

\* onTimeout: only a message is printed.
OnTimeout(n, h) ==
  /\ pending[n][h] > 0
  /\ pending' = [pending EXCEPT ![n][h] = @ - 1]
  /\ lost' = lost \cup {n}
  /\ UNCHANGED <<mode, fib, loop, reqs, fetching, accepted, answered, crashed>>

Fib(n) == OnFib(n) \/ FibFailed(n)
Network(n, h) ==
  OnData(n, h) \/ OnTimeout(n, h) \/ \E r \in Reasons : OnNack(n, h, r)

Next ==
  /\ ~crashed
  /\ \E n \in Nonces : OnInterest(n) \/ Fib(n) \/ \E h \in Hops : Network(n, h)

Spec == Init /\ [][Next]_vars

\* The simulator runs every scheduled event: a query returns, and an Interest is
\* answered or times out.
FairSpec ==
  Spec /\ \A n \in Nonces : WF_vars(Fib(n)) /\ \A h \in Hops : WF_vars(Network(n, h))

-----------------------------------------------------------------------------
\* While an answer can come, the Quest it belongs to and the nonce are there:
\* the "multi path replies" of m_reply are added to the request's own Quest, and
\* clean has something to erase.
QuestKept ==
  \A n \in Nonces, h \in Hops :
    pending[n][h] > 0 => n \in loop /\ reqs[n] # Absent /\ reqs[n].p1 = mode[n]

\* Every Interest the bolt accepted is either answered, once, or the nonce is
\* still blocked by it.
Accounted ==
  \A n \in Nonces : accepted[n] = answered[n] + (IF n \in loop THEN 1 ELSE 0)

\* When a single path request is answered, the consumer prints the times of the links
\* alone, however long the bolts between take: what each bolt adds to its delay is
\* what the ones before it take off, also where the path ends at an application.
PathTraced ==
  \A n \in Nonces : mode[n] = "S" /\ answered[n] > 0 => LinksPrinted

\* A request for which the FIB has a route is served, or something was lost.
Served ==
  \A n \in Nonces :
    (n \in loop /\ Matching # {}) ~> (n \notin loop \/ n \in lost)
=============================================================================
