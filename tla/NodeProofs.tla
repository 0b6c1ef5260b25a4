------------------------------ MODULE NodeProofs -------------------------------
(***************************************************************************)
(* Proofs about Node, for any applications, devices, names and tracers:    *)
(* what the tables and the tracer know of faces stays consistent while     *)
(* applications and their faces come and go, each device has one face,     *)
(* each application that runs has its route and answers, and what a tracer *)
(* tells of is what happened.                                              *)
(***************************************************************************)
EXTENDS Node, FiniteSetTheorems, SequenceTheorems, TLAPS

\* Numbers of faces are given once.
Numbers ==
  /\ devices \in Nat /\ lastFaceId \in Nat
  /\ DOMAIN faceTable \subseteq 1 .. lastFaceId
  /\ active \in [Apps -> BOOLEAN] /\ m_face \in [Apps -> Nat]

\* The face of an application that runs is its own.
AppFaces ==
  \A a \in Apps : active[a] => /\ m_face[a] \in DOMAIN faceTable
                               /\ faceTable[m_face[a]] = <<"app", a>>

\* The FIB and the PIT name faces that are in the table.
TableFaces ==
  /\ \A h \in fib : h.face \in DOMAIN faceTable
  /\ \A n \in DOMAIN pit : pit[n].in \cup pit[n].out \subseteq DOMAIN faceTable

FaceInv == Numbers /\ AppFaces /\ TableFaces /\ RowsOfKnownFaces

faceVars == <<devices, lastFaceId, faceTable, fib, pit, active, m_face>>
rowOfVars == <<m_stats, m_faceInfos>>

LEMMA NoDomain == DOMAIN <<>> = {}
  OBVIOUS

LEMMA FaceInit == Init => FaceInv
<1> SUFFICES ASSUME Init
             PROVE  FaceInv
  OBVIOUS
<1>1. Numbers
  BY NoDomain DEF Init, AppInit, Numbers, INVALID_FACEID
<1>2. AppFaces
  BY DEF Init, AppInit, AppFaces
<1>3. TableFaces
  BY NoDomain DEF Init, TableFaces
<1>4. RowsOfKnownFaces
  BY NoDomain DEF Init, TracerInit, RowsOfKnownFaces
<1> QED
  BY <1>1, <1>2, <1>3, <1>4 DEF FaceInv

LEMMA FacesUndisturbed ==
  ASSUME FaceInv, UNCHANGED faceVars, RowsOfKnownFaces'
  PROVE  FaceInv'
<1>1. /\ devices' = devices /\ lastFaceId' = lastFaceId /\ faceTable' = faceTable
      /\ fib' = fib /\ pit' = pit /\ active' = active /\ m_face' = m_face
  BY DEF faceVars
<1> QED
  BY <1>1 DEF FaceInv, Numbers, AppFaces, TableFaces

LEMMA RowsUndisturbed ==
  ASSUME RowsOfKnownFaces, UNCHANGED rowOfVars
  PROVE  RowsOfKnownFaces'
  BY DEF RowsOfKnownFaces, rowOfVars

-----------------------------------------------------------------------------
(* The tracer. *)

\* Keys the trace sources of L3Protocol fire for: rows of all faces, or of one.
GoodKeys(keys) ==
  \A k \in keys : IF k[1] = INVALID_FACEID THEN k[2] \in AllRows ELSE k[2] \notin AllRows

LEMMA CountedRows ==
  ASSUME RowsOfKnownFaces, NEW keys, GoodKeys(keys), AddInfo(keys),
         DOMAIN m_stats' = DOMAIN m_stats \cup keys
  PROVE  RowsOfKnownFaces'
<1> SUFFICES ASSUME NEW k \in DOMAIN m_stats'
             PROVE  IF k[1] = INVALID_FACEID THEN k[2] \in AllRows ELSE k[1] \in m_faceInfos'
  BY DEF RowsOfKnownFaces
<1>1. CASE k \in keys
  BY <1>1 DEF GoodKeys, AddInfo
<1>2. CASE k \in DOMAIN m_stats
  BY <1>2 DEF RowsOfKnownFaces, AddInfo
<1> QED
  BY <1>1, <1>2

LEMMA TracedRows ==
  ASSUME RowsOfKnownFaces, NEW keys, GoodKeys(keys), Trace(keys)
  PROVE  RowsOfKnownFaces'
<1>1. CASE CountPackets(keys)
  BY <1>1, CountedRows DEF CountPackets, Plus
<1>2. CASE PrintHops({k \in keys : k[2] \in PacketRows})
  <2> DEFINE ks == {k \in keys : k[2] \in PacketRows}
  <2>1. GoodKeys(ks)
    BY DEF GoodKeys
  <2>2. DOMAIN m_stats' = DOMAIN m_stats \cup ks /\ AddInfo(ks)
    BY <1>2 DEF PrintHops, PrintAndReset
  <2> HIDE DEF ks
  <2> QED
    BY <2>1, <2>2, CountedRows
<1>3. CASE UNCHANGED rowVars
  BY <1>3, RowsUndisturbed DEF rowVars, rowOfVars
<1> QED
  BY <1>1, <1>2, <1>3 DEF Trace

LEMMA DroppedRows ==
  ASSUME RowsOfKnownFaces, NEW d, TraceDrop(d)
  PROVE  RowsOfKnownFaces'
<1>1. CASE UNCHANGED rowVars
  BY <1>1, RowsUndisturbed DEF rowVars, rowOfVars
<1>2. CASE m_stats' = Plus(m_stats, {<<INVALID_FACEID, "Drop">>}) /\ m_faceInfos' = m_faceInfos
  BY <1>2 DEF Plus, RowsOfKnownFaces, AllRows
<1> QED
  BY <1>1, <1>2 DEF TraceDrop

LEMMA DelayRows ==
  ASSUME RowsOfKnownFaces, NEW a, TraceDelays(a)
  PROVE  RowsOfKnownFaces'
  BY RowsUndisturbed DEF TraceDelays, rowVars, rowOfVars

LEMMA PrintedRows ==
  ASSUME RowsOfKnownFaces, PeriodicPrinter(now)
  PROVE  RowsOfKnownFaces'
  BY DEF RowsOfKnownFaces, PeriodicPrinter, ResetRows

LEMMA InstalledRows ==
  ASSUME RowsOfKnownFaces, NEW class, NEW period, InstallTracer(class, period)
  PROVE  RowsOfKnownFaces'
<1>1. CASE UNCHANGED rowVars
  BY <1>1, RowsUndisturbed DEF rowVars, rowOfVars
<1>2. CASE InstallCsTracer(now, period)
  BY <1>2 DEF InstallCsTracer, RowsOfKnownFaces, AllRows
<1> QED
  BY <1>1, <1>2 DEF InstallTracer, InstallL3RateTracer, InstallL3HopDelayTracer,
                    InstallAppDelayTracer, InstallL2RateTracer

-----------------------------------------------------------------------------
(* The forwarder. *)

LEMMA FaceNumber ==
  ASSUME FaceInv, NEW f \in DOMAIN faceTable
  PROVE  GetId(f) = f /\ f \in Nat /\ f # INVALID_FACEID
  BY DEF FaceInv, Numbers, GetId, INVALID_FACEID

LEMMA ForwardedFaces ==
  ASSUME FaceInv, NEW f, NEW n, NEW to \in Forwarded(f, n)
  PROVE  to \subseteq DOMAIN faceTable
<1> DEFINE hops == NextHops(f, n)
<1>1. \A h \in hops : h.face \in DOMAIN faceTable
  BY DEF NextHops, FaceInv, TableFaces
<1> HIDE DEF hops
<1>2. \/ to = {h.face : h \in hops}
      \/ \E h \in hops : to = {h.face}
  BY DEF Forwarded, hops
<1> QED
  BY <1>1, <1>2

\* Rows of faces in the table are rows of faces.
LEMMA FaceKeys ==
  ASSUME FaceInv, NEW fs \in SUBSET DOMAIN faceTable, NEW row, row \notin AllRows
  PROVE  GoodKeys(fs \X {row})
  BY FaceNumber DEF GoodKeys

LEMMA EntryFaces ==
  ASSUME FaceInv, NEW n
  PROVE  Entry(n).in \cup Entry(n).out \subseteq DOMAIN faceTable
  BY DEF Entry, Known, FaceInv, TableFaces

\* A step that changes entries of the PIT only, to faces in the table.
LEMMA PitStep ==
  ASSUME FaceInv, UNCHANGED <<devices, lastFaceId, faceTable, fib, active, m_face>>,
         \A n \in DOMAIN pit' : pit'[n].in \cup pit'[n].out \subseteq DOMAIN faceTable,
         RowsOfKnownFaces'
  PROVE  FaceInv'
  BY DEF FaceInv, Numbers, AppFaces, TableFaces

LEMMA EntrySet ==
  ASSUME FaceInv, NEW n, NEW i \in SUBSET DOMAIN faceTable, NEW o \in SUBSET DOMAIN faceTable,
         SetEntry(n, [in |-> i, out |-> o])
  PROVE  \A x \in DOMAIN pit' : pit'[x].in \cup pit'[x].out \subseteq DOMAIN faceTable
  BY DEF SetEntry, FaceInv, TableFaces

LEMMA EntryForgotten ==
  ASSUME FaceInv, NEW n, pit' = [x \in DOMAIN pit \ {n} |-> pit[x]]
  PROVE  \A x \in DOMAIN pit' : pit'[x].in \cup pit'[x].out \subseteq DOMAIN faceTable
  BY DEF FaceInv, TableFaces

LEMMA InterestKeepsFaces ==
  ASSUME FaceInv, NEW n, NEW f \in DOMAIN faceTable, ReceiveInterest(f, n),
         UNCHANGED <<devices, lastFaceId, faceTable, fib, active, m_face>>
  PROVE  FaceInv'
<1> DEFINE e == Entry(n)
<1>1. e.in \subseteq DOMAIN faceTable /\ e.out \subseteq DOMAIN faceTable
  BY EntryFaces
<1>2. f \in Nat /\ f # INVALID_FACEID /\ RowsOfKnownFaces
  BY FaceNumber DEF FaceInv
<1>3. GoodKeys({<<f, "InInterests">>}) /\ GoodKeys({<<f, "InInterests">>, <<f, "OutNacks">>})
  BY <1>2 DEF GoodKeys, AllRows
<1>4. CASE /\ Known(n)
           /\ SetEntry(n, [e EXCEPT !.in = @ \cup {f}])
           /\ Trace({<<f, "InInterests">>})
  <2>1. \A x \in DOMAIN pit' : pit'[x].in \cup pit'[x].out \subseteq DOMAIN faceTable
    BY <1>1, <1>4 DEF SetEntry, FaceInv, TableFaces, Entry
  <2> QED
    BY <1>2, <1>3, <1>4, <2>1, TracedRows, PitStep
<1>5. ASSUME NEW to \in Forwarded(f, n),
             SetEntry(n, [in |-> e.in \cup {f}, out |-> e.out \cup to]),
             Trace({<<f, "InInterests">>} \cup (to \X {"OutInterests"}))
      PROVE  FaceInv'
  <2>1. to \subseteq DOMAIN faceTable
    BY ForwardedFaces
  <2>2. GoodKeys(to \X {"OutInterests"})
    BY <2>1, FaceKeys DEF AllRows
  <2>3. GoodKeys({<<f, "InInterests">>} \cup (to \X {"OutInterests"}))
    BY <1>3, <2>2 DEF GoodKeys
  <2>4. \A x \in DOMAIN pit' : pit'[x].in \cup pit'[x].out \subseteq DOMAIN faceTable
    BY <1>1, <1>5, <2>1, EntrySet
  <2> QED
    BY <1>2, <1>5, <2>3, <2>4, TracedRows, PitStep
<1>6. CASE /\ SetEntry(n, [in |-> {}, out |-> {}])
           /\ Trace({<<f, "InInterests">>, <<f, "OutNacks">>})
  BY <1>2, <1>3, <1>6, EntrySet, TracedRows, PitStep
<1>7. CASE /\ SetEntry(n, [in |-> {f}, out |-> {}])
           /\ Trace({<<f, "InInterests">>})
  BY <1>2, <1>3, <1>7, EntrySet, TracedRows, PitStep
<1> QED
  BY <1>4, <1>5, <1>6, <1>7 DEF ReceiveInterest

LEMMA DataKeepsFaces ==
  ASSUME FaceInv, NEW n, NEW before, NEW f \in DOMAIN faceTable, ReceiveData(f, n, before),
         UNCHANGED <<devices, lastFaceId, faceTable, fib, active, m_face>>
  PROVE  FaceInv'
<1>1. f \in Nat /\ f # INVALID_FACEID /\ RowsOfKnownFaces
  BY FaceNumber DEF FaceInv
<1>2. GoodKeys({<<f, "InData">>})
  BY <1>1 DEF GoodKeys, AllRows
<1>3. CASE Known(n)
  <2> DEFINE to == pit[n].in \ {f}
  <2>1. Trace({<<f, "InData">>} \cup SatisfiedInterests(pit[n]) \cup (to \X {"OutData"}))
        /\ pit' = [x \in DOMAIN pit \ {n} |-> pit[x]]
    BY <1>3 DEF ReceiveData
  <2>2. pit[n].in \subseteq DOMAIN faceTable /\ pit[n].out \subseteq DOMAIN faceTable
    BY <1>3 DEF Known, FaceInv, TableFaces
  <2>3. /\ GoodKeys(pit[n].in \X {"InSatisfied"})
        /\ GoodKeys(pit[n].out \X {"OutSatisfied"})
        /\ GoodKeys(to \X {"OutData"})
    BY <2>2, FaceKeys DEF AllRows
  <2>4. GoodKeys({<<INVALID_FACEID, "SatisfiedInterests">>})
    BY DEF GoodKeys, AllRows
  <2>5. GoodKeys({<<f, "InData">>} \cup SatisfiedInterests(pit[n]) \cup (to \X {"OutData"}))
    <3> HIDE DEF to
    <3> QED
      BY <1>2, <2>3, <2>4 DEF GoodKeys, SatisfiedInterests
  <2> QED
    BY <1>1, <2>1, <2>5, EntryForgotten, TracedRows, PitStep
<1>4. CASE ~Known(n)
  <2>1. Trace({<<f, "InData">>}) /\ pit' = pit
    BY <1>4 DEF ReceiveData
  <2>2. RowsOfKnownFaces'
    BY <1>1, <1>2, <2>1, TracedRows
  <2> QED
    BY <2>1, <2>2, FacesUndisturbed DEF faceVars
<1> QED
  BY <1>3, <1>4

LEMMA TimeOutKeepsFaces ==
  ASSUME FaceInv, NEW n, TimeOut(n)
  PROVE  FaceInv'
<1>1. pit[n].in \subseteq DOMAIN faceTable /\ pit[n].out \subseteq DOMAIN faceTable
  BY DEF TimeOut, Known, FaceInv, TableFaces
<1>2. /\ GoodKeys(pit[n].in \X {"InTimedOut"})
      /\ GoodKeys(pit[n].out \X {"OutTimedOut"})
  BY <1>1, FaceKeys DEF AllRows
<1>3. GoodKeys({<<INVALID_FACEID, "TimedOutInterests">>})
  BY DEF GoodKeys, AllRows
<1>4. GoodKeys(TimedOutInterests(pit[n]))
  BY <1>2, <1>3 DEF GoodKeys, TimedOutInterests
<1>5. RowsOfKnownFaces'
  BY <1>4, TracedRows DEF TimeOut, FaceInv
<1> QED
  BY <1>5, EntryForgotten, PitStep DEF TimeOut, deviceVars, appVars

-----------------------------------------------------------------------------
(* Faces that come and go. *)

LEMMA AddedFaces ==
  ASSUME NEW table, NEW last \in Nat, NEW owners, Len(owners) \in Nat,
         DOMAIN table \subseteq 1 .. last
  PROVE  /\ DOMAIN AddFaces(table, last, owners) = DOMAIN table \cup (last + 1) .. (last + Len(owners))
         /\ DOMAIN AddFaces(table, last, owners) \subseteq 1 .. (last + Len(owners))
         /\ \A f \in DOMAIN table : AddFaces(table, last, owners)[f] = table[f]
  BY DEF AddFaces

\* New faces disturb nobody.
LEMMA MoreFaces ==
  ASSUME FaceInv, UNCHANGED <<fib, pit, active, m_face, m_stats, m_faceInfos>>,
         devices' \in Nat, lastFaceId' \in Nat, DOMAIN faceTable' \subseteq 1 .. lastFaceId',
         \A f \in DOMAIN faceTable : f \in DOMAIN faceTable' /\ faceTable'[f] = faceTable[f]
  PROVE  FaceInv'
<1>1. Numbers'
  BY DEF FaceInv, Numbers
<1>2. AppFaces'
  BY DEF FaceInv, AppFaces, Numbers
<1>3. TableFaces'
  BY DEF FaceInv, TableFaces
<1>4. RowsOfKnownFaces'
  BY RowsUndisturbed DEF FaceInv, rowOfVars
<1> QED
  BY <1>1, <1>2, <1>3, <1>4 DEF FaceInv

LEMMA DeviceCount ==
  ASSUME FaceInv, NEW ds \in SUBSET (1 .. devices)
  PROVE  Cardinality(ds) \in Nat
<1>1. devices \in Nat
  BY DEF FaceInv, Numbers
<1>2. IsFiniteSet(1 .. devices)
  BY <1>1, FS_Interval
<1>3. IsFiniteSet(ds)
  BY <1>2, FS_Subset
<1> QED
  BY <1>3, FS_CardinalityType

LEMMA RegisteredFaces ==
  ASSUME FaceInv, NEW table, NEW last \in Nat, DOMAIN table \subseteq 1 .. last,
         NEW ds \in SUBSET (1 .. devices), NEW given, CreateAndRegisterFaces(table, last, given, ds)
  PROVE  /\ lastFaceId' \in Nat /\ DOMAIN faceTable' \subseteq 1 .. lastFaceId'
         /\ \A f \in DOMAIN table : f \in DOMAIN faceTable' /\ faceTable'[f] = table[f]
<1> DEFINE owners == [i \in 1 .. Cardinality(ds) |-> NewFace(Nth(ds, i))]
<1>1. Len(owners) \in Nat
  BY DeviceCount
<1>2. faceTable' = AddFaces(table, last, owners) /\ lastFaceId' = last + Len(owners)
  BY DEF CreateAndRegisterFaces
<1> HIDE DEF owners
<1>3. /\ DOMAIN faceTable' = DOMAIN table \cup (last + 1) .. (last + Len(owners))
      /\ DOMAIN faceTable' \subseteq 1 .. (last + Len(owners))
      /\ \A f \in DOMAIN table : faceTable'[f] = table[f]
  <2>1. PICK os : os = owners /\ Len(os) \in Nat
    BY <1>1
  <2>2. PICK t : t = AddFaces(table, last, os)
    OBVIOUS
  <2>3. /\ DOMAIN t = DOMAIN table \cup (last + 1) .. (last + Len(os))
        /\ DOMAIN t \subseteq 1 .. (last + Len(os))
        /\ \A f \in DOMAIN table : t[f] = table[f]
    BY <2>1, <2>2 DEF AddFaces
  <2> QED
    BY <1>2, <2>1, <2>2, <2>3
<1>4. \A f \in DOMAIN table : f \in DOMAIN faceTable'
  BY <1>3
<1> QED
  BY <1>1, <1>2, <1>3, <1>4

LEMMA InstallKeepsFaces ==
  ASSUME FaceInv, Install
  PROVE  FaceInv'
<1> DEFINE table == ManagementFaces \o RibFaces
<1>1. DOMAIN table = 1 .. 3
  BY DEF ManagementFaces, RibFaces
<1>2. /\ CreateAndRegisterFaces(table, RibFace, RibCommands, 1 .. devices) /\ faceTable = <<>>
      /\ fib' = {ManagementRoute}
      /\ UNCHANGED <<devices, pit, active, m_face, m_stats, m_faceInfos>>
  BY DEF Install, NotYetAggregated, StackInstalled, appVars, rowVars
<1> HIDE DEF table
<1>3. /\ lastFaceId' \in Nat /\ DOMAIN faceTable' \subseteq 1 .. lastFaceId'
      /\ \A f \in 1 .. 3 : f \in DOMAIN faceTable'
  BY <1>1, <1>2, RegisteredFaces DEF RibFace
<1>4. Numbers'
  BY <1>2, <1>3 DEF FaceInv, Numbers
<1>5. AppFaces' /\ TableFaces'
  <2>1. \A a \in Apps : ~active[a]
    BY <1>2, NoDomain DEF FaceInv, AppFaces
  <2>2. \A n \in DOMAIN pit : pit[n].in \cup pit[n].out = {}
    BY <1>2, NoDomain DEF FaceInv, TableFaces
  <2>3. ManagementRoute.face \in DOMAIN faceTable'
    BY <1>3 DEF ManagementRoute, InternalFace
  <2> QED
    BY <1>2, <2>1, <2>2, <2>3 DEF AppFaces, TableFaces
<1>6. RowsOfKnownFaces'
  BY <1>2, RowsUndisturbed DEF FaceInv, rowOfVars
<1> QED
  BY <1>4, <1>5, <1>6 DEF FaceInv

LEMMA UpdateKeepsFaces ==
  ASSUME FaceInv, Update
  PROVE  FaceInv'
<1>1. /\ CreateAndRegisterFaces(faceTable, lastFaceId, commands, WithoutFace)
      /\ UNCHANGED <<devices, fib, pit, active, m_face, m_stats, m_faceInfos>>
  BY DEF Update, appVars, rowVars
<1>2. WithoutFace \in SUBSET (1 .. devices) /\ lastFaceId \in Nat /\ devices \in Nat
      /\ DOMAIN faceTable \subseteq 1 .. lastFaceId
  BY DEF WithoutFace, FaceInv, Numbers
<1> QED
  BY <1>1, <1>2, RegisteredFaces, MoreFaces

LEMMA OpenKeepsFaces ==
  ASSUME FaceInv, NEW a \in Apps, OpenFace(a), UNCHANGED <<devices, fib, pit, m_stats, m_faceInfos>>
  PROVE  FaceInv'
<1>1. lastFaceId \in Nat /\ DOMAIN faceTable \subseteq 1 .. lastFaceId
  BY DEF FaceInv, Numbers
<1>2. /\ active' = [active EXCEPT ![a] = TRUE]
      /\ faceTable' = AddFaces(faceTable, lastFaceId, <<<<"app", a>>>>)
      /\ lastFaceId' = lastFaceId + 1
      /\ m_face' = [m_face EXCEPT ![a] = lastFaceId']
  BY DEF OpenFace
<1>3. /\ DOMAIN faceTable' = DOMAIN faceTable \cup {lastFaceId + 1}
      /\ \A f \in DOMAIN faceTable : faceTable'[f] = faceTable[f]
      /\ faceTable'[lastFaceId + 1] = <<"app", a>>
  BY <1>1, <1>2 DEF AddFaces
<1>4. Numbers'
  BY <1>1, <1>2, <1>3 DEF FaceInv, Numbers
<1>5. AppFaces'
  BY <1>2, <1>3 DEF FaceInv, AppFaces, Numbers
<1>6. TableFaces'
  BY <1>3 DEF FaceInv, TableFaces
<1>7. RowsOfKnownFaces'
  BY RowsUndisturbed DEF FaceInv, rowOfVars
<1> QED
  BY <1>4, <1>5, <1>6, <1>7 DEF FaceInv

LEMMA EndKeepsFaces ==
  ASSUME FaceInv, NEW a \in Apps, EndApplication(a)
  PROVE  FaceInv'
<1>1. /\ active' = [active EXCEPT ![a] = FALSE]
      /\ UNCHANGED <<devices, lastFaceId, m_face, m_stats, m_faceInfos>>
      /\ CloseFace(a)
  BY DEF EndApplication, deviceVars, rowVars
<1>2. RowsOfKnownFaces'
  BY <1>1, RowsUndisturbed DEF FaceInv, rowOfVars
<1>3. CASE active[a]
  <2>1. Without(m_face[a])
    BY <1>1, <1>3 DEF CloseFace
  <2>2. /\ DOMAIN faceTable' = DOMAIN faceTable \ {m_face[a]}
        /\ \A f \in DOMAIN faceTable' : faceTable'[f] = faceTable[f]
    BY <2>1 DEF Without
  <2>3. Numbers'
    BY <1>1, <2>2 DEF FaceInv, Numbers
  <2>4. AppFaces'
    <3> SUFFICES ASSUME NEW b \in Apps, active'[b]
                 PROVE  m_face[b] \in DOMAIN faceTable' /\ faceTable'[m_face[b]] = <<"app", b>>
      BY <1>1 DEF AppFaces
    <3>1. b # a /\ active[b]
      BY <1>1 DEF FaceInv, Numbers
    <3>2. /\ m_face[b] \in DOMAIN faceTable /\ faceTable[m_face[b]] = <<"app", b>>
          /\ faceTable[m_face[a]] = <<"app", a>>
      BY <1>3, <3>1 DEF FaceInv, AppFaces
    <3>3. m_face[b] # m_face[a]
      BY <3>1, <3>2
    <3> QED
      BY <2>2, <3>2, <3>3
  <2>5. TableFaces'
    BY <2>1, <2>2 DEF FaceInv, TableFaces, Without
  <2> QED
    BY <1>2, <2>3, <2>4, <2>5 DEF FaceInv
<1>4. CASE ~active[a]
  <2>1. UNCHANGED <<faceTable, fib, pit>>
    BY <1>1, <1>4 DEF CloseFace
  <2> QED
    BY <1>1, <1>2, <2>1 DEF FaceInv, Numbers, AppFaces, TableFaces
<1> QED
  BY <1>3, <1>4

LEMMA ExecuteKeepsFaces ==
  ASSUME FaceInv, Execute
  PROVE  FaceInv'
<1>1. UNCHANGED <<devices, lastFaceId, faceTable, pit, active, m_face>>
  BY DEF Execute, deviceVars, appVars
<1>2. \A h \in fib' : h.face \in DOMAIN faceTable
  BY DEF Execute, FaceInv, TableFaces
<1>3. RowsOfKnownFaces'
  <2>1. PICK e : Trace(SatisfiedInterests(e)) /\ \E c : e = CommandEntry(c)
    BY DEF Execute
  <2>2. GoodKeys(SatisfiedInterests(e))
    <3>1. PICK c : e = CommandEntry(c)
      BY <2>1
    <3>2. From(c) # INVALID_FACEID /\ InternalFace # INVALID_FACEID
      BY DEF From, RibFace, InjectFace, InternalFace, INVALID_FACEID
    <3> QED
      BY <3>1, <3>2 DEF GoodKeys, SatisfiedInterests, CommandEntry, AllRows
  <2> QED
    BY <2>1, <2>2, TracedRows DEF FaceInv
<1> QED
  BY <1>1, <1>2, <1>3 DEF FaceInv, Numbers, AppFaces, TableFaces

-----------------------------------------------------------------------------

LEMMA ScenarioKeepsFaces ==
  ASSUME FaceInv,
         \/ \E type \in Range(DeviceTypes) :
              \/ \E callback \in {"custom", "declines"} :
                   AddFaceCreateCallback(type, callback) \/ UpdateFaceCreateCallback(type, callback)
              \/ RemoveFaceCreateCallback(type)
         \/ AddDevice
         \/ \E names \in SUBSET Regions : AddRegionName(names) \/ RemoveRegionName(names)
         \/ EmptyNetworkRegionTable
         \/ \E a \in Apps : InstallApplication(a)
         \/ \E f \in DOMAIN faceTable, cost \in 0 .. 1 : ChangeRoute(f, cost)
         \/ \E s \in {"best-route", "multicast"} : InstallStrategy(s)
         \/ Tick
  PROVE  FaceInv'
<1>1. /\ UNCHANGED <<lastFaceId, faceTable, fib, pit, active, m_face, m_stats, m_faceInfos>>
      /\ devices' = devices \/ devices' = devices + 1
  BY DEF AddFaceCreateCallback, UpdateFaceCreateCallback, RemoveFaceCreateCallback, HelperStep,
         AddDevice, AddRegionName, RemoveRegionName, EmptyNetworkRegionTable, ChangeRegions,
         InstallApplication, ChangeRoute, InstallStrategy, Command, Tick,
         nodeVars, deviceVars, tableVars, appVars, rowVars
<1> QED
  BY <1>1, MoreFaces DEF FaceInv, Numbers

LEMMA TracerKeepsFaces ==
  ASSUME FaceInv,
         \/ \E class \in Classes, period \in Periods : InstallTracer(class, period)
         \/ PrintPeriod
         \/ \E d \in 1 .. devices : Drop(d)
  PROVE  FaceInv'
<1>1. UNCHANGED faceVars
  BY DEF InstallTracer, PrintPeriod, Drop, nodeVars, deviceVars, tableVars, appVars, faceVars
<1>2. RowsOfKnownFaces'
  BY InstalledRows, PrintedRows, DroppedRows DEF FaceInv, PrintPeriod, Drop
<1> QED
  BY <1>1, <1>2, FacesUndisturbed

\* Packets are traced with faces in the table: an application that sends is active.
LEMMA PacketKeepsFaces ==
  ASSUME FaceInv,
         \/ \E a \in Apps, n \in Names \cup TraceNames : Express(a, n)
         \/ \E d \in 1 .. devices, n \in Names \cup TraceNames : InterestFrom(d, n) \/ DataFrom(d, n)
         \/ \E b \in Bolts, n \in Names \cup TraceNames : BoltAnswers(b, n)
  PROVE  FaceInv'
<1> USE DEF deviceVars, appVars
<1>1. ASSUME NEW a \in Apps, NEW n, Express(a, n)
      PROVE  FaceInv'
  <2>1. m_face[a] \in DOMAIN faceTable
    BY <1>1 DEF Express, FaceInv, AppFaces
  <2> QED
    BY <1>1, <2>1, FaceNumber, InterestKeepsFaces DEF Express
<1>2. ASSUME NEW d, NEW n, InterestFrom(d, n)
      PROVE  FaceInv'
  <2>1. PICK f \in DOMAIN faceTable : ReceiveInterest(f, n)
    BY <1>2 DEF InterestFrom, DeviceFaces
  <2> QED
    BY <1>2, <2>1, InterestKeepsFaces DEF InterestFrom
<1>3. ASSUME NEW d, NEW n, DataFrom(d, n)
      PROVE  FaceInv'
  <2>1. PICK f \in DOMAIN faceTable : ReceiveData(f, n, deliveries)
    BY <1>3 DEF DataFrom, DeviceFaces
  <2> QED
    BY <1>3, <2>1, DataKeepsFaces DEF DataFrom
<1>4. ASSUME NEW b \in Bolts, NEW n, BoltAnswers(b, n)
      PROVE  FaceInv'
  <2>1. m_face[b] \in DOMAIN faceTable
    BY <1>4 DEF BoltAnswers, HasInstance, FaceInv, AppFaces, Apps
  <2> QED
    BY <1>4, <2>1, FaceNumber, DataKeepsFaces DEF BoltAnswers
<1> QED
  BY <1>1, <1>2, <1>3, <1>4

\* A producer that was stopped since the delivery was scheduled sends nothing.
LEMMA DeliverKeepsFaces ==
  ASSUME FaceInv, Deliver
  PROVE  FaceInv'
<1> DEFINE a == Head(deliveries)[1]
           n == Head(deliveries)[3]
           rest == Tail(deliveries)
<1>1. UNCHANGED <<devices, lastFaceId, faceTable, fib, active, m_face>>
  BY DEF Deliver, deviceVars
<1>2. CASE a \in Producers /\ Answers(a) /\ ReceiveData(GetId(m_face[a]), n, rest)
  <2>1. m_face[a] \in DOMAIN faceTable
    BY <1>2 DEF Answers, FaceInv, AppFaces, Apps
  <2> HIDE DEF a, n, rest
  <2> QED
    BY <1>1, <1>2, <2>1, FaceNumber, DataKeepsFaces
<1>3. CASE Accept(a, n) /\ pit' = pit
  <2>1. RowsOfKnownFaces'
    BY <1>3, DelayRows, RowsUndisturbed DEF Accept, FaceInv, rowVars, rowOfVars
  <2> QED
    BY <1>1, <1>3, <2>1, FacesUndisturbed DEF faceVars
<1>4. CASE UNCHANGED <<pit, awaited, rowVars>>
  <2>1. RowsOfKnownFaces'
    BY <1>4, RowsUndisturbed DEF FaceInv, rowVars, rowOfVars
  <2> QED
    BY <1>1, <1>4, <2>1, FacesUndisturbed DEF faceVars
<1> QED
  BY <1>2, <1>3, <1>4 DEF Deliver

LEMMA FaceStep == FaceInv /\ [Next]_vars => FaceInv'
<1> SUFFICES ASSUME FaceInv, [Next]_vars
             PROVE  FaceInv'
  OBVIOUS
<1>1. CASE UNCHANGED vars
  <2>1. UNCHANGED faceVars /\ UNCHANGED rowOfVars
    BY <1>1 DEF vars, nodeVars, deviceVars, tableVars, appVars, rowVars, faceVars, rowOfVars
  <2> QED
    BY <2>1, FacesUndisturbed, RowsUndisturbed DEF FaceInv
<1>2. ASSUME NEW a \in Apps, StartApplication(a) \/ StopApplication(a) \/ StartBolt(a) \/ StopBolt(a)
      PROVE  FaceInv'
  <2>1. CASE StartApplication(a) \/ StartBolt(a)
    <3>1. OpenFace(a) /\ UNCHANGED <<devices, fib, pit, m_stats, m_faceInfos>>
      BY <2>1 DEF StartApplication, StartBolt, deviceVars, rowVars
    <3> QED
      BY <3>1, OpenKeepsFaces
  <2>2. CASE StopApplication(a) \/ StopBolt(a)
    BY <2>2, EndKeepsFaces DEF StopApplication, StopBolt
  <2> QED
    BY <1>2, <2>1, <2>2
<1>3. Bolts \subseteq Apps
  BY DEF Apps
<1>4. ASSUME NEW n, TimeOut(n)
      PROVE  FaceInv'
  BY <1>4, TimeOutKeepsFaces
<1>5. ASSUME Next
      PROVE  FaceInv'
  BY <1>2, <1>3, <1>4, <1>5, InstallKeepsFaces, UpdateKeepsFaces, ExecuteKeepsFaces,
     DeliverKeepsFaces, PacketKeepsFaces, TracerKeepsFaces, ScenarioKeepsFaces DEF Next, Configure
<1> QED
  BY <1>1, <1>5

\* Whatever applications start and stop between a packet and its delivery, the tracer
\* sees no face without a number as a face, and has described each face of its rows.
THEOREM RowsAreOfKnownFaces == Spec => []RowsOfKnownFaces
<1>1. FaceInv => RowsOfKnownFaces
  BY DEF FaceInv
<1> QED
  BY FaceInit, FaceStep, <1>1, PTL DEF Spec

\* Routes and unanswered Interests never name a face that was removed, and a face of
\* an application that runs is never removed with that of another.
THEOREM TablesNameFaces == Spec => [](AppFaces /\ TableFaces)
<1>1. FaceInv => AppFaces /\ TableFaces
  BY DEF FaceInv
<1> QED
  BY FaceInit, FaceStep, <1>1, PTL DEF Spec

-----------------------------------------------------------------------------
(* Devices and their faces. *)

\* A device that Install or Update has seen has exactly one face, another one none.
DeviceOnce ==
  /\ updated \in 0 .. devices
  /\ \A d \in Nat : IF d \in 1 .. updated THEN \E f \in DOMAIN faceTable : DeviceFaces(d) = {f}
                                          ELSE DeviceFaces(d) = {}

InternalFaces == {InternalFace, InjectFace, RibFace}

\* The faces of the managers are never closed: a stack is installed once, and numbers of
\* faces are not given again.
StackStays ==
  IF StackInstalled
  THEN \A f \in InternalFaces : f \in DOMAIN faceTable /\ faceTable[f][1] = "internal"
  ELSE lastFaceId = 0

OfDevices == {f \in DOMAIN faceTable : faceTable[f][1] = "device"}

\* The commands that are given: those of the scenario name faces of devices, so that
\* no command takes the route of an application or a default route back.
Commands ==
  {AddRoute(Root, f, MaxCost) : f \in (RibFace + 1) .. lastFaceId}
    \cup {AddRoute(prefix, f, 0) : prefix \in {Prefix, TracePrefix}, f \in (RibFace + 1) .. lastFaceId}
    \cup {AddRoute(RibPrefix, RibFace, 0)}
    \cup {AddRoute(Prefix, f, 1) : f \in OfDevices}
    \cup {RemoveRoute(Prefix, f) : f \in OfDevices}
    \cup {SetStrategy(Prefix, s) : s \in {"best-route", "multicast"}}

CommandTypes == commands \in Seq(Commands)

\* A route that is in the FIB, or whose command is on its way.
Routed(prefix, f, cost) ==
  \/ [prefix |-> prefix, face |-> f, cost |-> cost] \in fib
  \/ AddRoute(prefix, f, cost) \in Range(commands)

DefaultRoutes ==
  needSetDefaultRoutes =>
    \A d \in 1 .. updated : \A f \in DeviceFaces(d) : Routed(Root, f, MaxCost)

\* The number of the face of an application that does not run is out of use.
StoppedFaces ==
  \A a \in Apps : m_face[a] <= lastFaceId /\ (~active[a] => m_face[a] \notin DOMAIN faceTable)

ServicePrefix(a) == IF a \in Bolts THEN TracePrefix ELSE Prefix

ServiceRoutes ==
  \A a \in Producers \cup Bolts : active[a] => Routed(ServicePrefix(a), m_face[a], 0)

RouteInv ==
  DeviceOnce /\ StackStays /\ CommandTypes /\ DefaultRoutes /\ StoppedFaces /\ ServiceRoutes

Deliveries == Apps \X {"Interest", "Nack", "Data"} \X (Names \cup TraceNames)

\* Deliveries are for applications; a producer that runs is told of each Interest that
\* was sent over its face and is not answered.
DeliveryTypes ==
  /\ deliveries \in Seq(Deliveries)
  /\ \A f \in DOMAIN faceTable : IsAppFace(f) => AppOf(f) \in Apps

OwedAnswers ==
  \A a \in Producers : \A n \in DOMAIN pit :
    active[a] /\ m_face[a] \in pit[n].out => <<a, "Interest", n>> \in Range(deliveries)

ServiceInv == DeliveryTypes /\ OwedAnswers

LEMMA RangeConcat ==
  ASSUME NEW S, NEW s \in Seq(S), NEW t \in Seq(S)
  PROVE  s \o t \in Seq(S) /\ Range(s \o t) = Range(s) \cup Range(t)
<1>1. /\ s \o t \in Seq(S) /\ DOMAIN (s \o t) = 1 .. (Len(s) + Len(t))
      /\ DOMAIN s = 1 .. Len(s) /\ DOMAIN t = 1 .. Len(t)
      /\ Len(s) \in Nat /\ Len(t) \in Nat
  BY ConcatProperties, LenProperties
<1>2. \A i \in 1 .. Len(s) : (s \o t)[i] = s[i] /\ i \in DOMAIN (s \o t)
  BY <1>1, ConcatProperties
<1>3. \A i \in 1 .. Len(t) : (s \o t)[Len(s) + i] = t[i] /\ Len(s) + i \in DOMAIN (s \o t)
  <2> TAKE i \in 1 .. Len(t)
  <2>1. Len(s) + i \in 1 .. (Len(s) + Len(t)) /\ ~(Len(s) + i <= Len(s)) /\ Len(s) + i - Len(s) = i
    BY <1>1
  <2> QED
    BY <1>1, <2>1, ConcatProperties
<1>4. \A i \in DOMAIN (s \o t) : \/ i \in 1 .. Len(s)
                                 \/ \E j \in 1 .. Len(t) : i = Len(s) + j
  <2> TAKE i \in DOMAIN (s \o t)
  <2>1. \/ i \in 1 .. Len(s)
        \/ (i - Len(s) \in 1 .. Len(t) /\ i = Len(s) + (i - Len(s)))
    BY <1>1
  <2> QED
    BY <2>1
<1>5. Range(s \o t) \subseteq Range(s) \cup Range(t)
  BY <1>1, <1>2, <1>3, <1>4 DEF Range
<1>6. Range(s) \subseteq Range(s \o t) /\ Range(t) \subseteq Range(s \o t)
  BY <1>1, <1>2, <1>3 DEF Range
<1> QED
  BY <1>1, <1>5, <1>6

LEMMA RangeTail ==
  ASSUME NEW S, NEW s \in Seq(S), s # <<>>
  PROVE  /\ Head(s) \in S /\ Tail(s) \in Seq(S)
         /\ Range(s) = {Head(s)} \cup Range(Tail(s))
<1>1. /\ Head(s) \in S /\ Tail(s) \in Seq(S) /\ Len(s) \in Nat \ {0} /\ Len(Tail(s)) = Len(s) - 1
      /\ Head(s) = s[1] /\ DOMAIN s = 1 .. Len(s) /\ DOMAIN Tail(s) = 1 .. (Len(s) - 1)
      /\ \A i \in 1 .. (Len(s) - 1) : Tail(s)[i] = s[i + 1]
  BY HeadTailProperties, EmptySeq, LenProperties
<1>2. \A i \in DOMAIN s : i = 1 \/ (i - 1 \in DOMAIN Tail(s) /\ s[i] = Tail(s)[i - 1])
  BY <1>1
<1>3. \A i \in DOMAIN Tail(s) : i + 1 \in DOMAIN s /\ s[i + 1] = Tail(s)[i]
  BY <1>1
<1>4. Range(s) \subseteq {Head(s)} \cup Range(Tail(s))
  BY <1>1, <1>2 DEF Range
<1>5. Head(s) \in Range(s)
  <2>1. 1 \in DOMAIN s
    BY <1>1
  <2> QED
    BY <1>1, <2>1 DEF Range
<1>6. Range(Tail(s)) \subseteq Range(s)
  BY <1>3 DEF Range
<1> QED
  BY <1>1, <1>4, <1>5, <1>6

Rank(ds, d) == Cardinality({x \in ds : x <= d})

\* Nth lists the members of a finite set of numbers, each once.
LEMMA NthLists ==
  ASSUME NEW ds \in SUBSET Nat, IsFiniteSet(ds)
  PROVE  /\ Cardinality(ds) \in Nat
         /\ \A d \in ds : Rank(ds, d) \in 1 .. Cardinality(ds) /\ Nth(ds, Rank(ds, d)) = d
         /\ \A i \in 1 .. Cardinality(ds) : Nth(ds, i) \in ds /\ Rank(ds, Nth(ds, i)) = i
<1> DEFINE k == Cardinality(ds)
           upTo(d) == {x \in ds : x <= d}
           r == [d \in ds |-> Rank(ds, d)]
<1>1. k \in Nat
  BY FS_CardinalityType
<1>2. ASSUME NEW d \in ds
      PROVE  /\ IsFiniteSet(upTo(d)) /\ Cardinality(upTo(d)) \in Nat
             /\ Cardinality(upTo(d)) <= k /\ Cardinality(upTo(d)) # 0
  <2>1. upTo(d) \in SUBSET ds /\ d \in upTo(d)
    OBVIOUS
  <2> HIDE DEF upTo
  <2>2. IsFiniteSet(upTo(d)) /\ Cardinality(upTo(d)) <= k
    BY <2>1, FS_Subset
  <2> QED
    BY <2>1, <2>2, FS_CardinalityType, FS_EmptySet
<1>3. \A d \in ds : Rank(ds, d) \in 1 .. k
  BY <1>1, <1>2 DEF Rank
<1>4. ASSUME NEW c \in ds, NEW d \in ds, c < d
      PROVE  Rank(ds, c) # Rank(ds, d)
  <2>1. upTo(c) \in SUBSET upTo(d) /\ d \in upTo(d) /\ d \notin upTo(c)
    <3>1. c \in Nat /\ d \in Nat /\ d <= d /\ ~(d <= c)
      BY <1>4
    <3>2. \A x \in ds : x <= c => x <= d
      BY <1>4, <3>1
    <3> QED
      BY <3>1, <3>2
  <2>2. IsFiniteSet(upTo(d))
    BY <1>2
  <2> HIDE DEF upTo
  <2>3. Cardinality(upTo(c)) # Cardinality(upTo(d))
    BY <2>1, <2>2, FS_Subset
  <2> QED
    BY <2>3 DEF Rank, upTo
<1>5. \A c, d \in ds : Rank(ds, c) = Rank(ds, d) => c = d
  <2> TAKE c, d \in ds
  <2>1. c < d \/ d < c \/ c = d
    OBVIOUS
  <2> QED
    BY <1>4, <2>1
<1>6. \A d \in ds : Nth(ds, Rank(ds, d)) = d
  <2> TAKE d \in ds
  <2>1. Nth(ds, Rank(ds, d)) = CHOOSE x \in ds : Rank(ds, x) = Rank(ds, d)
    BY DEF Nth, Rank
  <2> QED
    BY <1>5, <2>1
<1>7. ASSUME NEW i \in 1 .. k
      PROVE  \E d \in ds : Rank(ds, d) = i
  <2>1. IsFiniteSet(1 .. k) /\ Cardinality(1 .. k) = k
    BY <1>1, FS_Interval
  <2>2. r \in Injection(ds, 1 .. k)
    BY <1>3, <1>5 DEF Injection, IsInjective
  <2> HIDE DEF r, k
  <2>3. r \in Surjection(ds, 1 .. k)
    BY <2>1, <2>2, FS_Injection DEF k
  <2> QED
    BY <2>3 DEF Surjection, r
<1>8. ASSUME NEW i \in 1 .. k
      PROVE  Nth(ds, i) \in ds /\ Rank(ds, Nth(ds, i)) = i
  <2>1. Nth(ds, i) = CHOOSE x \in ds : Rank(ds, x) = i
    BY DEF Nth, Rank
  <2> QED
    BY <1>7, <2>1
<1> QED
  BY <1>1, <1>3, <1>6, <1>8

-----------------------------------------------------------------------------

routeVars == <<updated, needSetDefaultRoutes, faceTable, lastFaceId, fib, commands, active, m_face>>

LEMMA RoutesUndisturbed ==
  ASSUME RouteInv, UNCHANGED routeVars, devices' = devices \/ devices' = devices + 1,
         devices \in Nat
  PROVE  RouteInv'
<1>1. /\ updated' = updated /\ needSetDefaultRoutes' = needSetDefaultRoutes
      /\ faceTable' = faceTable /\ lastFaceId' = lastFaceId /\ fib' = fib
      /\ commands' = commands /\ active' = active /\ m_face' = m_face
  BY DEF routeVars
<1>2. DeviceOnce'
  BY <1>1 DEF RouteInv, DeviceOnce, DeviceFaces
<1>3. StackStays' /\ StoppedFaces'
  BY <1>1 DEF RouteInv, StackStays, StackInstalled, StoppedFaces
<1>4. CommandTypes'
  <2>1. Commands' = Commands
    BY <1>1 DEF Commands, OfDevices, AddRoute, RemoveRoute, SetStrategy
  <2> QED
    BY <1>1, <2>1 DEF RouteInv, CommandTypes
<1>5. DefaultRoutes' /\ ServiceRoutes'
  BY <1>1 DEF RouteInv, DefaultRoutes, ServiceRoutes, DeviceFaces, Routed, AddRoute
<1> QED
  BY <1>2, <1>3, <1>4, <1>5 DEF RouteInv

\* Commands stay what they were when faces of devices stay.
LEMMA MoreCommands ==
  ASSUME CommandTypes, lastFaceId \in Nat, lastFaceId' \in Nat, lastFaceId <= lastFaceId',
         OfDevices \subseteq OfDevices', NEW cs \in Seq(Commands'), InjectInterest(cs)
  PROVE  CommandTypes' /\ Range(commands') = Range(commands) \cup Range(cs)
<1>1. Commands \subseteq Commands'
  <2>1. (RibFace + 1) .. lastFaceId \subseteq (RibFace + 1) .. lastFaceId'
    BY DEF RibFace
  <2> QED
    BY <2>1 DEF Commands, AddRoute, RemoveRoute, SetStrategy
<1>2. commands \in Seq(Commands')
  BY <1>1, SeqMonotonic DEF CommandTypes
<1> QED
  BY <1>2, RangeConcat DEF InjectInterest, CommandTypes

\* A route that is there or on its way stays so when faces and commands are added.
LEMMA RoutedStays ==
  ASSUME NEW prefix, NEW f, NEW cost, Routed(prefix, f, cost),
         [prefix |-> prefix, face |-> f, cost |-> cost] \in fib =>
           [prefix |-> prefix, face |-> f, cost |-> cost] \in fib',
         Range(commands) \subseteq Range(commands')
  PROVE  Routed(prefix, f, cost)'
  BY DEF Routed, AddRoute

LEMMA NewFaceOwner ==
  ASSUME NEW d
  PROVE  NewFace(d)[1] = "device" /\ NewFace(d)[2] = d
<1>1. \/ NewFace(d) = DefaultNetDeviceCallback(d) \/ NewFace(d) = CustomCallback(d)
      \/ NewFace(d) = PointToPointNetDeviceCallback(d)
  BY DEF NewFace
<1> QED
  BY <1>1 DEF DefaultNetDeviceCallback, CustomCallback, PointToPointNetDeviceCallback,
              NetDeviceTransport

\* createAndRegisterFace adds one face for each of the devices, and tells the FIB of it.
LEMMA RegisteredDevices ==
  ASSUME NEW table, NEW last \in Nat, DOMAIN table \subseteq 1 .. last, devices \in Nat,
         NEW ds \in SUBSET (1 .. devices), NEW given, CreateAndRegisterFaces(table, last, given, ds)
  PROVE  /\ lastFaceId' \in Nat /\ lastFaceId' = last + Cardinality(ds) /\ updated' = devices
         /\ DOMAIN faceTable' = DOMAIN table \cup (last + 1) .. lastFaceId'
         /\ \A f \in DOMAIN table : faceTable'[f] = table[f]
         /\ \A f \in (last + 1) .. lastFaceId' : /\ faceTable'[f][1] = "device"
                                               /\ faceTable'[f][2] \in ds
         /\ \A d \in ds : \E f \in (last + 1) .. lastFaceId' :
              \A g \in (last + 1) .. lastFaceId' : faceTable'[g][2] = d <=> g = f
<1> DEFINE k == Cardinality(ds)
           owners == [i \in 1 .. k |-> NewFace(Nth(ds, i))]
<1>1. ds \in SUBSET Nat /\ IsFiniteSet(ds)
  <2>1. IsFiniteSet(1 .. devices)
    BY FS_Interval
  <2>2. IsFiniteSet(ds)
    BY <2>1, FS_Subset
  <2> QED
    BY <2>2
<1>2. /\ k \in Nat
      /\ \A d \in ds : Rank(ds, d) \in 1 .. k /\ Nth(ds, Rank(ds, d)) = d
      /\ \A i \in 1 .. k : Nth(ds, i) \in ds /\ Rank(ds, Nth(ds, i)) = i
  BY <1>1, NthLists
<1>3. /\ Len(owners) = k
      /\ \A i \in 1 .. k : owners[i][1] = "device" /\ owners[i][2] = Nth(ds, i)
  BY <1>2, NewFaceOwner
<1>4. /\ faceTable' = AddFaces(table, last, owners) /\ lastFaceId' = last + Len(owners)
      /\ updated' = devices
  BY DEF CreateAndRegisterFaces
<1> HIDE DEF owners, k
<1>5. /\ lastFaceId' = last + k /\ lastFaceId' \in Nat
      /\ DOMAIN faceTable' = DOMAIN table \cup (last + 1) .. lastFaceId'
      /\ \A f \in DOMAIN table : faceTable'[f] = table[f]
  <2>1. Len(owners) \in Nat /\ lastFaceId' = last + k /\ lastFaceId' \in Nat
    BY <1>2, <1>3, <1>4
  <2>2. /\ DOMAIN AddFaces(table, last, owners) = DOMAIN table \cup (last + 1) .. (last + Len(owners))
        /\ \A f \in DOMAIN table : AddFaces(table, last, owners)[f] = table[f]
    BY <2>1 DEF AddFaces
  <2> QED
    BY <1>4, <2>1, <2>2
<1>6. \A f \in (last + 1) .. lastFaceId' : /\ f - last \in 1 .. k
                                         /\ faceTable'[f] = owners[f - last]
  BY <1>2, <1>3, <1>4, <1>5 DEF AddFaces
<1>7. ASSUME NEW d \in ds
      PROVE  \E f \in (last + 1) .. lastFaceId' :
               \A g \in (last + 1) .. lastFaceId' : faceTable'[g][2] = d <=> g = f
  <2>1. last + Rank(ds, d) \in (last + 1) .. lastFaceId' /\ Rank(ds, d) \in Nat
    BY <1>2, <1>5
  <2>2. ASSUME NEW g \in (last + 1) .. lastFaceId'
        PROVE  faceTable'[g][2] = d <=> g = last + Rank(ds, d)
    <3>1. faceTable'[g][2] = Nth(ds, g - last) /\ g - last \in 1 .. k
      BY <1>3, <1>6
    <3>2. Nth(ds, g - last) = d <=> g - last = Rank(ds, d)
      BY <1>2, <3>1
    <3> QED
      BY <2>1, <3>1, <3>2
  <2> QED
    BY <2>1, <2>2
<1>8. updated' = devices /\ lastFaceId' = last + Cardinality(ds)
  BY <1>4, <1>5 DEF k
<1>9. \A f \in (last + 1) .. lastFaceId' : faceTable'[f][1] = "device" /\ faceTable'[f][2] \in ds
  <2> TAKE f \in (last + 1) .. lastFaceId'
  <2>1. f - last \in 1 .. k /\ faceTable'[f] = owners[f - last]
    BY <1>6
  <2>2. owners[f - last][1] = "device" /\ owners[f - last][2] \in ds
    BY <1>2, <1>3, <2>1
  <2> QED
    BY <2>1, <2>2
<1> QED
  BY <1>5, <1>7, <1>8, <1>9

LEMMA DefaultCommands ==
  ASSUME NEW table, NEW last \in Nat, devices \in Nat,
         NEW ds \in SUBSET (1 .. devices), NEW given, CreateAndRegisterFaces(table, last, given, ds)
  PROVE  \E cs \in Seq({AddRoute(Root, f, MaxCost) : f \in (last + 1) .. lastFaceId'}) :
           /\ commands' = given \o cs
           /\ needSetDefaultRoutes => \A f \in (last + 1) .. lastFaceId' :
                                        AddRoute(Root, f, MaxCost) \in Range(cs)
<1> DEFINE k == Cardinality(ds)
           owners == [i \in 1 .. k |-> NewFace(Nth(ds, i))]
           ds0 == [i \in DOMAIN owners |-> AddRoute(Root, last + i, MaxCost)]
           cs == IF needSetDefaultRoutes THEN ds0 ELSE <<>>
           routesOf == {AddRoute(Root, f, MaxCost) : f \in (last + 1) .. lastFaceId'}
<1>1. k \in Nat
  <2>1. IsFiniteSet(1 .. devices)
    BY FS_Interval
  <2> QED
    BY <2>1, FS_Subset, FS_CardinalityType
<1>2. DOMAIN owners = 1 .. k /\ Len(owners) = k
  BY <1>1
<1>3. lastFaceId' = last + k /\ commands' = given \o cs
  BY <1>2 DEF CreateAndRegisterFaces
<1>4. \A i \in 1 .. k : last + i \in (last + 1) .. lastFaceId'
  BY <1>1, <1>3
<1>5. \A f \in (last + 1) .. lastFaceId' : f - last \in 1 .. k /\ last + (f - last) = f
  BY <1>1, <1>3
<1> HIDE DEF k, owners
<1>6. ds0 \in Seq(routesOf)
  BY <1>1, <1>2, <1>4, IsASeq
<1>7. \A f \in (last + 1) .. lastFaceId' : AddRoute(Root, f, MaxCost) \in Range(ds0)
  <2> TAKE f \in (last + 1) .. lastFaceId'
  <2>1. f - last \in DOMAIN ds0 /\ ds0[f - last] = AddRoute(Root, f, MaxCost)
    BY <1>2, <1>5
  <2> HIDE DEF ds0
  <2> QED
    BY <2>1 DEF Range
<1> QED
  BY <1>3, <1>6, <1>7, EmptySeq

LEMMA DevicesRegistered ==
  ASSUME NEW table, NEW last \in Nat, DOMAIN table \subseteq 1 .. last,
         devices \in Nat, devices' = devices,
         NEW ds \in SUBSET (1 .. devices), NEW given, CreateAndRegisterFaces(table, last, given, ds),
         \A d \in Nat :
           LET fs == {f \in DOMAIN table : table[f][1] = "device" /\ table[f][2] = d}
           IN  IF d \in 1 .. devices \ ds THEN \E f \in DOMAIN table : fs = {f} ELSE fs = {}
  PROVE  DeviceOnce'
<1> DEFINE fs(d) == {f \in DOMAIN table : table[f][1] = "device" /\ table[f][2] = d}
           new == (last + 1) .. lastFaceId'
<1>1. /\ updated' = devices /\ DOMAIN faceTable' = DOMAIN table \cup new
      /\ \A f \in DOMAIN table : faceTable'[f] = table[f]
      /\ \A f \in new : faceTable'[f][1] = "device" /\ faceTable'[f][2] \in ds
      /\ \A d \in ds : \E f \in new : \A g \in new : faceTable'[g][2] = d <=> g = f
  BY RegisteredDevices
<1> HIDE DEF new
<1>2. \A d : DeviceFaces(d)' = fs(d) \cup {f \in new : faceTable'[f][2] = d}
  BY <1>1 DEF DeviceFaces
<1>3. \A d \in Nat : IF d \in 1 .. devices \ ds THEN \E f \in DOMAIN table : fs(d) = {f}
                                              ELSE fs(d) = {}
  OBVIOUS
<1> HIDE DEF fs
<1>4. ASSUME NEW d \in ds
      PROVE  \E f \in DOMAIN faceTable' : DeviceFaces(d)' = {f}
  <2>1. fs(d) = {}
    BY <1>3
  <2>2. PICK f \in new : \A g \in new : faceTable'[g][2] = d <=> g = f
    BY <1>1
  <2>3. DeviceFaces(d)' = {f}
    BY <1>2, <2>1, <2>2
  <2> QED
    BY <1>1, <2>3
<1>5. ASSUME NEW d \in Nat \ ds
      PROVE  DeviceFaces(d)' = fs(d)
  <2>1. {f \in new : faceTable'[f][2] = d} = {}
    BY <1>1
  <2> QED
    BY <1>2, <2>1
<1>6. \A d \in Nat : IF d \in 1 .. devices THEN \E f \in DOMAIN faceTable' : DeviceFaces(d)' = {f}
                                        ELSE DeviceFaces(d)' = {}
  <2> TAKE d \in Nat
  <2>1. CASE d \in ds
    BY <1>4, <2>1
  <2>2. CASE d \notin ds
    <3>1. DeviceFaces(d)' = fs(d)
      BY <1>5, <2>2
    <3> QED
      BY <1>1, <1>3, <2>2, <3>1
  <2> QED
    BY <2>1, <2>2
<1> QED
  BY <1>1, <1>6 DEF DeviceOnce

LEMMA InstallKeepsRoutes ==
  ASSUME FaceInv, RouteInv, Install
  PROVE  RouteInv'
<1> DEFINE table == ManagementFaces \o RibFaces
           new == (RibFace + 1) .. lastFaceId'
<1>1. DOMAIN table = 1 .. 3 /\ \A f \in 1 .. 3 : table[f][1] = "internal"
  BY DEF ManagementFaces, RibFaces
<1>2. /\ CreateAndRegisterFaces(table, RibFace, RibCommands, 1 .. devices) /\ faceTable = <<>>
      /\ UNCHANGED <<devices, needSetDefaultRoutes, active, m_face>>
  BY DEF Install, NotYetAggregated, StackInstalled, appVars, helperVars
<1>3. devices \in Nat /\ lastFaceId = 0 /\ \A a \in Apps : m_face[a] \in Nat
  BY <1>2, NoDomain DEF RouteInv, StackStays, StackInstalled, FaceInv, Numbers
<1> HIDE DEF table
<1>4a. RibFace = 3
  BY DEF RibFace
<1>4. DeviceOnce'
  <2>1. \A d : {f \in DOMAIN table : table[f][1] = "device" /\ table[f][2] = d} = {}
    BY <1>1
  <2> QED
    BY <1>1, <1>2, <1>3, <1>4a, <2>1, DevicesRegistered
<1>5. /\ lastFaceId' \in Nat /\ DOMAIN faceTable' = 1 .. 3 \cup new
      /\ \A f \in 1 .. 3 : faceTable'[f] = table[f]
      /\ \A f \in new : faceTable'[f][1] = "device"
      /\ lastFaceId' >= 3
  <2>1. Cardinality(1 .. devices) \in Nat
    BY <1>3, DeviceCount
  <2>2. /\ lastFaceId' \in Nat /\ lastFaceId' = RibFace + Cardinality(1 .. devices)
        /\ DOMAIN faceTable' = DOMAIN table \cup new
        /\ \A f \in DOMAIN table : faceTable'[f] = table[f]
        /\ \A f \in new : faceTable'[f][1] = "device"
    <3>1. /\ RibFace \in Nat /\ DOMAIN table \subseteq 1 .. RibFace /\ devices \in Nat
          /\ 1 .. devices \in SUBSET (1 .. devices)
      BY <1>1, <1>3, <1>4a
    <3>2. CreateAndRegisterFaces(table, RibFace, RibCommands, 1 .. devices)
      BY <1>2
    <3>3. lastFaceId' \in Nat /\ lastFaceId' = RibFace + Cardinality(1 .. devices)
      BY <3>1, <3>2, RegisteredDevices
    <3>4. DOMAIN faceTable' = DOMAIN table \cup new
      BY <3>1, <3>2, RegisteredDevices
    <3>5. \A f \in DOMAIN table : faceTable'[f] = table[f]
      BY <3>1, <3>2, RegisteredDevices
    <3>6. \A f \in new : faceTable'[f][1] = "device" /\ faceTable'[f][2] \in 1 .. devices
      BY <3>1, <3>2, RegisteredDevices, Zenon
    <3> QED
      BY <3>3, <3>4, <3>5, <3>6
  <2> QED
    BY <1>1, <1>4a, <2>1, <2>2
<1>6. StackStays'
  <2>1. InternalFaces = 1 .. 3
    BY DEF InternalFaces, InternalFace, InjectFace, RibFace
  <2>2. \A f \in 1 .. 3 : f \in DOMAIN faceTable' /\ faceTable'[f][1] = "internal"
    BY <1>1, <1>5
  <2>3. StackInstalled'
    BY <2>2, NoDomain DEF StackInstalled
  <2> QED
    BY <2>1, <2>2, <2>3 DEF StackStays
<1>7. PICK cs \in Seq({AddRoute(Root, f, MaxCost) : f \in new}) :
        /\ commands' = RibCommands \o cs
        /\ needSetDefaultRoutes => \A f \in new : AddRoute(Root, f, MaxCost) \in Range(cs)
  <2>1. PICK given : given = RibCommands
    OBVIOUS
  <2>2. CreateAndRegisterFaces(table, RibFace, given, 1 .. devices)
    BY <1>2, <2>1
  <2>3. RibFace \in Nat /\ 1 .. devices \in SUBSET (1 .. devices)
    BY <1>4a
  <2> HIDE DEF new
  <2>4. \E cs \in Seq({AddRoute(Root, f, MaxCost) : f \in new}) :
          /\ commands' = given \o cs
          /\ needSetDefaultRoutes => \A f \in new : AddRoute(Root, f, MaxCost) \in Range(cs)
    BY <1>3, <2>2, <2>3, DefaultCommands DEF new
  <2> QED
    BY <2>1, <2>4
<1>8. CommandTypes' /\ Range(cs) \subseteq Range(commands')
  <2>1. {AddRoute(Root, f, MaxCost) : f \in new} \subseteq Commands'
    BY <1>5, <1>4a DEF Commands, AddRoute
  <2>2. cs \in Seq(Commands')
    BY <2>1, SeqMonotonic
  <2>3. RibCommands \in Seq(Commands')
    <3>1. AddRoute(RibPrefix, RibFace, 0) \in Commands'
      BY DEF Commands, AddRoute
    <3> QED
      BY <3>1 DEF RibCommands
  <2> HIDE DEF new
  <2>4. RibCommands \o cs \in Seq(Commands') /\ Range(RibCommands \o cs) = Range(RibCommands) \cup Range(cs)
    BY <2>2, <2>3, RangeConcat
  <2> QED
    BY <1>7, <2>4 DEF CommandTypes
<1>9. DefaultRoutes'
  <2>1. \A d : DeviceFaces(d)' \subseteq new
    BY <1>1, <1>5 DEF DeviceFaces
  <2> QED
    BY <1>2, <1>7, <1>8, <2>1 DEF DefaultRoutes, Routed, AddRoute
<1>10. \A a \in Apps : ~active[a] /\ m_face[a] = 0
  BY <1>2, <1>3, NoDomain DEF FaceInv, AppFaces, RouteInv, StoppedFaces
<1>11. StoppedFaces' /\ ServiceRoutes'
  BY <1>2, <1>5, <1>4a, <1>10 DEF StoppedFaces, ServiceRoutes, Apps
<1> QED
  BY <1>4, <1>6, <1>8, <1>9, <1>11 DEF RouteInv

LEMMA UpdateKeepsRoutes ==
  ASSUME FaceInv, RouteInv, Update
  PROVE  RouteInv'
<1> DEFINE new == (lastFaceId + 1) .. lastFaceId'
<1>1. /\ CreateAndRegisterFaces(faceTable, lastFaceId, commands, WithoutFace)
      /\ UNCHANGED <<devices, needSetDefaultRoutes, fib, active, m_face>>
  BY DEF Update, helperVars, appVars
<1>2. /\ devices \in Nat /\ lastFaceId \in Nat /\ DOMAIN faceTable \subseteq 1 .. lastFaceId
      /\ WithoutFace \in SUBSET (1 .. devices) /\ m_face \in [Apps -> Nat]
  BY DEF FaceInv, Numbers, WithoutFace
<1>3. DeviceOnce /\ StackStays /\ CommandTypes /\ DefaultRoutes /\ StoppedFaces /\ ServiceRoutes
  BY DEF RouteInv
<1>4. DeviceOnce'
  <2>1. \A d \in Nat : IF d \in 1 .. devices \ WithoutFace
                      THEN \E f \in DOMAIN faceTable : DeviceFaces(d) = {f}
                      ELSE DeviceFaces(d) = {}
    BY <1>2, <1>3 DEF DeviceOnce, WithoutFace
  <2>2. \A d \in Nat :
          LET fs == {f \in DOMAIN faceTable : faceTable[f][1] = "device" /\ faceTable[f][2] = d}
          IN  IF d \in 1 .. devices \ WithoutFace THEN \E f \in DOMAIN faceTable : fs = {f}
                                                  ELSE fs = {}
    BY <2>1 DEF DeviceFaces
  <2> HIDE DEF new
  <2> QED
    BY <1>1, <1>2, <2>2, DevicesRegistered, Zenon
<1>5. /\ lastFaceId' \in Nat /\ lastFaceId <= lastFaceId'
      /\ DOMAIN faceTable' = DOMAIN faceTable \cup new
      /\ \A f \in DOMAIN faceTable : faceTable'[f] = faceTable[f]
      /\ \A f \in new : f \notin DOMAIN faceTable
  <2>1. Cardinality(WithoutFace) \in Nat
    BY <1>2, DeviceCount
  <2>2. lastFaceId' \in Nat /\ lastFaceId' = lastFaceId + Cardinality(WithoutFace)
    BY <1>1, <1>2, RegisteredDevices
  <2>3. DOMAIN faceTable' = DOMAIN faceTable \cup new
    BY <1>1, <1>2, RegisteredDevices
  <2>4. \A f \in DOMAIN faceTable : faceTable'[f] = faceTable[f]
    BY <1>1, <1>2, RegisteredDevices
  <2>5. \A f \in new : f \notin DOMAIN faceTable
    BY <1>2
  <2> QED
    BY <1>2, <2>1, <2>2, <2>3, <2>4, <2>5
<1>6. StackStays'
  <2>1. StackInstalled
    BY DEF Update
  <2>2. \A f \in InternalFaces : f \in DOMAIN faceTable' /\ faceTable'[f][1] = "internal"
    BY <1>3, <1>5, <2>1 DEF StackStays
  <2>3. StackInstalled'
    BY <2>2, NoDomain DEF StackInstalled, InternalFaces
  <2> QED
    BY <2>2, <2>3 DEF StackStays
<1>6a. RibFace \in Nat /\ RibFace <= lastFaceId
  <2>1. RibFace \in DOMAIN faceTable
    BY <1>3 DEF StackStays, Update, InternalFaces
  <2> QED
    BY <1>2, <2>1 DEF RibFace
<1>7. PICK cs \in Seq({AddRoute(Root, f, MaxCost) : f \in new}) :
        /\ InjectInterest(cs)
        /\ needSetDefaultRoutes => \A f \in new : AddRoute(Root, f, MaxCost) \in Range(cs)
  BY <1>1, <1>2, DefaultCommands DEF InjectInterest
<1>8. CommandTypes' /\ Range(commands') = Range(commands) \cup Range(cs)
  <2>1. {AddRoute(Root, f, MaxCost) : f \in new} \subseteq Commands'
    <3>1. new \subseteq (RibFace + 1) .. lastFaceId'
      BY <1>2, <1>6a
    <3> QED
      BY <3>1 DEF Commands, AddRoute
  <2>2. cs \in Seq(Commands')
    BY <2>1, SeqMonotonic
  <2>3. OfDevices \subseteq OfDevices'
    BY <1>5 DEF OfDevices
  <2> QED
    BY <1>2, <1>3, <1>5, <1>7, <2>2, <2>3, MoreCommands
<1>9. DefaultRoutes'
  <2> SUFFICES ASSUME needSetDefaultRoutes, NEW d \in 1 .. updated', NEW f \in DeviceFaces(d)'
               PROVE  Routed(Root, f, MaxCost)'
    BY <1>1 DEF DefaultRoutes
  <2>1. CASE f \in new
    BY <1>7, <1>8, <2>1 DEF Routed, AddRoute
  <2>2. CASE f \notin new
    <3>1. d \in Nat /\ f \in DeviceFaces(d)
      BY <1>5, <2>2 DEF DeviceFaces
    <3>2. d \in 1 .. updated
      BY <1>3, <3>1 DEF DeviceOnce
    <3>3. Routed(Root, f, MaxCost)
      BY <1>3, <3>1, <3>2 DEF DefaultRoutes
    <3> QED
      BY <1>1, <1>8, <3>3, RoutedStays
  <2> QED
    BY <2>1, <2>2
<1>10. StoppedFaces'
  BY <1>1, <1>2, <1>3, <1>5 DEF StoppedFaces
<1>11. ServiceRoutes'
  BY <1>1, <1>3, <1>8, RoutedStays DEF ServiceRoutes, ServicePrefix
<1> QED
  BY <1>4, <1>6, <1>8, <1>9, <1>10, <1>11 DEF RouteInv

\* A face that an application opens is none of a device, and its route is asked for.
LEMMA OpenKeepsRoutes ==
  ASSUME FaceInv, RouteInv, NEW a \in Apps, OpenFace(a),
         UNCHANGED <<devices, updated, needSetDefaultRoutes, fib>>,
         InjectInterest(IF a \in Bolts THEN <<AddRoute(TracePrefix, lastFaceId', 0)>>
                                       ELSE RegisterPrefix(a, lastFaceId'))
  PROVE  RouteInv'
<1> DEFINE g == lastFaceId'
           cs == IF a \in Bolts THEN <<AddRoute(TracePrefix, g, 0)>> ELSE RegisterPrefix(a, g)
<1>1. /\ devices \in Nat /\ lastFaceId \in Nat /\ DOMAIN faceTable \subseteq 1 .. lastFaceId
      /\ m_face \in [Apps -> Nat] /\ active \in [Apps -> BOOLEAN]
  BY DEF FaceInv, Numbers
<1>2. DeviceOnce /\ StackStays /\ CommandTypes /\ DefaultRoutes /\ StoppedFaces /\ ServiceRoutes
  BY DEF RouteInv
<1>3. /\ g = lastFaceId + 1 /\ g \in Nat /\ g \notin DOMAIN faceTable /\ StackInstalled
      /\ active' = [active EXCEPT ![a] = TRUE] /\ m_face' = [m_face EXCEPT ![a] = g]
      /\ faceTable' = AddFaces(faceTable, lastFaceId, <<<<"app", a>>>>)
  BY <1>1 DEF OpenFace
<1>4. /\ DOMAIN faceTable' = DOMAIN faceTable \cup {g}
      /\ \A f \in DOMAIN faceTable : faceTable'[f] = faceTable[f]
      /\ faceTable'[g] = <<"app", a>>
  BY <1>1, <1>3 DEF AddFaces
<1>5. \A d : DeviceFaces(d)' = DeviceFaces(d)
  BY <1>3, <1>4 DEF DeviceFaces
<1>6. DeviceOnce'
  BY <1>2, <1>4, <1>5 DEF DeviceOnce
<1>7. StackStays'
  <2>1. \A f \in InternalFaces : f \in DOMAIN faceTable' /\ faceTable'[f][1] = "internal"
    BY <1>2, <1>3, <1>4 DEF StackStays
  <2>2. StackInstalled'
    BY <2>1, NoDomain DEF StackInstalled, InternalFaces
  <2> QED
    BY <2>1, <2>2 DEF StackStays
<1>7a. RibFace \in Nat /\ RibFace <= lastFaceId
  <2>1. RibFace \in DOMAIN faceTable
    BY <1>2, <1>3 DEF StackStays, InternalFaces
  <2> QED
    BY <1>1, <2>1 DEF RibFace
<1>8. cs \in Seq(Commands')
  <2>1. \A prefix \in {Prefix, TracePrefix} : AddRoute(prefix, g, 0) \in Commands'
    <3>1. g \in (RibFace + 1) .. lastFaceId'
      BY <1>1, <1>3, <1>7a
    <3> HIDE DEF g
    <3> QED
      BY <3>1 DEF Commands, AddRoute
  <2> HIDE DEF g
  <2>2. cs = <<>> \/ \E c \in Commands' : cs = <<c>>
    BY <2>1 DEF RegisterPrefix
  <2>3. ASSUME NEW c \in Commands', cs = <<c>>
        PROVE  cs \in Seq(Commands')
    <3> HIDE DEF cs
    <3> QED
      BY <2>3
  <2> QED
    BY <2>2, <2>3, EmptySeq
<1>9. CommandTypes' /\ Range(commands') = Range(commands) \cup Range(cs)
  <2>1. OfDevices \subseteq OfDevices'
    BY <1>4 DEF OfDevices
  <2>2. InjectInterest(cs) /\ lastFaceId' \in Nat /\ lastFaceId <= lastFaceId'
    BY <1>1, <1>3
  <2> HIDE DEF cs, g
  <2> QED
    BY <1>1, <1>2, <1>8, <2>1, <2>2, MoreCommands
<1>10. DefaultRoutes'
  BY <1>2, <1>5, <1>9, RoutedStays DEF DefaultRoutes
<1>11. StoppedFaces'
  BY <1>1, <1>2, <1>3, <1>4 DEF StoppedFaces
<1>12. ServiceRoutes'
  <2> SUFFICES ASSUME NEW b \in Producers \cup Bolts, active'[b]
               PROVE  Routed(ServicePrefix(b), m_face[b], 0)'
    BY DEF ServiceRoutes, ServicePrefix
  <2>1. CASE b = a
    <3>1. cs = <<AddRoute(ServicePrefix(a), g, 0)>>
      BY <2>1 DEF RegisterPrefix, ServicePrefix
    <3>2. AddRoute(ServicePrefix(a), g, 0) \in Range(cs)
      BY <3>1 DEF Range
    <3> QED
      BY <1>1, <1>3, <1>9, <2>1, <3>2 DEF Routed, AddRoute, ServicePrefix
  <2>2. CASE b # a
    <3>1. active[b] /\ m_face'[b] = m_face[b]
      BY <1>1, <1>3, <2>2 DEF Apps
    <3> QED
      BY <1>2, <1>9, <3>1 DEF ServiceRoutes, ServicePrefix, Routed, AddRoute
  <2> QED
    BY <2>1, <2>2
<1> QED
  BY <1>6, <1>7, <1>9, <1>10, <1>11, <1>12 DEF RouteInv

\* The face that is closed is the application's own.
LEMMA EndKeepsRoutes ==
  ASSUME FaceInv, RouteInv, NEW a \in Apps, EndApplication(a)
  PROVE  RouteInv'
<1>1. /\ active' = [active EXCEPT ![a] = FALSE] /\ CloseFace(a)
      /\ UNCHANGED <<devices, updated, needSetDefaultRoutes, lastFaceId, commands, m_face>>
  BY DEF EndApplication, deviceVars, helperVars
<1>2. /\ devices \in Nat /\ active \in [Apps -> BOOLEAN]
      /\ \A b \in Apps : active[b] => /\ m_face[b] \in DOMAIN faceTable
                                      /\ faceTable[m_face[b]] = <<"app", b>>
  BY DEF FaceInv, Numbers, AppFaces
<1>3. DeviceOnce /\ StackStays /\ CommandTypes /\ DefaultRoutes /\ StoppedFaces /\ ServiceRoutes
  BY DEF RouteInv
<1>4. CASE ~active[a]
  <2>1. active' = active /\ UNCHANGED <<faceTable, fib>>
    BY <1>1, <1>2, <1>4 DEF CloseFace
  <2> QED
    BY <1>1, <1>2, <2>1, RoutesUndisturbed DEF routeVars
<1>5. CASE active[a]
  <2>1. /\ DOMAIN faceTable' = DOMAIN faceTable \ {m_face[a]}
        /\ \A f \in DOMAIN faceTable' : faceTable'[f] = faceTable[f]
        /\ fib' = {h \in fib : h.face # m_face[a]}
    BY <1>1, <1>5 DEF CloseFace, Without
  <2>2. faceTable[m_face[a]] = <<"app", a>> /\ m_face[a] \in DOMAIN faceTable
    BY <1>2, <1>5
  <2>3. \A d : DeviceFaces(d)' = DeviceFaces(d) /\ m_face[a] \notin DeviceFaces(d)
    BY <2>1, <2>2 DEF DeviceFaces
  <2>4. DeviceOnce'
    <3>1. \A d : DeviceFaces(d) \subseteq DOMAIN faceTable'
      BY <2>1, <2>3 DEF DeviceFaces
    <3> QED
      BY <1>1, <1>3, <2>3, <3>1 DEF DeviceOnce
  <2>5. StackStays'
    <3>1. StackInstalled
      BY <2>2, NoDomain DEF StackInstalled
    <3>2. \A f \in InternalFaces : f \in DOMAIN faceTable' /\ faceTable'[f][1] = "internal"
      BY <1>3, <2>1, <2>2, <3>1 DEF StackStays
    <3>3. StackInstalled'
      BY <3>2, NoDomain DEF StackInstalled, InternalFaces
    <3> QED
      BY <3>2, <3>3 DEF StackStays
  <2>6. CommandTypes'
    <3>1. OfDevices' = OfDevices
      BY <2>1, <2>2 DEF OfDevices
    <3>2. Commands' = Commands
      BY <1>1, <3>1 DEF Commands, AddRoute, RemoveRoute, SetStrategy
    <3> QED
      BY <1>1, <1>3, <3>2 DEF CommandTypes
  <2>7. ASSUME NEW prefix, NEW f, NEW cost, Routed(prefix, f, cost), f # m_face[a]
        PROVE  Routed(prefix, f, cost)'
    BY <1>1, <2>1, <2>7 DEF Routed, AddRoute
  <2>8. DefaultRoutes'
    <3> SUFFICES ASSUME needSetDefaultRoutes, NEW d \in 1 .. updated, NEW f \in DeviceFaces(d)
                 PROVE  Routed(Root, f, MaxCost)'
      BY <1>1, <2>3 DEF DefaultRoutes
    <3> QED
      BY <1>3, <2>3, <2>7 DEF DefaultRoutes
  <2>9. StoppedFaces'
    BY <1>1, <1>2, <1>3, <2>1 DEF StoppedFaces
  <2>10. ServiceRoutes'
    <3> SUFFICES ASSUME NEW b \in Producers \cup Bolts, active'[b]
                 PROVE  Routed(ServicePrefix(b), m_face[b], 0)'
      BY DEF ServiceRoutes, ServicePrefix
    <3>1. b # a /\ active[b] /\ m_face[b] # m_face[a]
      BY <1>1, <1>2, <1>5 DEF Apps
    <3> QED
      BY <1>1, <1>3, <2>1, <3>1 DEF ServiceRoutes, ServicePrefix, Routed, AddRoute
  <2> QED
    BY <2>4, <2>5, <2>6, <2>8, <2>9, <2>10 DEF RouteInv
<1> QED
  BY <1>4, <1>5

\* No command that is given takes the route of a command back.
LEMMA ExecuteKeepsRouted ==
  ASSUME CommandTypes, Execute, NEW prefix, NEW f \in DOMAIN faceTable, NEW cost,
         Routed(prefix, f, cost),
         \A c \in Commands : c.op \in {"add", "remove"} /\ c.prefix = prefix /\ c.face = f
                            => c = AddRoute(prefix, f, cost)
  PROVE  Routed(prefix, f, cost)'
<1> DEFINE c == Head(commands)
           h == [prefix |-> prefix, face |-> f, cost |-> cost]
<1>1. c \in Commands /\ Range(commands) = {c} \cup Range(commands')
  BY RangeTail DEF CommandTypes, Execute
<1>2. CASE c = AddRoute(prefix, f, cost)
  <2>1. c.op = "add" /\ c.face \in DOMAIN faceTable
        /\ [prefix |-> c.prefix, face |-> c.face, cost |-> c.cost] = h
    BY <1>2 DEF AddRoute
  <2>2. h \in fib'
    BY <2>1 DEF Execute
  <2> QED
    BY <2>2 DEF Routed
<1>3. CASE c # AddRoute(prefix, f, cost) /\ h \in fib
  <2>1. c.op \in {"add", "remove"} => ~(prefix = c.prefix /\ f = c.face)
    BY <1>1, <1>3
  <2> HIDE DEF c
  <2>2. h \in fib'
    BY <1>3, <2>1 DEF Execute, c
  <2> QED
    BY <2>2 DEF Routed
<1>4. CASE c # AddRoute(prefix, f, cost) /\ h \notin fib
  BY <1>1, <1>4 DEF Routed, AddRoute
<1> QED
  BY <1>2, <1>3, <1>4

LEMMA ExecuteKeepsRoutes ==
  ASSUME FaceInv, RouteInv, Execute
  PROVE  RouteInv'
<1>1. /\ commands' = Tail(commands) /\ commands # <<>>
      /\ UNCHANGED <<devices, updated, needSetDefaultRoutes, faceTable, lastFaceId, active, m_face>>
  BY DEF Execute, helperVars, deviceVars, appVars
<1>2. DeviceOnce /\ StackStays /\ CommandTypes /\ DefaultRoutes /\ StoppedFaces /\ ServiceRoutes
  BY DEF RouteInv
<1>3. DeviceOnce' /\ StackStays' /\ StoppedFaces'
  BY <1>1, <1>2 DEF DeviceOnce, DeviceFaces, StackStays, StackInstalled, StoppedFaces
<1>4. CommandTypes'
  <2>1. Commands' = Commands
    BY <1>1 DEF Commands, OfDevices, AddRoute, RemoveRoute, SetStrategy
  <2> QED
    BY <1>1, <1>2, <2>1, RangeTail DEF CommandTypes
<1>5. DefaultRoutes'
  <2> SUFFICES ASSUME needSetDefaultRoutes, NEW d \in 1 .. updated, NEW f \in DeviceFaces(d)
               PROVE  Routed(Root, f, MaxCost)'
    BY <1>1 DEF DefaultRoutes, DeviceFaces
  <2>1. \A c \in Commands : c.op \in {"add", "remove"} /\ c.prefix = Root /\ c.face = f
                           => c = AddRoute(Root, f, MaxCost)
    BY DEF Commands, AddRoute, RemoveRoute, SetStrategy, Root, Prefix, TracePrefix, RibPrefix
  <2>2. f \in DOMAIN faceTable /\ Routed(Root, f, MaxCost)
    BY <1>2 DEF DefaultRoutes, DeviceFaces
  <2> QED
    BY <1>2, <2>1, <2>2, ExecuteKeepsRouted
<1>6. ServiceRoutes'
  <2>1. ASSUME NEW b \in Producers \cup Bolts, active[b], NEW f, f = m_face[b]
        PROVE  Routed(ServicePrefix(b), f, 0)'
    <3>1. f \in DOMAIN faceTable /\ f \notin OfDevices
      BY <2>1 DEF FaceInv, AppFaces, Apps, OfDevices
    <3>2. /\ ServicePrefix(b) \in {Prefix, TracePrefix} /\ ServicePrefix(b) # Root
          /\ ServicePrefix(b) # RibPrefix
      BY DEF ServicePrefix, Prefix, TracePrefix, Root, RibPrefix
    <3>3. \A c \in Commands : c.op \in {"add", "remove"} /\ c.prefix = ServicePrefix(b) /\ c.face = f
                             => c = AddRoute(ServicePrefix(b), f, 0)
      BY <3>1, <3>2 DEF Commands, AddRoute, RemoveRoute, SetStrategy
    <3>4. Routed(ServicePrefix(b), f, 0)
      BY <1>2, <2>1 DEF ServiceRoutes
    <3> QED
      BY <1>2, <3>1, <3>3, <3>4, ExecuteKeepsRouted
  <2> QED
    BY <1>1, <2>1 DEF ServiceRoutes, Routed, AddRoute, ServicePrefix
<1> QED
  BY <1>3, <1>4, <1>5, <1>6 DEF RouteInv

\* The numbers of the managers' faces come first.
LEMMA DevicesAfterInternal ==
  ASSUME FaceInv, StackStays
  PROVE  OfDevices \subseteq (RibFace + 1) .. lastFaceId
<1> SUFFICES ASSUME NEW f \in OfDevices
             PROVE  f \in (RibFace + 1) .. lastFaceId
  OBVIOUS
<1>1. f \in DOMAIN faceTable /\ faceTable[f][1] = "device" /\ f \in Nat /\ f # 0 /\ f <= lastFaceId
      /\ lastFaceId \in Nat
  BY DEF OfDevices, FaceInv, Numbers
<1>2. StackInstalled
  BY <1>1, NoDomain DEF StackInstalled
<1>3. f \notin InternalFaces
  BY <1>1, <1>2 DEF StackStays
<1>4. f # 1 /\ f # 2 /\ f # 3
  BY <1>3 DEF InternalFaces, InternalFace, InjectFace, RibFace
<1> QED
  BY <1>1, <1>4 DEF RibFace

\* Commands of the scenario are about faces of devices, or set the strategy.
LEMMA CommandKeepsRoutes ==
  ASSUME FaceInv, RouteInv,
         \/ \E f \in DOMAIN faceTable, cost \in 0 .. 1 : ChangeRoute(f, cost)
         \/ \E s \in {"best-route", "multicast"} : InstallStrategy(s)
  PROVE  RouteInv'
<1>0. OfDevices \subseteq (RibFace + 1) .. lastFaceId
  BY DevicesAfterInternal DEF RouteInv
<1>1. \E c \in Commands : Command(c)
  <2>1. ASSUME NEW f \in DOMAIN faceTable, NEW cost \in 0 .. 1, ChangeRoute(f, cost)
        PROVE  \E c \in Commands : Command(c)
    <3>1. f \in OfDevices /\ f \in (RibFace + 1) .. lastFaceId
      BY <1>0, <2>1 DEF ChangeRoute, DeviceFaces, OfDevices
    <3>2. AddRoute(Prefix, f, 0) \in Commands
      BY <3>1 DEF Commands
    <3>3. AddRoute(Prefix, f, 1) \in Commands /\ RemoveRoute(Prefix, f) \in Commands
      BY <3>1 DEF Commands
    <3>4. cost = 0 \/ cost = 1
      OBVIOUS
    <3> QED
      BY <2>1, <3>2, <3>3, <3>4 DEF ChangeRoute
  <2>2. ASSUME NEW s \in {"best-route", "multicast"}, InstallStrategy(s)
        PROVE  \E c \in Commands : Command(c)
    <3>1. SetStrategy(Prefix, s) \in Commands
      BY DEF Commands
    <3> QED
      BY <2>2, <3>1 DEF InstallStrategy
  <2> QED
    BY <2>1, <2>2
<1>2. PICK c \in Commands : Command(c)
  BY <1>1
<1>3. /\ InjectInterest(<<c>>)
      /\ UNCHANGED <<devices, updated, needSetDefaultRoutes, faceTable, lastFaceId, fib, active, m_face>>
  BY <1>2 DEF Command, helperVars, deviceVars, tableVars, appVars
<1>4. DeviceOnce /\ StackStays /\ CommandTypes /\ DefaultRoutes /\ StoppedFaces /\ ServiceRoutes
  BY DEF RouteInv
<1>5. DeviceOnce' /\ StackStays' /\ StoppedFaces'
  BY <1>3, <1>4 DEF DeviceOnce, DeviceFaces, StackStays, StackInstalled, StoppedFaces
<1>6. CommandTypes' /\ Range(commands') = Range(commands) \cup Range(<<c>>)
  <2>1. Commands' = Commands /\ OfDevices' = OfDevices
    BY <1>3 DEF Commands, OfDevices, AddRoute, RemoveRoute, SetStrategy
  <2>2. <<c>> \in Seq(Commands')
    BY <2>1
  <2>3. lastFaceId \in Nat /\ lastFaceId' \in Nat /\ lastFaceId <= lastFaceId'
    BY <1>3 DEF FaceInv, Numbers
  <2>4. OfDevices \subseteq OfDevices'
    BY <2>1
  <2>5. InjectInterest(<<c>>) /\ CommandTypes
    BY <1>3, <1>4
  <2> QED
    BY <2>2, <2>3, <2>4, <2>5, MoreCommands
<1>7. DefaultRoutes' /\ ServiceRoutes'
  BY <1>3, <1>4, <1>6 DEF DefaultRoutes, ServiceRoutes, ServicePrefix, DeviceFaces, Routed, AddRoute
<1> QED
  BY <1>5, <1>6, <1>7 DEF RouteInv

LEMMA RouteInit == Init => RouteInv
<1> SUFFICES ASSUME Init
             PROVE  RouteInv
  OBVIOUS
<1>1. /\ updated = 0 /\ devices = 0 /\ faceTable = <<>> /\ lastFaceId = 0 /\ commands = <<>>
      /\ \A a \in Apps : ~active[a] /\ m_face[a] = 0
  BY DEF Init, AppInit, INVALID_FACEID
<1>2. DeviceOnce
  BY <1>1, NoDomain DEF DeviceOnce, DeviceFaces
<1>3. StackStays /\ CommandTypes
  BY <1>1, EmptySeq DEF StackStays, StackInstalled, CommandTypes
<1>4. DefaultRoutes /\ StoppedFaces /\ ServiceRoutes
  BY <1>1, NoDomain DEF DefaultRoutes, StoppedFaces, ServiceRoutes, Apps
<1> QED
  BY <1>2, <1>3, <1>4 DEF RouteInv

\* Steps that touch neither faces, nor routes, nor commands.
LEMMA OthersKeepRoutes ==
  ASSUME FaceInv, RouteInv,
         \/ Configure \/ AddDevice
         \/ \E names \in SUBSET Regions : AddRegionName(names) \/ RemoveRegionName(names)
         \/ EmptyNetworkRegionTable
         \/ \E a \in Apps : InstallApplication(a)
         \/ \E class \in Classes, period \in Periods : InstallTracer(class, period)
         \/ PrintPeriod
         \/ Deliver
         \/ \E n \in Names \cup TraceNames :
              \/ \E a \in Apps : Express(a, n)
              \/ \E d \in 1 .. devices : InterestFrom(d, n) \/ DataFrom(d, n)
              \/ \E b \in Bolts : BoltAnswers(b, n)
              \/ TimeOut(n)
         \/ \E d \in 1 .. devices : Drop(d)
         \/ Tick
  PROVE  RouteInv'
<1>1. UNCHANGED routeVars /\ (devices' = devices \/ devices' = devices + 1)
  BY DEF Configure, AddFaceCreateCallback, UpdateFaceCreateCallback, RemoveFaceCreateCallback,
         HelperStep, AddDevice, AddRegionName, RemoveRegionName, EmptyNetworkRegionTable,
         ChangeRegions, InstallApplication, InstallTracer, PrintPeriod, Deliver, Express,
         InterestFrom, DataFrom, BoltAnswers, TimeOut, Drop, Tick,
         nodeVars, helperVars, deviceVars, tableVars, appVars, routeVars
<1>2. devices \in Nat
  BY DEF FaceInv, Numbers
<1> QED
  BY <1>1, <1>2, RoutesUndisturbed

LEMMA RouteStep == FaceInv /\ RouteInv /\ [Next]_vars => RouteInv'
<1> SUFFICES ASSUME FaceInv, RouteInv, [Next]_vars
             PROVE  RouteInv'
  OBVIOUS
<1>1. CASE UNCHANGED vars
  <2>1. UNCHANGED routeVars /\ devices' = devices /\ devices \in Nat
    BY <1>1 DEF vars, nodeVars, helperVars, deviceVars, tableVars, appVars, routeVars, FaceInv, Numbers
  <2> QED
    BY <2>1, RoutesUndisturbed
<1>2. ASSUME NEW a \in Apps, StartApplication(a) \/ StopApplication(a) \/ StartBolt(a) \/ StopBolt(a)
      PROVE  RouteInv'
  <2>1. CASE StartApplication(a) \/ StartBolt(a)
    <3>1. /\ OpenFace(a) /\ UNCHANGED <<devices, updated, needSetDefaultRoutes, fib>>
          /\ InjectInterest(IF a \in Bolts THEN <<AddRoute(TracePrefix, lastFaceId', 0)>>
                                           ELSE RegisterPrefix(a, lastFaceId'))
      BY <2>1 DEF StartApplication, StartBolt, helperVars, deviceVars
    <3> QED
      BY <3>1, OpenKeepsRoutes
  <2>2. CASE StopApplication(a) \/ StopBolt(a)
    BY <2>2, EndKeepsRoutes DEF StopApplication, StopBolt
  <2> QED
    BY <1>2, <2>1, <2>2
<1>3. Bolts \subseteq Apps
  BY DEF Apps
<1>4. ASSUME Next
      PROVE  RouteInv'
  BY <1>2, <1>3, <1>4, InstallKeepsRoutes, UpdateKeepsRoutes, ExecuteKeepsRoutes,
     CommandKeepsRoutes, OthersKeepRoutes DEF Next
<1> QED
  BY <1>1, <1>4

-----------------------------------------------------------------------------
(* Deliveries. *)

LEMMA ScheduleLists ==
  ASSUME FaceInv, DeliveryTypes, NEW fs \in SUBSET DOMAIN faceTable,
         NEW kind \in {"Interest", "Nack", "Data"}, NEW n \in Names \cup TraceNames
  PROVE  /\ Schedule(kind, fs, n) \in Seq(Deliveries)
         /\ \A f \in fs : IsAppFace(f) => <<AppOf(f), kind, n>> \in Range(Schedule(kind, fs, n))
<1> DEFINE app == {f \in fs : IsAppFace(f)}
           k == Cardinality(app)
           s == [i \in 1 .. k |-> <<AppOf(Nth(app, i)), kind, n>>]
<1>1. app \in SUBSET Nat /\ IsFiniteSet(app)
  <2>1. app \subseteq 1 .. lastFaceId /\ lastFaceId \in Nat
    BY DEF FaceInv, Numbers
  <2>2. IsFiniteSet(1 .. lastFaceId)
    BY <2>1, FS_Interval
  <2> HIDE DEF app
  <2>3. IsFiniteSet(app)
    BY <2>1, <2>2, FS_Subset
  <2> QED
    BY <2>1, <2>3
<1>2. \A f \in app : AppOf(f) \in Apps
  BY DEF DeliveryTypes
<1>3. Schedule(kind, fs, n) = s
  BY DEF Schedule
<1>4. \A f \in fs : IsAppFace(f) => f \in app
  OBVIOUS
<1> HIDE DEF app
<1>5. /\ k \in Nat
      /\ \A f \in app : Rank(app, f) \in 1 .. k /\ Nth(app, Rank(app, f)) = f
      /\ \A i \in 1 .. k : Nth(app, i) \in app
  BY <1>1, NthLists
<1> HIDE DEF k
<1>6. s \in Seq(Deliveries)
  <2>1. \A i \in 1 .. k : <<AppOf(Nth(app, i)), kind, n>> \in Deliveries
    BY <1>2, <1>5 DEF Deliveries
  <2> QED
    BY <1>5, <2>1, IsASeq
<1>7. \A f \in app : <<AppOf(f), kind, n>> \in Range(s)
  <2> TAKE f \in app
  <2>1. Rank(app, f) \in DOMAIN s /\ s[Rank(app, f)] = <<AppOf(f), kind, n>>
    BY <1>5
  <2> HIDE DEF s
  <2> QED
    BY <2>1 DEF Range
<1> QED
  BY <1>3, <1>4, <1>6, <1>7

\* Faces of applications that stay are the only ones.
LEMMA ServiceUndisturbed ==
  ASSUME ServiceInv, UNCHANGED <<pit, deliveries, active, m_face>>,
         \A f \in DOMAIN faceTable' :
           faceTable'[f][1] = "app" => f \in DOMAIN faceTable /\ faceTable'[f] = faceTable[f]
  PROVE  ServiceInv'
  BY DEF ServiceInv, DeliveryTypes, OwedAnswers, Deliveries, IsAppFace, AppOf

LEMMA InterestIsOwed ==
  ASSUME FaceInv, ServiceInv, NEW n \in Names \cup TraceNames, NEW f \in DOMAIN faceTable,
         ReceiveInterest(f, n), UNCHANGED <<faceTable, active, m_face>>
  PROVE  ServiceInv'
<1> DEFINE e == Entry(n)
<1>1. /\ deliveries \in Seq(Deliveries) /\ DeliveryTypes
      /\ \A a \in Producers : \A m \in DOMAIN pit :
           active[a] /\ m_face[a] \in pit[m].out => <<a, "Interest", m>> \in Range(deliveries)
  BY DEF ServiceInv, DeliveryTypes, OwedAnswers
<1>2. \A x : x \in e.out => n \in DOMAIN pit /\ x \in pit[n].out
  BY DEF Entry, Known
<1>3. ASSUME deliveries' \in Seq(Deliveries)
      PROVE  DeliveryTypes'
  BY <1>1, <1>3 DEF DeliveryTypes, Deliveries, IsAppFace, AppOf
<1>4. CASE /\ Known(n)
           /\ SetEntry(n, [e EXCEPT !.in = @ \cup {f}])
           /\ UNCHANGED deliveries
  <2>1. \A m \in DOMAIN pit' : m \in DOMAIN pit /\ pit'[m].out = pit[m].out
    BY <1>4 DEF SetEntry, Known, Entry
  <2> QED
    BY <1>1, <1>3, <1>4, <2>1 DEF ServiceInv, OwedAnswers
<1>5. ASSUME NEW to \in Forwarded(f, n),
             SetEntry(n, [in |-> e.in \cup {f}, out |-> e.out \cup to]),
             deliveries' = deliveries \o Schedule("Interest", to, n)
      PROVE  ServiceInv'
  <2>1. to \subseteq DOMAIN faceTable
    BY ForwardedFaces
  <2>2. /\ Schedule("Interest", to, n) \in Seq(Deliveries)
        /\ \A g \in to : IsAppFace(g) => <<AppOf(g), "Interest", n>> \in Range(Schedule("Interest", to, n))
    BY <1>1, <2>1, ScheduleLists
  <2>3. /\ deliveries' \in Seq(Deliveries)
        /\ Range(deliveries') = Range(deliveries) \cup Range(Schedule("Interest", to, n))
    BY <1>1, <1>5, <2>2, RangeConcat
  <2>4. \A a \in Producers : active[a] => IsAppFace(m_face[a]) /\ AppOf(m_face[a]) = a
    BY DEF FaceInv, AppFaces, Apps, IsAppFace, AppOf
  <2>5. /\ DOMAIN pit' = DOMAIN pit \cup {n} /\ pit'[n].out = e.out \cup to
        /\ \A m \in DOMAIN pit \ {n} : pit'[m] = pit[m]
    BY <1>5 DEF SetEntry
  <2>6. OwedAnswers'
    <3> SUFFICES ASSUME NEW a \in Producers, NEW m \in DOMAIN pit', active[a], m_face[a] \in pit'[m].out
                 PROVE  <<a, "Interest", m>> \in Range(deliveries')
      BY DEF OwedAnswers
    <3>1. CASE m = n /\ m_face[a] \in to
      BY <2>2, <2>3, <2>4, <3>1
    <3>2. CASE ~(m = n /\ m_face[a] \in to)
      BY <1>1, <1>2, <2>3, <2>5, <3>2
    <3> QED
      BY <3>1, <3>2
  <2> QED
    BY <1>3, <2>3, <2>6 DEF ServiceInv
<1>6. CASE /\ SetEntry(n, [in |-> {}, out |-> {}])
           /\ deliveries' = deliveries \o Schedule("Nack", {f}, n)
  <2>1. PICK nacks \in Seq(Deliveries) : nacks = Schedule("Nack", {f}, n)
    BY <1>1, ScheduleLists
  <2>2. /\ deliveries' \in Seq(Deliveries)
        /\ Range(deliveries') = Range(deliveries) \cup Range(nacks)
    <3>1. deliveries' = deliveries \o nacks /\ deliveries \in Seq(Deliveries)
      BY <1>1, <1>6, <2>1
    <3> QED
      BY <3>1, RangeConcat
  <2>3. \A m \in DOMAIN pit' : pit'[m].out = {} \/ (m \in DOMAIN pit /\ pit'[m] = pit[m])
    BY <1>6 DEF SetEntry
  <2> QED
    BY <1>1, <1>3, <2>2, <2>3 DEF ServiceInv, OwedAnswers
<1>7. CASE SetEntry(n, [in |-> {f}, out |-> {}]) /\ UNCHANGED deliveries
  <2>1. \A m \in DOMAIN pit' : pit'[m].out = {} \/ (m \in DOMAIN pit /\ pit'[m] = pit[m])
    BY <1>7 DEF SetEntry
  <2> QED
    BY <1>1, <1>3, <1>7, <2>1 DEF ServiceInv, OwedAnswers
<1> QED
  BY <1>4, <1>5, <1>6, <1>7 DEF ReceiveInterest

\* Data answers its Interest; what is owed for other names stays owed.
LEMMA DataIsOwed ==
  ASSUME FaceInv, DeliveryTypes, NEW n \in Names \cup TraceNames, NEW f \in DOMAIN faceTable,
         NEW before \in Seq(Deliveries), ReceiveData(f, n, before),
         UNCHANGED <<faceTable, active, m_face>>,
         \A a \in Producers : \A m \in DOMAIN pit \ {n} :
           active[a] /\ m_face[a] \in pit[m].out => <<a, "Interest", m>> \in Range(before)
  PROVE  ServiceInv'
<1>1. ASSUME deliveries' \in Seq(Deliveries)
      PROVE  DeliveryTypes'
  BY <1>1 DEF DeliveryTypes, Deliveries, IsAppFace, AppOf
<1>2. CASE Known(n)
  <2> DEFINE to == pit[n].in \ {f}
  <2>1. /\ pit' = [x \in DOMAIN pit \ {n} |-> pit[x]]
        /\ deliveries' = before \o Schedule("Data", to, n)
    BY <1>2 DEF ReceiveData
  <2>2. to \in SUBSET DOMAIN faceTable
    BY <1>2 DEF Known, FaceInv, TableFaces
  <2> HIDE DEF to
  <2>3. Schedule("Data", to, n) \in Seq(Deliveries)
    BY <2>2, ScheduleLists
  <2>4. deliveries' \in Seq(Deliveries) /\ Range(before) \subseteq Range(deliveries')
    BY <2>1, <2>3, RangeConcat
  <2> QED
    BY <1>1, <2>1, <2>4 DEF ServiceInv, OwedAnswers
<1>3. CASE ~Known(n)
  <2>1. deliveries' = before /\ pit' = pit /\ n \notin DOMAIN pit
    BY <1>3 DEF ReceiveData, Known
  <2> QED
    BY <1>1, <2>1 DEF ServiceInv, OwedAnswers
<1> QED
  BY <1>2, <1>3

LEMMA DeliverIsOwed ==
  ASSUME FaceInv, ServiceInv, Deliver
  PROVE  ServiceInv'
<1> DEFINE a == Head(deliveries)[1]
           kind == Head(deliveries)[2]
           n == Head(deliveries)[3]
           rest == Tail(deliveries)
           known == kind = "Interest" /\ a \in Producers /\ Answers(a)
<1>1. deliveries # <<>> /\ UNCHANGED <<faceTable, active, m_face>>
  BY DEF Deliver
<1>2. DeliveryTypes /\ OwedAnswers
  BY DEF ServiceInv
<1>3. /\ Head(deliveries) = <<a, kind, n>> /\ n \in Names \cup TraceNames /\ rest \in Seq(Deliveries)
      /\ Range(deliveries) = {<<a, kind, n>>} \cup Range(rest)
  <2>1. Head(deliveries) \in Deliveries /\ rest \in Seq(Deliveries)
        /\ Range(deliveries) = {Head(deliveries)} \cup Range(rest)
    BY <1>1, <1>2, RangeTail DEF DeliveryTypes
  <2> QED
    BY <2>1 DEF Deliveries
<1>4. \/ known /\ ReceiveData(GetId(m_face[a]), n, rest)
      \/ ~known /\ deliveries' = rest /\ pit' = pit
  BY DEF Deliver, Accept
<1> HIDE DEF a, kind, n, rest
<1>5. CASE known /\ ReceiveData(GetId(m_face[a]), n, rest)
  <2>1. m_face[a] \in DOMAIN faceTable
    BY <1>5 DEF Answers, FaceInv, AppFaces, Apps
  <2>2. GetId(m_face[a]) = m_face[a]
    BY <2>1, FaceNumber
  <2>3. \A b \in Producers : \A m \in DOMAIN pit \ {n} :
          active[b] /\ m_face[b] \in pit[m].out => <<b, "Interest", m>> \in Range(rest)
    BY <1>2, <1>3 DEF OwedAnswers
  <2> QED
    BY <1>1, <1>2, <1>3, <1>5, <2>1, <2>2, <2>3, DataIsOwed
<1>6. CASE ~known /\ deliveries' = rest /\ pit' = pit
  <2>1. DeliveryTypes'
    BY <1>1, <1>2, <1>3, <1>6 DEF DeliveryTypes, Deliveries, IsAppFace, AppOf
  <2>2. OwedAnswers'
    BY <1>1, <1>2, <1>3, <1>6 DEF OwedAnswers, Answers
  <2> QED
    BY <2>1, <2>2 DEF ServiceInv
<1> QED
  BY <1>4, <1>5, <1>6

\* Faces of devices and of the managers are nobody's.
LEMMA InstallKeepsService ==
  ASSUME FaceInv, ServiceInv, Install
  PROVE  ServiceInv'
<1> DEFINE table == ManagementFaces \o RibFaces
<1>1. DOMAIN table = 1 .. 3 /\ \A f \in 1 .. 3 : table[f][1] = "internal"
  BY DEF ManagementFaces, RibFaces
<1>2. /\ CreateAndRegisterFaces(table, RibFace, RibCommands, 1 .. devices) /\ devices \in Nat
      /\ UNCHANGED <<pit, deliveries, active, m_face>>
  BY DEF Install, appVars, FaceInv, Numbers
<1>3. RibFace \in Nat /\ DOMAIN table \subseteq 1 .. RibFace
  BY <1>1 DEF RibFace
<1> HIDE DEF table
<1>4. \A f \in DOMAIN faceTable' : faceTable'[f][1] # "app"
  <2>1. DOMAIN faceTable' = DOMAIN table \cup (RibFace + 1) .. lastFaceId'
    BY <1>2, <1>3, RegisteredDevices
  <2>2. \A f \in DOMAIN table : faceTable'[f] = table[f]
    BY <1>2, <1>3, RegisteredDevices
  <2>3. \A f \in (RibFace + 1) .. lastFaceId' : /\ faceTable'[f][1] = "device"
                                              /\ faceTable'[f][2] \in 1 .. devices
    BY <1>2, <1>3, RegisteredDevices, Zenon
  <2> QED
    BY <1>1, <2>1, <2>2, <2>3
<1> QED
  BY <1>2, <1>4, ServiceUndisturbed

LEMMA UpdateKeepsService ==
  ASSUME FaceInv, ServiceInv, Update
  PROVE  ServiceInv'
<1>1. /\ CreateAndRegisterFaces(faceTable, lastFaceId, commands, WithoutFace)
      /\ UNCHANGED <<pit, deliveries, active, m_face>>
  BY DEF Update, appVars
<1>2. WithoutFace \in SUBSET (1 .. devices) /\ lastFaceId \in Nat /\ devices \in Nat
      /\ DOMAIN faceTable \subseteq 1 .. lastFaceId
  BY DEF WithoutFace, FaceInv, Numbers
<1>3. DOMAIN faceTable' = DOMAIN faceTable \cup (lastFaceId + 1) .. lastFaceId'
  BY <1>1, <1>2, RegisteredDevices
<1>4. \A f \in DOMAIN faceTable : faceTable'[f] = faceTable[f]
  BY <1>1, <1>2, RegisteredDevices
<1>5. \A f \in (lastFaceId + 1) .. lastFaceId' : /\ faceTable'[f][1] = "device"
                                               /\ faceTable'[f][2] \in WithoutFace
  BY <1>1, <1>2, RegisteredDevices, Zenon
<1> QED
  BY <1>1, <1>3, <1>4, <1>5, ServiceUndisturbed

\* Nothing was sent over a face that is new.
LEMMA OpenKeepsService ==
  ASSUME FaceInv, ServiceInv, NEW a \in Apps, OpenFace(a), UNCHANGED <<pit, deliveries>>
  PROVE  ServiceInv'
<1>1. /\ lastFaceId \in Nat /\ DOMAIN faceTable \subseteq 1 .. lastFaceId
      /\ m_face \in [Apps -> Nat] /\ active \in [Apps -> BOOLEAN]
  BY DEF FaceInv, Numbers
<1>2. /\ active' = [active EXCEPT ![a] = TRUE] /\ m_face' = [m_face EXCEPT ![a] = lastFaceId + 1]
      /\ faceTable' = AddFaces(faceTable, lastFaceId, <<<<"app", a>>>>)
  BY DEF OpenFace
<1>3. /\ DOMAIN faceTable' = DOMAIN faceTable \cup {lastFaceId + 1}
      /\ lastFaceId + 1 \notin DOMAIN faceTable
      /\ \A f \in DOMAIN faceTable : faceTable'[f] = faceTable[f]
      /\ faceTable'[lastFaceId + 1] = <<"app", a>>
  BY <1>1, <1>2 DEF AddFaces
<1>4. DeliveryTypes'
  BY <1>3 DEF ServiceInv, DeliveryTypes, Deliveries, IsAppFace, AppOf
<1>5. OwedAnswers'
  <2> SUFFICES ASSUME NEW b \in Producers, NEW n \in DOMAIN pit, active'[b], m_face'[b] \in pit[n].out
               PROVE  <<b, "Interest", n>> \in Range(deliveries)
    BY DEF OwedAnswers
  <2>1. lastFaceId + 1 \notin pit[n].out
    BY <1>3 DEF FaceInv, TableFaces
  <2>2. active[b] /\ m_face[b] \in pit[n].out
    BY <1>1, <1>2, <2>1 DEF Apps
  <2> QED
    BY <2>2 DEF ServiceInv, OwedAnswers
<1> QED
  BY <1>4, <1>5 DEF ServiceInv

LEMMA EndKeepsService ==
  ASSUME FaceInv, ServiceInv, NEW a \in Apps, EndApplication(a)
  PROVE  ServiceInv'
<1>1. /\ active' = [active EXCEPT ![a] = FALSE] /\ active \in [Apps -> BOOLEAN]
      /\ UNCHANGED <<deliveries, m_face>> /\ CloseFace(a)
  BY DEF EndApplication, FaceInv, Numbers
<1>2. /\ DOMAIN faceTable' \subseteq DOMAIN faceTable
      /\ \A f \in DOMAIN faceTable' : faceTable'[f] = faceTable[f]
      /\ DOMAIN pit' = DOMAIN pit
      /\ \A n \in DOMAIN pit : pit'[n].out \subseteq pit[n].out
  BY <1>1 DEF CloseFace, Without
<1>3. DeliveryTypes'
  BY <1>1, <1>2 DEF ServiceInv, DeliveryTypes, Deliveries, IsAppFace, AppOf
<1>4. \A b \in Producers : active'[b] => active[b]
  BY <1>1 DEF Apps
<1>5. OwedAnswers'
  BY <1>1, <1>2, <1>4 DEF ServiceInv, OwedAnswers
<1> QED
  BY <1>3, <1>5 DEF ServiceInv

\* Steps that deliver nothing and leave applications and their faces alone.
LEMMA OthersKeepService ==
  ASSUME ServiceInv,
         \/ Configure \/ AddDevice
         \/ \E names \in SUBSET Regions : AddRegionName(names) \/ RemoveRegionName(names)
         \/ EmptyNetworkRegionTable
         \/ \E a \in Apps : InstallApplication(a)
         \/ \E class \in Classes, period \in Periods : InstallTracer(class, period)
         \/ PrintPeriod
         \/ Execute
         \/ \E f \in DOMAIN faceTable, cost \in 0 .. 1 : ChangeRoute(f, cost)
         \/ \E s \in {"best-route", "multicast"} : InstallStrategy(s)
         \/ \E d \in 1 .. devices : Drop(d)
         \/ Tick
  PROVE  ServiceInv'
<1>1. UNCHANGED <<faceTable, pit, deliveries, active, m_face>>
  BY DEF Configure, AddFaceCreateCallback, UpdateFaceCreateCallback, RemoveFaceCreateCallback,
         HelperStep, AddDevice, AddRegionName, RemoveRegionName, EmptyNetworkRegionTable,
         ChangeRegions, InstallApplication, InstallTracer, PrintPeriod, Execute, ChangeRoute,
         InstallStrategy, Command, Drop, Tick, nodeVars, deviceVars, tableVars, appVars
<1> QED
  BY <1>1, ServiceUndisturbed

LEMMA PacketKeepsService ==
  ASSUME FaceInv, ServiceInv, NEW n \in Names \cup TraceNames,
         \/ \E a \in Apps : Express(a, n)
         \/ \E d \in 1 .. devices : InterestFrom(d, n) \/ DataFrom(d, n)
         \/ \E b \in Bolts : BoltAnswers(b, n)
         \/ TimeOut(n)
  PROVE  ServiceInv'
<1> USE DEF appVars
<1>1. /\ DeliveryTypes /\ deliveries \in Seq(Deliveries)
      /\ \A a \in Producers : \A m \in DOMAIN pit \ {n} :
           active[a] /\ m_face[a] \in pit[m].out => <<a, "Interest", m>> \in Range(deliveries)
  BY DEF ServiceInv, DeliveryTypes, OwedAnswers
<1>2. ASSUME NEW a \in Apps, Express(a, n)
      PROVE  ServiceInv'
  <2>1. m_face[a] \in DOMAIN faceTable
    BY <1>2 DEF Express, FaceInv, AppFaces
  <2> QED
    BY <1>2, <2>1, FaceNumber, InterestIsOwed DEF Express
<1>3. ASSUME NEW d, InterestFrom(d, n)
      PROVE  ServiceInv'
  <2>1. PICK f \in DOMAIN faceTable : ReceiveInterest(f, n)
    BY <1>3 DEF InterestFrom, DeviceFaces
  <2> QED
    BY <1>3, <2>1, InterestIsOwed DEF InterestFrom
<1>4. ASSUME NEW d, DataFrom(d, n)
      PROVE  ServiceInv'
  <2>1. PICK f \in DOMAIN faceTable : ReceiveData(f, n, deliveries)
    BY <1>4 DEF DataFrom, DeviceFaces
  <2>2. UNCHANGED <<faceTable, active, m_face>>
    BY <1>4 DEF DataFrom
  <2> QED
    BY <1>1, <2>1, <2>2, DataIsOwed
<1>5. ASSUME NEW b \in Bolts, BoltAnswers(b, n)
      PROVE  ServiceInv'
  <2>1. m_face[b] \in DOMAIN faceTable
    BY <1>5 DEF BoltAnswers, HasInstance, FaceInv, AppFaces, Apps
  <2>2. GetId(m_face[b]) = m_face[b] /\ ReceiveData(GetId(m_face[b]), n, deliveries)
    BY <1>5, <2>1, FaceNumber DEF BoltAnswers
  <2>3. UNCHANGED <<faceTable, active, m_face>>
    BY <1>5 DEF BoltAnswers
  <2> QED
    BY <1>1, <2>1, <2>2, <2>3, DataIsOwed
<1>6. ASSUME TimeOut(n)
      PROVE  ServiceInv'
  <2>1. /\ pit' = [x \in DOMAIN pit \ {n} |-> pit[x]]
        /\ UNCHANGED <<faceTable, deliveries, active, m_face>>
    BY <1>6 DEF TimeOut
  <2> QED
    BY <1>1, <2>1 DEF ServiceInv, DeliveryTypes, OwedAnswers, Deliveries, IsAppFace, AppOf
<1> QED
  BY <1>2, <1>3, <1>4, <1>5, <1>6

LEMMA ServiceInit == Init => ServiceInv
<1> SUFFICES ASSUME Init
             PROVE  ServiceInv
  OBVIOUS
<1>1. faceTable = <<>> /\ pit = <<>> /\ deliveries = <<>>
  BY DEF Init
<1> QED
  BY <1>1, NoDomain, EmptySeq DEF ServiceInv, DeliveryTypes, OwedAnswers

LEMMA ServiceStep == FaceInv /\ ServiceInv /\ [Next]_vars => ServiceInv'
<1> SUFFICES ASSUME FaceInv, ServiceInv, [Next]_vars
             PROVE  ServiceInv'
  OBVIOUS
<1>1. CASE UNCHANGED vars
  <2>1. UNCHANGED <<faceTable, pit, deliveries, active, m_face>>
    BY <1>1 DEF vars, nodeVars, tableVars, appVars
  <2> QED
    BY <2>1, ServiceUndisturbed
<1>2. ASSUME NEW a \in Apps, StartApplication(a) \/ StopApplication(a) \/ StartBolt(a) \/ StopBolt(a)
      PROVE  ServiceInv'
  <2>1. CASE StartApplication(a) \/ StartBolt(a)
    BY <2>1, OpenKeepsService DEF StartApplication, StartBolt
  <2>2. CASE StopApplication(a) \/ StopBolt(a)
    BY <2>2, EndKeepsService DEF StopApplication, StopBolt
  <2> QED
    BY <1>2, <2>1, <2>2
<1>3. Bolts \subseteq Apps
  BY DEF Apps
<1>4. ASSUME Next
      PROVE  ServiceInv'
  BY <1>2, <1>3, <1>4, InstallKeepsService, UpdateKeepsService, DeliverIsOwed,
     PacketKeepsService, OthersKeepService DEF Next
<1> QED
  BY <1>1, <1>4

-----------------------------------------------------------------------------

\* In whatever order devices are added and Install and Update run, before or after
\* applications opened and closed faces of their own, a device that they saw has one
\* face and, once its command is executed, the default route over it: no command of
\* the scenario or of an application takes that back.
THEOREM DevicesHaveOneFace == Spec => []OneFacePerDevice
<1>1. FaceInv /\ RouteInv => OneFacePerDevice
  <2> SUFFICES ASSUME FaceInv, RouteInv
               PROVE  OneFacePerDevice
    OBVIOUS
  <2>1. DeviceOnce /\ DefaultRoutes /\ devices \in Nat
    BY DEF FaceInv, RouteInv, Numbers
  <2>2. \A d \in 1 .. devices : Cardinality(DeviceFaces(d)) = IF d <= updated THEN 1 ELSE 0
    <3> TAKE d \in 1 .. devices
    <3>1. CASE d <= updated
      <4>1. \E f \in DOMAIN faceTable : DeviceFaces(d) = {f}
        BY <2>1, <3>1 DEF DeviceOnce
      <4> QED
        BY <3>1, <4>1, FS_Singleton
    <3>2. CASE ~(d <= updated)
      <4>1. DeviceFaces(d) = {}
        BY <2>1, <3>2 DEF DeviceOnce
      <4> QED
        BY <3>2, <4>1, FS_EmptySet
    <3> QED
      BY <3>1, <3>2
  <2>3. ASSUME commands = <<>>, needSetDefaultRoutes, NEW d \in 1 .. updated, NEW f \in DeviceFaces(d)
        PROVE  [prefix |-> Root, face |-> f, cost |-> MaxCost] \in fib
    BY <2>1, <2>3, NoDomain DEF DefaultRoutes, Routed, Range
  <2> QED
    BY <2>2, <2>3 DEF OneFacePerDevice
<1> QED
  BY FaceInit, FaceStep, RouteInit, RouteStep, <1>1, PTL DEF Spec

\* A producer or bolt that runs keeps its route although routes of devices for the same
\* prefix come and go and other applications stop; the producer has answered each
\* Interest that was sent over its face when the events of the instant are done, and no
\* route leads to an application that stopped, whose command may be executed late.
THEOREM ProducersServe == Spec => []ProducerServes
<1>1. FaceInv /\ RouteInv /\ ServiceInv => ProducerServes
  <2> SUFFICES ASSUME FaceInv, RouteInv, ServiceInv, deliveries = <<>>, commands = <<>>,
                      NEW a \in Producers \cup Bolts
               PROVE  IF active[a]
                      THEN /\ [prefix |-> ServicePrefix(a), face |-> m_face[a], cost |-> 0] \in fib
                           /\ a \in Producers => \A n \in DOMAIN pit : m_face[a] \notin pit[n].out
                      ELSE \A h \in fib : h.face # m_face[a]
    BY DEF ProducerServes, ServicePrefix
  <2>1. Range(commands) = {} /\ Range(deliveries) = {}
    BY NoDomain DEF Range
  <2>2. active[a] => [prefix |-> ServicePrefix(a), face |-> m_face[a], cost |-> 0] \in fib
    BY <2>1 DEF RouteInv, ServiceRoutes, Routed
  <2>3. active[a] /\ a \in Producers => \A n \in DOMAIN pit : m_face[a] \notin pit[n].out
    BY <2>1 DEF ServiceInv, OwedAnswers
  <2>4. ~active[a] => \A h \in fib : h.face # m_face[a]
    BY DEF FaceInv, TableFaces, RouteInv, StoppedFaces, Apps
  <2> QED
    BY <2>2, <2>3, <2>4
<1> QED
  BY FaceInit, FaceStep, RouteInit, RouteStep, ServiceInit, ServiceStep, <1>1, PTL DEF Spec

-----------------------------------------------------------------------------
(* Sequences of deliveries. *)

\* Members of a sequence that are in a set, with their places.
Matches(s, D) == {i \in DOMAIN s : s[i] \in D}

LEMMA MatchesFinite ==
  ASSUME NEW S, NEW s \in Seq(S), NEW D
  PROVE  IsFiniteSet(Matches(s, D)) /\ Cardinality(Matches(s, D)) \in Nat
<1>1. Len(s) \in Nat /\ Matches(s, D) \in SUBSET (1 .. Len(s))
  BY LenProperties DEF Matches
<1>2. IsFiniteSet(1 .. Len(s))
  BY <1>1, FS_Interval
<1>3. IsFiniteSet(Matches(s, D))
  BY <1>1, <1>2, FS_Subset
<1> QED
  BY <1>3, FS_CardinalityType

LEMMA MatchesConcat ==
  ASSUME NEW S, NEW s \in Seq(S), NEW t \in Seq(S), NEW D
  PROVE  Cardinality(Matches(s \o t, D)) = Cardinality(Matches(s, D)) + Cardinality(Matches(t, D))
<1> DEFINE n == Len(s)
           A == Matches(s, D)
           B == Matches(t, D)
           C == {n + j : j \in B}
           shift == [j \in B |-> n + j]
<1>1. /\ n \in Nat /\ Len(t) \in Nat /\ DOMAIN s = 1 .. n /\ DOMAIN t = 1 .. Len(t)
      /\ DOMAIN (s \o t) = 1 .. (n + Len(t))
      /\ s \o t \in Seq(S)
  BY ConcatProperties, LenProperties
<1>2. \A i \in 1 .. n : (s \o t)[i] = s[i]
  BY <1>1, ConcatProperties
<1>3. \A j \in 1 .. Len(t) : n + j \in 1 .. (n + Len(t)) /\ (s \o t)[n + j] = t[j]
  <2> TAKE j \in 1 .. Len(t)
  <2>1. n + j \in 1 .. (n + Len(t)) /\ ~(n + j <= n) /\ n + j - n = j
    BY <1>1
  <2> QED
    BY <1>1, <2>1, ConcatProperties
<1>4. \A i \in 1 .. (n + Len(t)) : i \in 1 .. n \/ (i - n \in 1 .. Len(t) /\ i = n + (i - n))
  BY <1>1
<1>5. A \subseteq 1 .. n /\ B \subseteq 1 .. Len(t)
  BY <1>1 DEF Matches
<1>6. Matches(s \o t, D) = A \cup C
  <2>1. Matches(s \o t, D) \subseteq A \cup C
    BY <1>1, <1>2, <1>3, <1>4 DEF Matches
  <2>2. A \subseteq Matches(s \o t, D)
    BY <1>1, <1>2 DEF Matches
  <2>3. C \subseteq Matches(s \o t, D)
    BY <1>1, <1>3 DEF Matches
  <2> QED
    BY <2>1, <2>2, <2>3
<1>7. IsFiniteSet(A) /\ IsFiniteSet(B) /\ Cardinality(A) \in Nat /\ Cardinality(B) \in Nat
  BY MatchesFinite
<1>8. A \cap C = {}
  BY <1>1, <1>5
<1>9. IsFiniteSet(C) /\ Cardinality(C) = Cardinality(B)
  <2>1. shift \in Bijection(B, C)
    BY <1>1, <1>5 DEF Bijection, Injection, Surjection, IsInjective
  <2> HIDE DEF shift, C, B
  <2>2. ExistsBijection(B, C)
    BY <2>1 DEF ExistsBijection
  <2> QED
    BY <1>7, <2>2, FS_Bijection
<1> HIDE DEF A, C, B
<1>10. Cardinality(A \cup C) = Cardinality(A) + Cardinality(C) - Cardinality(A \cap C)
  BY <1>7, <1>9, FS_Union
<1>11. Cardinality(A \cap C) = 0
  BY <1>8, FS_EmptySet
<1>12. Cardinality(A \cup C) = Cardinality(A) + Cardinality(B)
  BY <1>7, <1>9, <1>10, <1>11
<1> QED
  BY <1>6, <1>12 DEF A, B

LEMMA MatchesTail ==
  ASSUME NEW S, NEW s \in Seq(S), s # <<>>, NEW D
  PROVE  Cardinality(Matches(s, D)) =
           Cardinality(Matches(Tail(s), D)) + IF Head(s) \in D THEN 1 ELSE 0
<1>1. Head(s) \in S /\ Tail(s) \in Seq(S) /\ s = <<Head(s)>> \o Tail(s) /\ <<Head(s)>> \in Seq(S)
  OBVIOUS
<1> DEFINE h == <<Head(s)>>
<1>2. Matches(h, D) = IF Head(s) \in D THEN {1} ELSE {}
  BY DEF Matches
<1>3. Cardinality(Matches(h, D)) = IF Head(s) \in D THEN 1 ELSE 0
  BY <1>2, FS_Singleton, FS_EmptySet
<1>4. Cardinality(Matches(Tail(s), D)) \in Nat
  BY <1>1, MatchesFinite
<1> HIDE DEF h
<1>5. Cardinality(Matches(s, D)) = Cardinality(Matches(h, D)) + Cardinality(Matches(Tail(s), D))
  <2>1. PICK t : t = Tail(s)
    OBVIOUS
  <2>2. h \in Seq(S) /\ t \in Seq(S) /\ s = h \o t
    BY <1>1, <2>1 DEF h
  <2>3. Cardinality(Matches(h \o t, D)) = Cardinality(Matches(h, D)) + Cardinality(Matches(t, D))
    BY <2>2, MatchesConcat
  <2> QED
    BY <2>1, <2>2, <2>3
<1> QED
  BY <1>3, <1>4, <1>5

-----------------------------------------------------------------------------
(* What the tracer counts. *)

\* Entries of the PIT with an out-record for face f.
SentOver(f) == {n \in DOMAIN pit : f \in pit[n].out}

CountTypes ==
  /\ tracer = [class |-> tracer.class, period |-> tracer.period, reset |-> tracer.reset,
               sources |-> tracer.sources, pending |-> tracer.pending]
  /\ tracer.class = "none" => tracer = NoTracer
  /\ \A k \in DOMAIN m_stats : m_stats[k] \in Nat
  /\ \A k \in DOMAIN printed : printed[k] \in Nat
  /\ \A f \in DOMAIN tracer.pending : tracer.pending[f] \in Nat
  /\ m_faceInfos \subseteq Nat
  /\ interests \in Nat /\ IsFiniteSet(awaited) /\ IsFiniteSet(DOMAIN pit)

\* Nothing is counted before the tracer is there.
NothingYet ==
  tracer = NoTracer =>
    m_stats = <<>> /\ printed = <<>> /\ m_faceInfos = {} /\ printEvents = {} /\ dropped = 0

\* L3HopDelayTracer keeps no count, and only tracers of L3 have rows of faces.
RowsOfClass ==
  /\ tracer.class = "L3HopDelayTracer" => \A k \in DOMAIN m_stats : m_stats[k] = 0
  /\ tracer.class \notin {"L3RateTracer", "L3HopDelayTracer"} => m_faceInfos = {}

EventsOfPeriod == \A t \in printEvents : t = tracer.reset + tracer.period

\* Faces but for that of the managers.
Faces == Nat \ {INVALID_FACEID, InternalFace}

\* Answers of face f that the tracer saw, with the Interests that may be answered yet.
FaceCounts ==
  \A f \in Faces :
    /\ tracer.class = "L3RateTracer" =>
         Total(<<f, "OutSatisfied">>) + Total(<<f, "OutTimedOut">>) + Cardinality(SentOver(f))
           <= Total(<<f, "OutInterests">>) + Unseen(f)
    /\ tracer.class = "L3HopDelayTracer" =>
         Total(<<f, "InData">>) + Unanswered(f) <= Total(<<f, "OutInterests">>) + Unseen(f)

DelayCounts ==
  \A a \in Consumers :
    /\ Total(<<a, "LastDelay">>) = Total(<<a, "FullDelay">>)
    /\ Total(<<a, "FullDelay">>) + Cardinality(awaited) <= interests

DropCounts == Total(<<INVALID_FACEID, "Drop">>) = dropped

\* Deliveries are for applications that were started, whose face has one number.
StartedOnce ==
  /\ \A d \in Range(deliveries) : m_face[d[1]] # INVALID_FACEID
  /\ \A f \in DOMAIN faceTable : IsAppFace(f) => m_face[AppOf(f)] = f

CountInv ==
  /\ CountTypes /\ NothingYet /\ RowsOfClass /\ EventsOfPeriod
  /\ FaceCounts /\ DelayCounts /\ DropCounts /\ StartedOnce

LEMMA TotalIsNat ==
  ASSUME CountTypes, NEW k
  PROVE  Total(k) \in Nat
  BY DEF CountTypes, Total

\* What trace sources of L3Protocol add to the rows, by class of the tracer.
LEMMA TracedTotals ==
  ASSUME CountTypes, RowsOfClass, NEW keys, Trace(keys), UNCHANGED tracer
  PROVE  /\ \A k \in DOMAIN m_stats' : m_stats'[k] \in Nat
         /\ \A k \in DOMAIN printed' : printed'[k] \in Nat
         /\ RowsOfClass'
         /\ tracer.class = "L3RateTracer" =>
              \A k : Total(k)' = Total(k) + IF k \in keys THEN 1 ELSE 0
         /\ tracer.class = "L3HopDelayTracer" =>
              \A k : Total(k)' = Total(k) +
                     IF k \in keys /\ k[1] # INVALID_FACEID /\ k[2] \in PacketRows THEN 1 ELSE 0
         /\ tracer.class \notin {"L3RateTracer", "L3HopDelayTracer"} => UNCHANGED rowVars
<1>1. /\ \A k \in DOMAIN m_stats : m_stats[k] \in Nat
      /\ \A k \in DOMAIN printed : printed[k] \in Nat
  BY DEF CountTypes
<1>2. CASE tracer.class = "L3RateTracer"
  <2>1. /\ m_stats' = Plus(m_stats, keys) /\ printed' = printed
    BY <1>2 DEF Trace, CountPackets
  <2>2. /\ DOMAIN m_stats' = DOMAIN m_stats \cup keys
        /\ \A k \in DOMAIN m_stats' : m_stats'[k] = (IF k \in DOMAIN m_stats THEN m_stats[k] ELSE 0) +
                                                  (IF k \in keys THEN 1 ELSE 0)
    BY <2>1 DEF Plus
  <2>3. \A k : Total(k)' = Total(k) + IF k \in keys THEN 1 ELSE 0
    BY <1>1, <2>1, <2>2 DEF Total
  <2>4. RowsOfClass'
    BY <1>2 DEF RowsOfClass
  <2> QED
    BY <1>1, <1>2, <2>1, <2>2, <2>3, <2>4
<1>3. CASE tracer.class = "L3HopDelayTracer"
  <2> DEFINE ks == {k \in keys : k[2] \in PacketRows}
             ps == {k \in ks : k[1] # INVALID_FACEID}
  <2>1. /\ printed' = Plus(printed, ps) /\ m_stats' = [k \in DOMAIN m_stats \cup ks |-> 0]
    BY <1>3 DEF Trace, PrintHops, PrintAndReset
  <2>2. \A k : k \in ps <=> k \in keys /\ k[1] # INVALID_FACEID /\ k[2] \in PacketRows
    OBVIOUS
  <2> HIDE DEF ks, ps
  <2>3. /\ DOMAIN printed' = DOMAIN printed \cup ps
        /\ \A k \in DOMAIN printed' : printed'[k] = (IF k \in DOMAIN printed THEN printed[k] ELSE 0) +
                                                  (IF k \in ps THEN 1 ELSE 0)
        /\ \A k \in DOMAIN m_stats' : m_stats'[k] = 0
    BY <2>1 DEF Plus
  <2>4. \A k \in DOMAIN m_stats : m_stats[k] = 0
    BY <1>3 DEF RowsOfClass
  <2>5. \A k : Total(k)' = Total(k) + IF k \in ps THEN 1 ELSE 0
    BY <1>1, <2>3, <2>4 DEF Total
  <2>6. RowsOfClass'
    BY <1>3, <2>3 DEF RowsOfClass
  <2> QED
    BY <1>1, <1>3, <2>2, <2>3, <2>5, <2>6
<1>4. CASE tracer.class \notin {"L3RateTracer", "L3HopDelayTracer"}
  <2>1. UNCHANGED rowVars
    BY <1>4 DEF Trace
  <2> QED
    BY <1>1, <1>4, <2>1 DEF rowVars, RowsOfClass
<1> QED
  BY <1>2, <1>3, <1>4

\* Rows that L3Protocol has nothing to do with.
OtherRows == {"LastDelay", "FullDelay", "Drop"}

PacketKeys(keys) == \A k \in keys : k[1] \in Nat /\ k[2] \notin OtherRows

LEMMA OtherTotals ==
  ASSUME CountTypes, RowsOfClass, NEW keys, Trace(keys), UNCHANGED tracer,
         PacketKeys(keys)
  PROVE  \A x : \A row \in OtherRows : Total(<<x, row>>)' = Total(<<x, row>>)
<1> SUFFICES ASSUME NEW x, NEW row \in OtherRows
             PROVE  Total(<<x, row>>)' = Total(<<x, row>>)
  OBVIOUS
<1> DEFINE k == <<x, row>>
<1>1. k \notin keys /\ Total(k) \in Nat
  BY TotalIsNat DEF PacketKeys
<1> HIDE DEF k
<1>2. Total(k)' = Total(k)
  <2>1. CASE tracer.class \in {"L3RateTracer", "L3HopDelayTracer"}
    BY <1>1, <2>1, TracedTotals
  <2>2. CASE tracer.class \notin {"L3RateTracer", "L3HopDelayTracer"}
    BY <2>2, TracedTotals DEF rowVars, Total
  <2> QED
    BY <2>1, <2>2
<1> QED
  BY <1>2 DEF k

RowInv == CountTypes /\ NothingYet /\ RowsOfClass /\ EventsOfPeriod /\ DelayCounts /\ DropCounts

\* A step of a packet, of which a consumer may wait for the answer.
LEMMA TracedRowInv ==
  ASSUME RowInv, NEW keys, Trace(keys), UNCHANGED <<scheduleVars, dropped>>,
         PacketKeys(keys),
         IsFiniteSet(DOMAIN pit'), IsFiniteSet(awaited'), interests' \in Nat,
         Cardinality(awaited') + interests <= Cardinality(awaited) + interests'
  PROVE  RowInv'
<1>1. /\ CountTypes /\ RowsOfClass /\ tracer' = tracer /\ printEvents' = printEvents
      /\ dropped' = dropped
  BY DEF RowInv, scheduleVars
<1>2. CountTypes' /\ RowsOfClass'
  <2>1. m_faceInfos' \subseteq Nat
    BY <1>1 DEF Trace, CountPackets, PrintHops, AddInfo, PacketKeys, CountTypes, rowVars
  <2> QED
    BY <1>1, <2>1, TracedTotals DEF CountTypes
<1>3. NothingYet'
  BY <1>1, TracedTotals DEF RowInv, NothingYet, NoTracer, rowVars
<1>4. EventsOfPeriod'
  BY <1>1 DEF RowInv, EventsOfPeriod
<1>5. \A x : \A row \in OtherRows : Total(<<x, row>>)' = Total(<<x, row>>)
  BY <1>1, OtherTotals
<1>6. DropCounts'
  BY <1>1, <1>5 DEF RowInv, DropCounts, OtherRows
<1>7. DelayCounts'
  <2> SUFFICES ASSUME NEW a \in Consumers
               PROVE  /\ Total(<<a, "LastDelay">>)' = Total(<<a, "FullDelay">>)'
                      /\ Total(<<a, "FullDelay">>)' + Cardinality(awaited') <= interests'
    BY DEF DelayCounts
  <2>1. /\ Total(<<a, "LastDelay">>)' = Total(<<a, "LastDelay">>)
        /\ Total(<<a, "FullDelay">>)' = Total(<<a, "FullDelay">>)
    BY <1>5 DEF OtherRows
  <2>2. /\ Total(<<a, "LastDelay">>) = Total(<<a, "FullDelay">>)
        /\ Total(<<a, "FullDelay">>) + Cardinality(awaited) <= interests
        /\ Total(<<a, "FullDelay">>) \in Nat
    BY <1>1, TotalIsNat DEF RowInv, DelayCounts
  <2>3. Cardinality(awaited) \in Nat /\ Cardinality(awaited') \in Nat /\ interests \in Nat
    BY <1>1, FS_CardinalityType DEF CountTypes
  <2> QED
    BY <2>1, <2>2, <2>3
<1> QED
  BY <1>2, <1>3, <1>4, <1>6, <1>7 DEF RowInv

-----------------------------------------------------------------------------
(* The Interests that may be answered yet. *)

Requests(a) == {d \in Deliveries : d[1] = a /\ d[2] = "Interest"}

One(b) == IF b THEN 1 ELSE 0

LEMMA AtMostOneMore ==
  ASSUME NEW S, IsFiniteSet(S), NEW T, NEW x
  PROVE  /\ Cardinality(S) \in Nat
         /\ T \subseteq S => Cardinality(T) \in Nat /\ Cardinality(T) <= Cardinality(S)
         /\ T \subseteq S \cup {x} => Cardinality(T) \in Nat /\ Cardinality(T) <= Cardinality(S) + 1
         /\ T \subseteq S \ {x} /\ x \in S => Cardinality(T) \in Nat /\ Cardinality(T) + 1 <= Cardinality(S)
<1>1. Cardinality(S) \in Nat
  BY FS_CardinalityType
<1>2. ASSUME T \subseteq S
      PROVE  Cardinality(T) \in Nat /\ Cardinality(T) <= Cardinality(S)
  BY <1>2, FS_Subset, FS_CardinalityType
<1>3. ASSUME T \subseteq S \cup {x}
      PROVE  Cardinality(T) \in Nat /\ Cardinality(T) <= Cardinality(S) + 1
  <2>1. /\ IsFiniteSet(S \cup {x})
        /\ Cardinality(S \cup {x}) = Cardinality(S) \/ Cardinality(S \cup {x}) = Cardinality(S) + 1
    BY FS_AddElement
  <2>2. /\ IsFiniteSet(T) /\ Cardinality(T) \in Nat /\ Cardinality(S \cup {x}) \in Nat
        /\ Cardinality(T) <= Cardinality(S \cup {x})
    BY <1>3, <2>1, FS_Subset, FS_CardinalityType
  <2> QED
    BY <1>1, <2>1, <2>2
<1>4. ASSUME T \subseteq S \ {x}, x \in S
      PROVE  Cardinality(T) \in Nat /\ Cardinality(T) + 1 <= Cardinality(S)
  <2>1. IsFiniteSet(S \ {x}) /\ Cardinality(S \ {x}) = Cardinality(S) - 1
    BY <1>4, FS_RemoveElement
  <2>2. Cardinality(T) \in Nat /\ Cardinality(T) <= Cardinality(S \ {x})
    BY <1>4, <2>1, FS_Subset, FS_CardinalityType
  <2> QED
    BY <1>1, <2>1, <2>2
<1> QED
  BY <1>1, <1>2, <1>3, <1>4

\* How Unanswered counts, and that a producer has an Interest coming for each entry
\* that waits for its answer.
LEMMA UnansweredCounts ==
  ASSUME DeliveryTypes, NEW f
  PROVE  Unanswered(f) = IF IsAppFace(f) /\ AppOf(f) \in Producers
                         THEN Cardinality(Matches(deliveries, Requests(AppOf(f))))
                         ELSE Cardinality(SentOver(f))
<1>1. OnTheirWay(f) = Matches(deliveries, Requests(AppOf(f)))
  <2>1. \A i \in DOMAIN deliveries : deliveries[i] \in Deliveries
    BY DEF DeliveryTypes
  <2> QED
    BY <2>1 DEF OnTheirWay, Matches, Requests
<1> QED
  BY <1>1 DEF Unanswered, SentOver

LEMMA UnansweredIsNat ==
  ASSUME DeliveryTypes, IsFiniteSet(DOMAIN pit), NEW f
  PROVE  Unanswered(f) \in Nat /\ IsFiniteSet(SentOver(f)) /\ Cardinality(SentOver(f)) \in Nat
<1>1. SentOver(f) \subseteq DOMAIN pit
  BY DEF SentOver
<1>2. IsFiniteSet(SentOver(f)) /\ Cardinality(SentOver(f)) \in Nat
  BY <1>1, FS_Subset, FS_CardinalityType
<1>3. deliveries \in Seq(Deliveries)
  BY DEF DeliveryTypes
<1>4. Cardinality(Matches(deliveries, Requests(AppOf(f)))) \in Nat
  BY <1>3, MatchesFinite
<1> QED
  BY <1>2, <1>4, UnansweredCounts

\* Both of the next state, too.
UnansweredFact(f) ==
  /\ Unanswered(f) \in Nat /\ IsFiniteSet(SentOver(f)) /\ Cardinality(SentOver(f)) \in Nat
  /\ Unanswered(f) = IF IsAppFace(f) /\ AppOf(f) \in Producers
                     THEN Cardinality(Matches(deliveries, Requests(AppOf(f))))
                     ELSE Cardinality(SentOver(f))

LEMMA UnansweredFacts ==
  DeliveryTypes /\ IsFiniteSet(DOMAIN pit) => \A f : UnansweredFact(f)
  BY UnansweredIsNat, UnansweredCounts DEF UnansweredFact

LEMMA NextUnanswered ==
  DeliveryTypes' /\ IsFiniteSet(DOMAIN pit') => \A f : UnansweredFact(f)'
<1>1. (DeliveryTypes /\ IsFiniteSet(DOMAIN pit) => \A f : UnansweredFact(f))'
  BY UnansweredFacts, PTL
<1> QED
  BY <1>1

LEMMA SentIsUnanswered ==
  ASSUME FaceInv, StoppedFaces, ServiceInv, StartedOnce, IsFiniteSet(DOMAIN pit), NEW f \in Nat
  PROVE  Cardinality(SentOver(f)) <= Unanswered(f)
<1>1. DeliveryTypes /\ OwedAnswers /\ deliveries \in Seq(Deliveries)
  BY DEF ServiceInv, DeliveryTypes
<1>2. Cardinality(SentOver(f)) \in Nat
  BY <1>1, UnansweredIsNat
<1>3. CASE IsAppFace(f) /\ AppOf(f) \in Producers
  <2> DEFINE a == AppOf(f)
             M == Matches(deliveries, Requests(a))
             place == [n \in SentOver(f) |-> CHOOSE i \in DOMAIN deliveries : deliveries[i] = <<a, "Interest", n>>]
  <2>1. m_face[a] = f /\ active[a]
    <3>1. a \in Apps /\ f \in DOMAIN faceTable
      BY <1>3 DEF Apps, IsAppFace
    <3>2. m_face[a] = f
      BY <1>3, <3>1 DEF StartedOnce
    <3> QED
      BY <3>1, <3>2 DEF StoppedFaces
  <2>2. \A n \in SentOver(f) : \E i \in DOMAIN deliveries : deliveries[i] = <<a, "Interest", n>>
    BY <1>1, <1>3, <2>1 DEF SentOver, OwedAnswers, Range
  <2>3. \A i \in DOMAIN deliveries : deliveries[i] \in Deliveries
    BY <1>1
  <2>4. \A n \in SentOver(f) : place[n] \in M /\ deliveries[place[n]][3] = n
    <3> TAKE n \in SentOver(f)
    <3>1. place[n] \in DOMAIN deliveries /\ deliveries[place[n]] = <<a, "Interest", n>>
      BY <2>2
    <3> HIDE DEF place
    <3> QED
      BY <2>3, <3>1 DEF Matches, Requests
  <2>5. place \in Injection(SentOver(f), M)
    <3>1. DOMAIN place = SentOver(f) /\ place \in [SentOver(f) -> M]
      BY <2>4
    <3> HIDE DEF place, M
    <3> QED
      BY <2>4, <3>1 DEF Injection, IsInjective
  <2>6. IsFiniteSet(M)
    BY <1>1, MatchesFinite
  <2> HIDE DEF place, M
  <2>7. Cardinality(SentOver(f)) <= Cardinality(M)
    BY <2>5, <2>6, FS_Injection
  <2> QED
    BY <1>1, <1>3, <2>7, UnansweredCounts DEF M
<1>4. CASE ~(IsAppFace(f) /\ AppOf(f) \in Producers)
  BY <1>1, <1>2, <1>4, UnansweredCounts
<1> QED
  BY <1>3, <1>4

\* Each face of an application gets one delivery, if it is among those that are served.
LEMMA ScheduleMatches ==
  ASSUME FaceInv, DeliveryTypes, StartedOnce, NEW fs \in SUBSET DOMAIN faceTable,
         NEW kind \in {"Interest", "Nack", "Data"}, NEW n \in Names \cup TraceNames
  PROVE  /\ \A f \in DOMAIN faceTable : IsAppFace(f) =>
              Cardinality(Matches(Schedule(kind, fs, n), Requests(AppOf(f))))
                <= One(kind = "Interest" /\ f \in fs)
         /\ \A d \in Range(Schedule(kind, fs, n)) : m_face[d[1]] # INVALID_FACEID
<1> DEFINE app == {f \in fs : IsAppFace(f)}
           k == Cardinality(app)
           s == [i \in 1 .. k |-> <<AppOf(Nth(app, i)), kind, n>>]
<1>1. app \in SUBSET Nat /\ IsFiniteSet(app)
  <2>1. app \subseteq 1 .. lastFaceId /\ lastFaceId \in Nat
    BY DEF FaceInv, Numbers
  <2>2. IsFiniteSet(1 .. lastFaceId)
    BY <2>1, FS_Interval
  <2> HIDE DEF app
  <2>3. IsFiniteSet(app)
    BY <2>1, <2>2, FS_Subset
  <2> QED
    BY <2>1, <2>3
<1>2. Schedule(kind, fs, n) = s
  BY DEF Schedule
<1>3. \A f \in app : f \in fs /\ m_face[AppOf(f)] = f /\ f # INVALID_FACEID
  BY FaceNumber DEF StartedOnce
<1> HIDE DEF app
<1>4. /\ k \in Nat
      /\ \A i \in 1 .. k : Nth(app, i) \in app /\ Rank(app, Nth(app, i)) = i
  BY <1>1, NthLists
<1> HIDE DEF k
<1>5. ASSUME NEW f \in DOMAIN faceTable, IsAppFace(f)
      PROVE  Cardinality(Matches(s, Requests(AppOf(f)))) <= One(kind = "Interest" /\ f \in fs)
  <2> DEFINE M == Matches(s, Requests(AppOf(f)))
  <2>1. \A i \in M : kind = "Interest" /\ f \in fs /\ i = Rank(app, f)
    <3> TAKE i \in M
    <3>1. i \in 1 .. k /\ s[i] = <<AppOf(Nth(app, i)), kind, n>> /\ s[i] \in Requests(AppOf(f))
      BY DEF Matches
    <3>2. kind = "Interest" /\ AppOf(Nth(app, i)) = AppOf(f)
      BY <3>1 DEF Requests
    <3>3. Nth(app, i) = f
      BY <1>3, <1>4, <1>5, <3>1, <3>2 DEF StartedOnce
    <3> QED
      BY <1>3, <1>4, <3>1, <3>2, <3>3
  <2> HIDE DEF M
  <2>2. CASE kind = "Interest" /\ f \in fs
    <3>1. M \subseteq {Rank(app, f)}
      BY <2>1
    <3>2. Cardinality({Rank(app, f)}) = 1 /\ IsFiniteSet({Rank(app, f)})
      BY FS_Singleton
    <3> QED
      BY <2>2, <3>1, <3>2, AtMostOneMore DEF M, One
  <2>3. CASE ~(kind = "Interest" /\ f \in fs)
    <3>1. M = {}
      BY <2>1, <2>3
    <3>2. Cardinality(M) = 0
      BY <3>1, FS_EmptySet
    <3> QED
      BY <2>3, <3>2 DEF M, One
  <2> QED
    BY <2>2, <2>3
<1>6. \A d \in Range(s) : m_face[d[1]] # INVALID_FACEID
  <2> SUFFICES ASSUME NEW i \in DOMAIN s
               PROVE  m_face[s[i][1]] # INVALID_FACEID
    BY DEF Range
  <2>1. i \in 1 .. k /\ s[i][1] = AppOf(Nth(app, i))
    OBVIOUS
  <2> QED
    BY <1>3, <1>4, <2>1
<1> QED
  BY <1>2, <1>5, <1>6

LEMMA AddedMatches ==
  ASSUME FaceInv, DeliveryTypes, StartedOnce, NEW fs \in SUBSET DOMAIN faceTable,
         NEW kind \in {"Interest", "Nack", "Data"}, NEW n \in Names \cup TraceNames,
         NEW before \in Seq(Deliveries), NEW f \in DOMAIN faceTable, IsAppFace(f)
  PROVE  /\ Cardinality(Matches(before \o Schedule(kind, fs, n), Requests(AppOf(f))))
              <= Cardinality(Matches(before, Requests(AppOf(f)))) + One(kind = "Interest" /\ f \in fs)
         /\ Cardinality(Matches(before \o Schedule(kind, fs, n), Requests(AppOf(f)))) \in Nat
         /\ Cardinality(Matches(before, Requests(AppOf(f)))) \in Nat
<1> DEFINE s == Schedule(kind, fs, n)
<1>1. s \in Seq(Deliveries)
  BY ScheduleLists
<1>2. Cardinality(Matches(s, Requests(AppOf(f)))) <= One(kind = "Interest" /\ f \in fs)
  BY ScheduleMatches
<1> HIDE DEF s
<1>3. /\ Cardinality(Matches(s, Requests(AppOf(f)))) \in Nat
      /\ Cardinality(Matches(before, Requests(AppOf(f)))) \in Nat
      /\ Cardinality(Matches(before \o s, Requests(AppOf(f))))
           = Cardinality(Matches(before, Requests(AppOf(f)))) + Cardinality(Matches(s, Requests(AppOf(f))))
  BY <1>1, MatchesFinite, MatchesConcat
<1> QED
  BY <1>2, <1>3 DEF s, One

-----------------------------------------------------------------------------
(* Faces' counts, step by step. *)

LEMMA Balance ==
  \A sat, late, sent, out, unseen, x, y, z, left \in Nat :
    sat + late + sent <= out + unseen /\ left + x + y <= sent + z
      => (sat + x) + (late + y) + left <= (out + z) + unseen
  OBVIOUS

LEMMA CountsMove ==
  ASSUME CountTypes, RowsOfClass, FaceCounts, DeliveryTypes, DeliveryTypes', IsFiniteSet(DOMAIN pit'),
         NEW keys, Trace(keys), UNCHANGED tracer,
         \A f \in Faces :
           /\ Cardinality(SentOver(f)') + One(<<f, "OutSatisfied">> \in keys) + One(<<f, "OutTimedOut">> \in keys)
                <= Cardinality(SentOver(f)) + One(<<f, "OutInterests">> \in keys)
           /\ Unanswered(f)' + One(<<f, "InData">> \in keys)
                <= Unanswered(f) + One(<<f, "OutInterests">> \in keys)
  PROVE  FaceCounts'
<1> SUFFICES ASSUME NEW f \in Faces
             PROVE  /\ tracer.class = "L3RateTracer" =>
                         Total(<<f, "OutSatisfied">>)' + Total(<<f, "OutTimedOut">>)' + Cardinality(SentOver(f)')
                           <= Total(<<f, "OutInterests">>)' + Unseen(f)
                    /\ tracer.class = "L3HopDelayTracer" =>
                         Total(<<f, "InData">>)' + Unanswered(f)' <= Total(<<f, "OutInterests">>)' + Unseen(f)
  BY DEF FaceCounts, Faces, Unseen
<1> DEFINE sat == Total(<<f, "OutSatisfied">>)
           late == Total(<<f, "OutTimedOut">>)
           out == Total(<<f, "OutInterests">>)
           data == Total(<<f, "InData">>)
           sent == Cardinality(SentOver(f))
<1>1. /\ IsFiniteSet(DOMAIN pit)
      /\ sat \in Nat /\ late \in Nat /\ out \in Nat /\ data \in Nat
  BY TotalIsNat DEF CountTypes
<1>2. sent \in Nat /\ sent' \in Nat /\ Unanswered(f) \in Nat /\ Unanswered(f)' \in Nat
  <2>1. UnansweredFact(f)'
    BY NextUnanswered
  <2> QED
    BY <1>1, <2>1, UnansweredIsNat DEF UnansweredFact
<1>3. Unseen(f) \in Nat
  BY DEF Unseen, CountTypes
<1>4. CASE tracer.class = "L3RateTracer"
  <2>1. \A k : Total(k)' = Total(k) + One(k \in keys)
    BY <1>4, TracedTotals DEF One
  <2>2. /\ sat' = sat + One(<<f, "OutSatisfied">> \in keys)
        /\ late' = late + One(<<f, "OutTimedOut">> \in keys)
        /\ out' = out + One(<<f, "OutInterests">> \in keys)
    BY <2>1
  <2>3. sat + late + sent <= out + Unseen(f)
    BY <1>4 DEF FaceCounts, Faces
  <2>4. sent' + One(<<f, "OutSatisfied">> \in keys) + One(<<f, "OutTimedOut">> \in keys)
                <= sent + One(<<f, "OutInterests">> \in keys)
    OBVIOUS
  <2> HIDE DEF sat, late, out, data, sent
  <2>5. sat' + late' + sent' <= out' + Unseen(f)
    <3> DEFINE x == One(<<f, "OutSatisfied">> \in keys)
               y == One(<<f, "OutTimedOut">> \in keys)
               z == One(<<f, "OutInterests">> \in keys)
    <3>1. x \in Nat /\ y \in Nat /\ z \in Nat
      BY DEF One
    <3> HIDE DEF x, y, z
    <3>2. sat' = sat + x /\ late' = late + y /\ out' = out + z /\ sent' + x + y <= sent + z
      BY <2>2, <2>4 DEF x, y, z
    <3>3. (sat + x) + (late + y) + sent' <= (out + z) + Unseen(f)
      BY <1>1, <1>2, <1>3, <2>3, <3>1, <3>2, Balance
    <3> QED
      BY <3>2, <3>3
  <2> QED
    BY <1>4, <2>5 DEF sat, late, out, data, sent
<1>5. CASE tracer.class = "L3HopDelayTracer"
  <2>1. \A k : Total(k)' = Total(k) + IF k \in keys /\ k[1] # INVALID_FACEID /\ k[2] \in PacketRows THEN 1 ELSE 0
    BY <1>5, TracedTotals
  <2>2. /\ data' = data + One(<<f, "InData">> \in keys)
        /\ out' = out + One(<<f, "OutInterests">> \in keys)
    BY <2>1 DEF One, PacketRows, Faces
  <2>3. data + Unanswered(f) <= out + Unseen(f)
    BY <1>5 DEF FaceCounts, Faces
  <2>4. Unanswered(f)' + One(<<f, "InData">> \in keys) <= Unanswered(f) + One(<<f, "OutInterests">> \in keys)
    OBVIOUS
  <2> HIDE DEF sat, late, out, data, sent
  <2>5. data' + Unanswered(f)' <= out' + Unseen(f)
    BY <1>1, <1>2, <1>3, <2>2, <2>3, <2>4 DEF One
  <2> QED
    BY <1>5, <2>5 DEF sat, late, out, data, sent
<1> QED
  BY <1>4, <1>5

\* Steps in which the tracer of packets hears nothing.
LEMMA CountsStay ==
  ASSUME CountTypes, FaceCounts, DeliveryTypes, DeliveryTypes', IsFiniteSet(DOMAIN pit'),
         UNCHANGED <<rowVars, tracer>>,
         \A f \in Faces : /\ SentOver(f)' \subseteq SentOver(f)
                          /\ Unanswered(f)' <= Unanswered(f)
  PROVE  FaceCounts'
<1> SUFFICES ASSUME NEW f \in Faces
             PROVE  /\ tracer.class = "L3RateTracer" =>
                         Total(<<f, "OutSatisfied">>) + Total(<<f, "OutTimedOut">>) + Cardinality(SentOver(f)')
                           <= Total(<<f, "OutInterests">>) + Unseen(f)
                    /\ tracer.class = "L3HopDelayTracer" =>
                         Total(<<f, "InData">>) + Unanswered(f)' <= Total(<<f, "OutInterests">>) + Unseen(f)
  <2>1. /\ \A k : Total(k)' = Total(k)
        /\ \A f : Unseen(f)' = Unseen(f)
        /\ tracer' = tracer
    BY DEF Unseen, Total, rowVars
  <2> QED
    BY <2>1 DEF FaceCounts, Faces
<1>1. /\ Total(<<f, "OutSatisfied">>) \in Nat /\ Total(<<f, "OutTimedOut">>) \in Nat
      /\ Total(<<f, "OutInterests">>) \in Nat /\ Total(<<f, "InData">>) \in Nat
      /\ Unseen(f) \in Nat /\ IsFiniteSet(DOMAIN pit)
  BY TotalIsNat DEF CountTypes, Unseen
<1>2. Unanswered(f) \in Nat /\ IsFiniteSet(SentOver(f)) /\ Cardinality(SentOver(f)) \in Nat
  BY <1>1, UnansweredIsNat
<1>3. Unanswered(f)' \in Nat
  BY NextUnanswered DEF UnansweredFact
<1>4. Cardinality(SentOver(f)') \in Nat /\ Cardinality(SentOver(f)') <= Cardinality(SentOver(f))
  BY <1>2, AtMostOneMore
<1>5. /\ tracer.class = "L3RateTracer" =>
           Total(<<f, "OutSatisfied">>) + Total(<<f, "OutTimedOut">>) + Cardinality(SentOver(f))
             <= Total(<<f, "OutInterests">>) + Unseen(f)
      /\ tracer.class = "L3HopDelayTracer" =>
           Total(<<f, "InData">>) + Unanswered(f) <= Total(<<f, "OutInterests">>) + Unseen(f)
  BY DEF FaceCounts, Faces
<1> QED
  BY <1>1, <1>2, <1>3, <1>4, <1>5

\* An entry of the PIT is given, or taken away.
LEMMA SentOverSet ==
  ASSUME NEW n, NEW e, SetEntry(n, e), NEW f
  PROVE  SentOver(f)' = IF f \in e.out THEN SentOver(f) \cup {n} ELSE SentOver(f) \ {n}
  BY DEF SetEntry, SentOver

LEMMA SentOverForgotten ==
  ASSUME NEW n, pit' = [x \in DOMAIN pit \ {n} |-> pit[x]], NEW f
  PROVE  SentOver(f)' = SentOver(f) \ {n}
  BY DEF SentOver

LEMMA FacesAreNumbers ==
  ASSUME FaceInv
  PROVE  DOMAIN faceTable \subseteq Nat /\ INVALID_FACEID \in Nat
  BY FaceNumber DEF INVALID_FACEID

LEMMA InterestIsCounted ==
  ASSUME FaceInv, ServiceInv, CountTypes, StartedOnce, FaceCounts, RowsOfClass,
         NEW n \in Names \cup TraceNames, NEW f \in DOMAIN faceTable,
         ReceiveInterest(f, n), UNCHANGED <<faceTable, active, m_face, tracer>>
  PROVE  /\ FaceCounts' /\ StartedOnce' /\ IsFiniteSet(DOMAIN pit')
         /\ \E keys : Trace(keys) /\ PacketKeys(keys)
<1> DEFINE e == Entry(n)
<1>1. /\ DeliveryTypes /\ DeliveryTypes' /\ deliveries \in Seq(Deliveries)
      /\ IsFiniteSet(DOMAIN pit)
  BY InterestIsOwed DEF ServiceInv, DeliveryTypes, CountTypes
<1>2. IsFiniteSet(DOMAIN pit')
  <2>1. DOMAIN pit' = DOMAIN pit \cup {n}
    BY DEF ReceiveInterest, SetEntry
  <2> QED
    BY <1>1, <2>1, FS_AddElement
<1>3. \A g : g \in e.out <=> n \in SentOver(g)
  BY DEF Entry, Known, SentOver
<1>4. \A g : (IsAppFace(g) <=> IsAppFace(g)') /\ AppOf(g)' = AppOf(g)
  BY DEF IsAppFace, AppOf
<1>5. \A g \in Faces : /\ Cardinality(SentOver(g)) \in Nat /\ IsFiniteSet(SentOver(g)) /\ Unanswered(g) \in Nat
  BY <1>1, UnansweredIsNat
<1>6. ASSUME NEW g \in Faces, IsAppFace(g) /\ AppOf(g) \in Producers
      PROVE  /\ Unanswered(g) = Cardinality(Matches(deliveries, Requests(AppOf(g))))
             /\ Unanswered(g)' = Cardinality(Matches(deliveries', Requests(AppOf(g))))
  <2>1. UnansweredFact(g)'
    BY <1>1, <1>2, NextUnanswered
  <2> QED
    BY <1>1, <1>4, <1>6, <2>1, UnansweredCounts DEF UnansweredFact, Matches, Requests, Deliveries
<1>7. ASSUME NEW g \in Faces, ~(IsAppFace(g) /\ AppOf(g) \in Producers)
      PROVE  /\ Unanswered(g) = Cardinality(SentOver(g))
             /\ Unanswered(g)' = Cardinality(SentOver(g)')
  <2>1. UnansweredFact(g)'
    BY <1>1, <1>2, NextUnanswered
  <2> QED
    BY <1>1, <1>4, <1>7, <2>1, UnansweredCounts DEF UnansweredFact
\* An Interest that is sent nowhere.
<1>8. ASSUME NEW x, SetEntry(n, x), x.out \subseteq e.out, NEW keys, Trace(keys),
             \A k \in keys : k[1] \in Nat /\ k[2] \notin OtherRows \cup {"OutSatisfied", "OutTimedOut", "InData"},
             \/ UNCHANGED deliveries
             \/ \E kind \in {"Nack", "Data"} : deliveries' = deliveries \o Schedule(kind, {f}, n)
      PROVE  /\ FaceCounts' /\ StartedOnce' /\ IsFiniteSet(DOMAIN pit')
             /\ Trace(keys) /\ PacketKeys(keys)
  <2>1. \A g : SentOver(g)' \subseteq SentOver(g)
    BY <1>3, <1>8, SentOverSet
  <2>2. ASSUME NEW g \in Faces
        PROVE  Cardinality(SentOver(g)') <= Cardinality(SentOver(g)) /\ Cardinality(SentOver(g)') \in Nat
    BY <1>5, <2>1, AtMostOneMore
  <2>3. ASSUME NEW g \in Faces
        PROVE  Unanswered(g)' <= Unanswered(g)
    <3>1. CASE IsAppFace(g) /\ AppOf(g) \in Producers
      <4>1. CASE UNCHANGED deliveries
        BY <1>5, <1>6, <3>1, <4>1
      <4>2. ASSUME NEW kind \in {"Nack", "Data"}, deliveries' = deliveries \o Schedule(kind, {f}, n)
            PROVE  Unanswered(g)' <= Unanswered(g)
        <5>1. g \in DOMAIN faceTable /\ {f} \in SUBSET DOMAIN faceTable /\ kind \in {"Interest", "Nack", "Data"}
          BY <3>1 DEF IsAppFace
        <5>2. /\ Cardinality(Matches(deliveries \o Schedule(kind, {f}, n), Requests(AppOf(g))))
                   <= Cardinality(Matches(deliveries, Requests(AppOf(g)))) + One(kind = "Interest" /\ g \in {f})
              /\ Cardinality(Matches(deliveries, Requests(AppOf(g)))) \in Nat
          BY <1>1, <3>1, <5>1, AddedMatches
        <5> QED
          BY <1>6, <3>1, <4>2, <5>2 DEF One
      <4> QED
        BY <1>8, <4>1, <4>2
    <3>2. CASE ~(IsAppFace(g) /\ AppOf(g) \in Producers)
      BY <1>7, <2>2, <3>2
    <3> QED
      BY <3>1, <3>2
  <2>5. ASSUME NEW g \in Faces
        PROVE  /\ Cardinality(SentOver(g)') + One(<<g, "OutSatisfied">> \in keys) + One(<<g, "OutTimedOut">> \in keys)
                    <= Cardinality(SentOver(g)) + One(<<g, "OutInterests">> \in keys)
               /\ Unanswered(g)' + One(<<g, "InData">> \in keys)
                    <= Unanswered(g) + One(<<g, "OutInterests">> \in keys)
    <3>1. <<g, "OutSatisfied">> \notin keys /\ <<g, "OutTimedOut">> \notin keys /\ <<g, "InData">> \notin keys
      BY <1>8
    <3>2. Unanswered(g)' \in Nat
      BY <1>1, <1>2, NextUnanswered DEF UnansweredFact
    <3> QED
      BY <1>5, <2>2, <2>3, <3>1, <3>2 DEF One
  <2>6. FaceCounts'
    BY <1>1, <1>2, <1>8, <2>5, CountsMove
  <2>7. StartedOnce'
    <3>1. \A d \in Range(deliveries') : m_face[d[1]] # INVALID_FACEID
      <4>1. CASE UNCHANGED deliveries
        BY <4>1 DEF StartedOnce
      <4>2. ASSUME NEW kind \in {"Nack", "Data"}, deliveries' = deliveries \o Schedule(kind, {f}, n)
            PROVE  \A d \in Range(deliveries') : m_face[d[1]] # INVALID_FACEID
        <5>1. Schedule(kind, {f}, n) \in Seq(Deliveries)
          BY <1>1, ScheduleLists
        <5>2. Range(deliveries') = Range(deliveries) \cup Range(Schedule(kind, {f}, n))
          BY <1>1, <4>2, <5>1, RangeConcat
        <5>3. \A d \in Range(Schedule(kind, {f}, n)) : m_face[d[1]] # INVALID_FACEID
          BY <1>1, ScheduleMatches
        <5> QED
          BY <5>2, <5>3 DEF StartedOnce
      <4> QED
        BY <1>8, <4>1, <4>2
    <3> QED
      BY <1>4, <3>1 DEF StartedOnce
  <2> QED
    BY <1>2, <1>8, <2>6, <2>7 DEF PacketKeys
<1>9. CASE /\ Known(n)
           /\ SetEntry(n, [e EXCEPT !.in = @ \cup {f}])
           /\ Trace({<<f, "InInterests">>})
           /\ UNCHANGED deliveries
  <2>1. [e EXCEPT !.in = @ \cup {f}].out \subseteq e.out
    BY DEF Entry
  <2> DEFINE keys == {<<f, "InInterests">>}
  <2>2. \A k \in keys : k[1] \in Nat /\ k[2] \notin OtherRows \cup {"OutSatisfied", "OutTimedOut", "InData"}
    BY FacesAreNumbers DEF OtherRows
  <2> HIDE DEF keys, e
  <2>3. Trace(keys)
    BY <1>9 DEF keys
  <2> QED
    BY <1>8, <1>9, <2>1, <2>2, <2>3
<1>10. ASSUME NEW to \in Forwarded(f, n),
             SetEntry(n, [in |-> e.in \cup {f}, out |-> e.out \cup to]),
             Trace({<<f, "InInterests">>} \cup (to \X {"OutInterests"})),
             deliveries' = deliveries \o Schedule("Interest", to, n)
       PROVE  /\ FaceCounts' /\ StartedOnce' /\ IsFiniteSet(DOMAIN pit')
              /\ \E keys : Trace(keys) /\ PacketKeys(keys)
  <2> DEFINE keys == {<<f, "InInterests">>} \cup (to \X {"OutInterests"})
  <2>1. to \subseteq DOMAIN faceTable
    BY ForwardedFaces
  <2>2. /\ \A k \in keys : k[1] \in Nat /\ k[2] \notin OtherRows \cup {"OutSatisfied", "OutTimedOut", "InData"}
        /\ \A g : <<g, "OutInterests">> \in keys <=> g \in to
    BY <2>1, FacesAreNumbers DEF OtherRows
  <2> HIDE DEF keys
  <2>3. ASSUME NEW g \in Faces
        PROVE  /\ Cardinality(SentOver(g)') <= Cardinality(SentOver(g)) + One(g \in to)
               /\ Cardinality(SentOver(g)') \in Nat
    <3>1. SentOver(g)' \subseteq SentOver(g) \cup {n} /\ (g \notin to => SentOver(g)' \subseteq SentOver(g))
      <4>1. SentOver(g)' = IF g \in e.out \cup to THEN SentOver(g) \cup {n} ELSE SentOver(g) \ {n}
        BY <1>10, SentOverSet
      <4> QED
        BY <1>3, <4>1
    <3> QED
      BY <1>5, <3>1, AtMostOneMore DEF One
  <2>4. ASSUME NEW g \in Faces
        PROVE  Unanswered(g)' <= Unanswered(g) + One(g \in to)
    <3>1. CASE IsAppFace(g) /\ AppOf(g) \in Producers
      <4>1. g \in DOMAIN faceTable
        BY <3>1 DEF IsAppFace
      <4>2. Cardinality(Matches(deliveries \o Schedule("Interest", to, n), Requests(AppOf(g))))
              <= Cardinality(Matches(deliveries, Requests(AppOf(g)))) + One("Interest" = "Interest" /\ g \in to)
        BY <1>1, <2>1, <3>1, <4>1, AddedMatches
      <4> QED
        BY <1>6, <1>10, <3>1, <4>2 DEF One
    <3>2. CASE ~(IsAppFace(g) /\ AppOf(g) \in Producers)
      BY <1>7, <2>3, <3>2
    <3> QED
      BY <3>1, <3>2
  <2>6. ASSUME NEW g \in Faces
        PROVE  /\ Cardinality(SentOver(g)') + One(<<g, "OutSatisfied">> \in keys) + One(<<g, "OutTimedOut">> \in keys)
                    <= Cardinality(SentOver(g)) + One(<<g, "OutInterests">> \in keys)
               /\ Unanswered(g)' + One(<<g, "InData">> \in keys)
                    <= Unanswered(g) + One(<<g, "OutInterests">> \in keys)
    <3>1. /\ <<g, "OutSatisfied">> \notin keys /\ <<g, "OutTimedOut">> \notin keys /\ <<g, "InData">> \notin keys
          /\ (<<g, "OutInterests">> \in keys <=> g \in to)
      BY <2>2
    <3>2. Unanswered(g)' \in Nat
      BY <1>1, <1>2, NextUnanswered DEF UnansweredFact
    <3> QED
      BY <1>5, <2>3, <2>4, <3>1, <3>2 DEF One
  <2>7. Trace(keys)
    BY <1>10 DEF keys
  <2>8. FaceCounts'
    BY <1>1, <1>2, <2>6, <2>7, CountsMove
  <2>9. StartedOnce'
    <3>1. Schedule("Interest", to, n) \in Seq(Deliveries)
      BY <1>1, <2>1, ScheduleLists
    <3>2. Range(deliveries') = Range(deliveries) \cup Range(Schedule("Interest", to, n))
      BY <1>1, <1>10, <3>1, RangeConcat
    <3>3. \A d \in Range(Schedule("Interest", to, n)) : m_face[d[1]] # INVALID_FACEID
      BY <1>1, <2>1, ScheduleMatches
    <3> QED
      BY <1>4, <3>2, <3>3 DEF StartedOnce
  <2> QED
    BY <1>2, <2>2, <2>7, <2>8, <2>9 DEF PacketKeys
<1>11. CASE /\ SetEntry(n, [in |-> {}, out |-> {}])
            /\ Trace({<<f, "InInterests">>, <<f, "OutNacks">>})
            /\ deliveries' = deliveries \o Schedule("Nack", {f}, n)
  <2> DEFINE keys == {<<f, "InInterests">>, <<f, "OutNacks">>}
  <2>1. \A k \in keys : k[1] \in Nat /\ k[2] \notin OtherRows \cup {"OutSatisfied", "OutTimedOut", "InData"}
    BY FacesAreNumbers DEF OtherRows
  <2> HIDE DEF keys, e
  <2>2. Trace(keys)
    BY <1>11 DEF keys
  <2> QED
    BY <1>8, <1>11, <2>1, <2>2
<1>12. CASE /\ SetEntry(n, [in |-> {f}, out |-> {}])
            /\ Trace({<<f, "InInterests">>})
            /\ UNCHANGED deliveries
  <2> DEFINE keys == {<<f, "InInterests">>}
  <2>1. \A k \in keys : k[1] \in Nat /\ k[2] \notin OtherRows \cup {"OutSatisfied", "OutTimedOut", "InData"}
    BY FacesAreNumbers DEF OtherRows
  <2> HIDE DEF keys, e
  <2>2. Trace(keys)
    BY <1>12 DEF keys
  <2> QED
    BY <1>8, <1>12, <2>1, <2>2
<1> QED
  BY <1>9, <1>10, <1>11, <1>12 DEF ReceiveInterest

\* Data takes away one Interest that may be answered over the face it came by.
LEMMA DataIsCounted ==
  ASSUME FaceInv, ServiceInv, ServiceInv', CountTypes, StartedOnce, FaceCounts, RowsOfClass,
         NEW n \in Names \cup TraceNames, NEW f \in DOMAIN faceTable,
         NEW before \in Seq(Deliveries), ReceiveData(f, n, before),
         UNCHANGED <<faceTable, m_face, tracer>>,
         Range(before) \subseteq Range(deliveries),
         \A a : Cardinality(Matches(before, Requests(a))) <= Cardinality(Matches(deliveries, Requests(a))),
         IF IsAppFace(f) /\ AppOf(f) \in Producers
         THEN Cardinality(Matches(before, Requests(AppOf(f)))) + 1
                <= Cardinality(Matches(deliveries, Requests(AppOf(f))))
         ELSE f \in Faces => n \in SentOver(f)
  PROVE  /\ FaceCounts' /\ StartedOnce' /\ IsFiniteSet(DOMAIN pit')
         /\ \E keys : Trace(keys) /\ PacketKeys(keys)
<1>1. /\ DeliveryTypes /\ DeliveryTypes' /\ deliveries \in Seq(Deliveries)
      /\ IsFiniteSet(DOMAIN pit)
  BY DEF ServiceInv, DeliveryTypes, CountTypes
<1>2. IsFiniteSet(DOMAIN pit')
  <2>1. DOMAIN pit' \subseteq DOMAIN pit
    BY DEF ReceiveData
  <2> QED
    BY <1>1, <2>1, FS_Subset
<1>3. \A g : (IsAppFace(g) <=> IsAppFace(g)') /\ AppOf(g)' = AppOf(g)
  BY DEF IsAppFace, AppOf
<1>4. \A g \in Faces : UnansweredFact(g) /\ UnansweredFact(g)'
  BY <1>1, <1>2, UnansweredFacts, NextUnanswered
\* The Data packets that are sent.
<1>5. PICK to, keys :
        /\ to \in SUBSET DOMAIN faceTable
        /\ Trace(keys)
        /\ \A k \in keys : k[1] \in Nat /\ k[2] \notin OtherRows \cup {"OutTimedOut", "OutInterests"}
        /\ \A g \in Faces : <<g, "InData">> \in keys => g = f
        /\ \A g \in Faces : <<g, "OutSatisfied">> \in keys => n \in SentOver(g)
        /\ \A g : SentOver(g)' = SentOver(g) \ {n}
        /\ deliveries' = before \/ deliveries' = before \o Schedule("Data", to, n)
  <2>1. CASE Known(n)
    <3> DEFINE to == pit[n].in \ {f}
               keys == {<<f, "InData">>} \cup SatisfiedInterests(pit[n]) \cup (to \X {"OutData"})
    <3>1. /\ Trace(keys) /\ deliveries' = before \o Schedule("Data", to, n)
          /\ pit' = [x \in DOMAIN pit \ {n} |-> pit[x]]
      BY <2>1 DEF ReceiveData
    <3>2. to \in SUBSET DOMAIN faceTable
      BY <2>1 DEF Known, FaceInv, TableFaces
    <3>3. \A k \in keys : k[1] \in Nat /\ k[2] \notin OtherRows \cup {"OutTimedOut", "OutInterests"}
      <4>1. pit[n].in \subseteq Nat /\ pit[n].out \subseteq Nat /\ f \in Nat /\ INVALID_FACEID \in Nat
        BY <2>1, FacesAreNumbers DEF Known, FaceInv, TableFaces
      <4> QED
        BY <4>1 DEF OtherRows, SatisfiedInterests
    <3>4. \A g \in Faces : <<g, "InData">> \in keys => g = f
      BY DEF SatisfiedInterests
    <3>5. \A g \in Faces : <<g, "OutSatisfied">> \in keys => n \in SentOver(g)
      BY <2>1 DEF SatisfiedInterests, SentOver, Known
    <3>6. \A g : SentOver(g)' = SentOver(g) \ {n}
      BY <3>1, SentOverForgotten
    <3> HIDE DEF to, keys
    <3> QED
      BY <3>1, <3>2, <3>3, <3>4, <3>5, <3>6
  <2>2. CASE ~Known(n)
    <3> DEFINE keys == {<<f, "InData">>}
    <3>1. /\ Trace(keys) /\ deliveries' = before /\ pit' = pit
      BY <2>2 DEF ReceiveData
    <3>2. \A k \in keys : k[1] \in Nat /\ k[2] \notin OtherRows \cup {"OutTimedOut", "OutInterests"}
      BY FacesAreNumbers DEF OtherRows
    <3>3. \A g \in Faces : /\ <<g, "InData">> \in keys => g = f
                           /\ <<g, "OutSatisfied">> \in keys => n \in SentOver(g)
      OBVIOUS
    <3>4. \A g : SentOver(g)' = SentOver(g) \ {n}
      BY <2>2, <3>1 DEF SentOver, Known
    <3>5. {} \in SUBSET DOMAIN faceTable
      OBVIOUS
    <3> HIDE DEF keys
    <3> QED
      BY <3>1, <3>2, <3>3, <3>4, <3>5
  <2> QED
    BY <2>1, <2>2
<1>6. ASSUME NEW g \in Faces
      PROVE  /\ Cardinality(SentOver(g)') + One(n \in SentOver(g)) <= Cardinality(SentOver(g))
             /\ Cardinality(SentOver(g)') \in Nat
  <2>1. SentOver(g)' = SentOver(g) \ {n} /\ IsFiniteSet(SentOver(g))
    BY <1>4, <1>5 DEF UnansweredFact
  <2>2. SentOver(g)' \subseteq SentOver(g) /\ SentOver(g)' \subseteq SentOver(g) \ {n}
    BY <2>1
  <2> QED
    BY <2>1, <2>2, AtMostOneMore DEF One
<1>7. ASSUME NEW g \in Faces
      PROVE  Unanswered(g)' + One(g = f) <= Unanswered(g)
  <2>1. CASE IsAppFace(g) /\ AppOf(g) \in Producers
    <3>1. g \in DOMAIN faceTable
      BY <2>1 DEF IsAppFace
    <3>2. /\ Unanswered(g) = Cardinality(Matches(deliveries, Requests(AppOf(g))))
          /\ Unanswered(g)' = Cardinality(Matches(deliveries', Requests(AppOf(g))))
          /\ Unanswered(g) \in Nat /\ Unanswered(g)' \in Nat
      BY <1>3, <1>4, <2>1 DEF UnansweredFact, Matches, Requests, Deliveries
    <3>3. /\ Cardinality(Matches(before \o Schedule("Data", to, n), Requests(AppOf(g))))
               <= Cardinality(Matches(before, Requests(AppOf(g)))) + One("Data" = "Interest" /\ g \in to)
          /\ Cardinality(Matches(before, Requests(AppOf(g)))) \in Nat
      BY <1>1, <1>5, <2>1, <3>1, AddedMatches
    <3>4. Unanswered(g)' <= Cardinality(Matches(before, Requests(AppOf(g))))
      <4>1. One("Data" = "Interest" /\ g \in to) = 0
        BY DEF One
      <4>2. CASE deliveries' = before
        BY <3>2, <3>3, <4>2
      <4>3. CASE deliveries' = before \o Schedule("Data", to, n)
        BY <3>2, <3>3, <4>1, <4>3
      <4> QED
        BY <1>5, <4>2, <4>3
    <3>5. Cardinality(Matches(before, Requests(AppOf(g)))) + One(g = f) <= Unanswered(g)
      BY <2>1, <3>2, <3>3 DEF One
    <3>6. One(g = f) \in Nat
      BY DEF One
    <3> QED
      BY <3>2, <3>3, <3>4, <3>5, <3>6
  <2>2. CASE ~(IsAppFace(g) /\ AppOf(g) \in Producers)
    <3>1. Unanswered(g) = Cardinality(SentOver(g)) /\ Unanswered(g)' = Cardinality(SentOver(g)')
      BY <1>3, <1>4, <2>2 DEF UnansweredFact
    <3>2. g = f => n \in SentOver(g)
      BY <2>2
    <3>3. Cardinality(SentOver(g)) \in Nat
      BY <1>4 DEF UnansweredFact
    <3> QED
      BY <1>6, <3>1, <3>2, <3>3 DEF One
  <2> QED
    BY <2>1, <2>2
<1>8. ASSUME NEW g \in Faces
      PROVE  /\ Cardinality(SentOver(g)') + One(<<g, "OutSatisfied">> \in keys) + One(<<g, "OutTimedOut">> \in keys)
                  <= Cardinality(SentOver(g)) + One(<<g, "OutInterests">> \in keys)
             /\ Unanswered(g)' + One(<<g, "InData">> \in keys)
                  <= Unanswered(g) + One(<<g, "OutInterests">> \in keys)
  <2>1. /\ <<g, "OutTimedOut">> \notin keys /\ <<g, "OutInterests">> \notin keys
        /\ <<g, "InData">> \in keys => g = f
        /\ <<g, "OutSatisfied">> \in keys => n \in SentOver(g)
    BY <1>5
  <2>2. Unanswered(g) \in Nat /\ Unanswered(g)' \in Nat /\ Cardinality(SentOver(g)) \in Nat
    BY <1>4 DEF UnansweredFact
  <2> QED
    BY <1>6, <1>7, <2>1, <2>2 DEF One
<1>9. FaceCounts'
  BY <1>1, <1>2, <1>5, <1>8, CountsMove
<1>10. StartedOnce'
  <2>1. Schedule("Data", to, n) \in Seq(Deliveries)
    BY <1>1, <1>5, ScheduleLists
  <2>2. Range(deliveries') \subseteq Range(deliveries) \cup Range(Schedule("Data", to, n))
    <3>1. Range(before \o Schedule("Data", to, n)) = Range(before) \cup Range(Schedule("Data", to, n))
      BY <2>1, RangeConcat
    <3>2. CASE deliveries' = before
      BY <3>2
    <3>3. CASE deliveries' = before \o Schedule("Data", to, n)
      BY <3>1, <3>3
    <3> QED
      BY <1>5, <3>2, <3>3
  <2>3. \A d \in Range(Schedule("Data", to, n)) : m_face[d[1]] # INVALID_FACEID
    BY <1>1, <1>5, ScheduleMatches
  <2> QED
    BY <1>3, <2>2, <2>3 DEF StartedOnce
<1> QED
  BY <1>2, <1>5, <1>9, <1>10 DEF PacketKeys

LEMMA TimeOutIsCounted ==
  ASSUME FaceInv, ServiceInv, ServiceInv', CountTypes, StartedOnce, FaceCounts, RowsOfClass,
         NEW n, TimeOut(n)
  PROVE  /\ FaceCounts' /\ StartedOnce' /\ IsFiniteSet(DOMAIN pit')
         /\ \E keys : Trace(keys) /\ PacketKeys(keys)
<1> DEFINE keys == TimedOutInterests(pit[n])
<1>1. /\ Known(n) /\ Trace(keys) /\ pit' = [x \in DOMAIN pit \ {n} |-> pit[x]]
      /\ UNCHANGED <<faceTable, deliveries, m_face, tracer>>
  BY DEF TimeOut, appVars, scheduleVars
<1>2. /\ DeliveryTypes /\ DeliveryTypes' /\ IsFiniteSet(DOMAIN pit)
  BY DEF ServiceInv, CountTypes
<1>3. IsFiniteSet(DOMAIN pit')
  BY <1>1, <1>2, FS_Subset
<1>4. \A g : (IsAppFace(g) <=> IsAppFace(g)') /\ AppOf(g)' = AppOf(g)
  BY <1>1 DEF IsAppFace, AppOf
<1>5. \A g \in Faces : UnansweredFact(g) /\ UnansweredFact(g)'
  BY <1>2, <1>3, UnansweredFacts, NextUnanswered
<1>11. pit[n].in \subseteq Nat /\ pit[n].out \subseteq Nat /\ INVALID_FACEID \in Nat
  BY <1>1, FacesAreNumbers DEF Known, FaceInv, TableFaces
<1>6. /\ \A k \in keys : k[1] \in Nat /\ k[2] \notin OtherRows \cup {"OutSatisfied", "OutInterests", "InData"}
      /\ \A g \in Faces : <<g, "OutTimedOut">> \in keys => n \in SentOver(g)
  BY <1>1, <1>11 DEF TimedOutInterests, OtherRows, SentOver, Known
<1> HIDE DEF keys
<1>7. ASSUME NEW g \in Faces
      PROVE  /\ Cardinality(SentOver(g)') + One(n \in SentOver(g)) <= Cardinality(SentOver(g))
             /\ Cardinality(SentOver(g)') \in Nat
             /\ Unanswered(g)' <= Unanswered(g)
  <2>1. SentOver(g)' = SentOver(g) \ {n} /\ IsFiniteSet(SentOver(g))
    BY <1>1, <1>5, SentOverForgotten DEF UnansweredFact
  <2>2. SentOver(g)' \subseteq SentOver(g) /\ SentOver(g)' \subseteq SentOver(g) \ {n}
    BY <2>1
  <2>3. /\ Cardinality(SentOver(g)') + One(n \in SentOver(g)) <= Cardinality(SentOver(g))
        /\ Cardinality(SentOver(g)') \in Nat /\ Cardinality(SentOver(g)) \in Nat
    BY <2>1, <2>2, AtMostOneMore DEF One
  <2>4. CASE IsAppFace(g) /\ AppOf(g) \in Producers
    <3>1. Unanswered(g)' = Unanswered(g) /\ Unanswered(g) \in Nat
      BY <1>1, <1>4, <1>5, <2>4 DEF UnansweredFact, Matches, Requests, Deliveries
    <3> QED
      BY <2>3, <3>1
  <2>5. CASE ~(IsAppFace(g) /\ AppOf(g) \in Producers)
    <3>1. Unanswered(g)' = Cardinality(SentOver(g)') /\ Unanswered(g) = Cardinality(SentOver(g))
      BY <1>4, <1>5, <2>5 DEF UnansweredFact
    <3> QED
      BY <2>3, <3>1 DEF One
  <2> QED
    BY <2>3, <2>4, <2>5
<1>8. ASSUME NEW g \in Faces
      PROVE  /\ Cardinality(SentOver(g)') + One(<<g, "OutSatisfied">> \in keys) + One(<<g, "OutTimedOut">> \in keys)
                  <= Cardinality(SentOver(g)) + One(<<g, "OutInterests">> \in keys)
             /\ Unanswered(g)' + One(<<g, "InData">> \in keys)
                  <= Unanswered(g) + One(<<g, "OutInterests">> \in keys)
  <2>1. /\ <<g, "OutSatisfied">> \notin keys /\ <<g, "OutInterests">> \notin keys /\ <<g, "InData">> \notin keys
        /\ <<g, "OutTimedOut">> \in keys => n \in SentOver(g)
    BY <1>6
  <2>2. Unanswered(g) \in Nat /\ Unanswered(g)' \in Nat /\ Cardinality(SentOver(g)) \in Nat
    BY <1>5 DEF UnansweredFact
  <2> QED
    BY <1>7, <2>1, <2>2 DEF One
<1>9. FaceCounts'
  BY <1>1, <1>2, <1>3, <1>8, CountsMove
<1>10. StartedOnce'
  BY <1>1, <1>4 DEF StartedOnce
<1> QED
  BY <1>1, <1>3, <1>6, <1>9, <1>10 DEF PacketKeys

-----------------------------------------------------------------------------
(* Steps, with all that is counted. *)

otherCounts == <<dropped, interests, awaited>>

LEMMA RowsStay ==
  ASSUME RowInv, UNCHANGED <<rowVars, tracer, printEvents>>, UNCHANGED otherCounts, IsFiniteSet(DOMAIN pit')
  PROVE  RowInv'
<1>1. UNCHANGED <<m_stats, m_faceInfos, printed, tracer, printEvents, dropped, interests, awaited>>
  BY DEF rowVars, otherCounts
<1>2. \A k : Total(k)' = Total(k)
  BY <1>1 DEF Total
<1>3. CountTypes' /\ NothingYet' /\ RowsOfClass' /\ EventsOfPeriod'
  BY <1>1 DEF RowInv, CountTypes, NothingYet, NoTracer, RowsOfClass, EventsOfPeriod
<1>4. DelayCounts' /\ DropCounts'
  BY <1>1, <1>2 DEF RowInv, DelayCounts, DropCounts
<1> QED
  BY <1>3, <1>4 DEF RowInv

LEMMA QuietStep ==
  ASSUME CountInv, DeliveryTypes, DeliveryTypes', UNCHANGED <<rowVars, tracer, printEvents>>,
         UNCHANGED otherCounts, IsFiniteSet(DOMAIN pit'), StartedOnce',
         \A f \in Faces : /\ SentOver(f)' \subseteq SentOver(f)
                          /\ Unanswered(f)' <= Unanswered(f)
  PROVE  CountInv'
<1>1. RowInv /\ FaceCounts /\ CountTypes
  BY DEF CountInv, RowInv
<1>2. RowInv'
  BY <1>1, RowsStay
<1>3. FaceCounts'
  BY <1>1, CountsStay
<1> QED
  BY <1>2, <1>3 DEF CountInv, RowInv

\* Faces of applications that stay are the only ones.
LEMMA FacesStay ==
  ASSUME CountInv, DeliveryTypes, DeliveryTypes', UNCHANGED <<rowVars, tracer, printEvents>>,
         UNCHANGED otherCounts, UNCHANGED <<pit, deliveries, m_face>>,
         \A f : IsAppFace(f)' => IsAppFace(f) /\ AppOf(f)' = AppOf(f),
         \A f : IsAppFace(f) => IsAppFace(f)'
  PROVE  CountInv'
<1>1. StartedOnce /\ IsFiniteSet(DOMAIN pit)
  BY DEF CountInv, CountTypes
<1>2. StartedOnce'
  BY <1>1 DEF StartedOnce, IsAppFace
<1>3. ASSUME NEW f \in Faces
      PROVE  SentOver(f)' \subseteq SentOver(f) /\ Unanswered(f)' <= Unanswered(f)
  <2>1. SentOver(f)' = SentOver(f)
    BY DEF SentOver
  <2>2. UnansweredFact(f) /\ UnansweredFact(f)'
    BY <1>1, UnansweredFacts, NextUnanswered
  <2>3. Unanswered(f)' = Unanswered(f)
    BY <2>1, <2>2 DEF UnansweredFact, Matches, Requests, Deliveries
  <2> QED
    BY <2>1, <2>2, <2>3 DEF UnansweredFact
<1> QED
  BY <1>1, <1>2, <1>3, QuietStep

LEMMA InstallIsCounted ==
  ASSUME FaceInv, ServiceInv, ServiceInv', CountInv, Install
  PROVE  CountInv'
<1> DEFINE table == ManagementFaces \o RibFaces
<1>1. DOMAIN table = 1 .. 3 /\ \A f \in 1 .. 3 : table[f][1] = "internal"
  BY DEF ManagementFaces, RibFaces
<1>2. /\ CreateAndRegisterFaces(table, RibFace, RibCommands, 1 .. devices) /\ devices \in Nat
      /\ UNCHANGED <<pit, deliveries, m_face>> /\ faceTable = <<>>
      /\ UNCHANGED <<rowVars, tracer, printEvents>> /\ UNCHANGED otherCounts
  BY DEF Install, NotYetAggregated, StackInstalled, appVars, scheduleVars, boundVars, otherCounts,
         FaceInv, Numbers
<1>3. RibFace \in Nat /\ DOMAIN table \subseteq 1 .. RibFace
  BY <1>1 DEF RibFace
<1> HIDE DEF table
<1>4. \A f \in DOMAIN faceTable' : faceTable'[f][1] # "app"
  <2>1. DOMAIN faceTable' = DOMAIN table \cup (RibFace + 1) .. lastFaceId'
    BY <1>2, <1>3, RegisteredDevices
  <2>2. \A f \in DOMAIN table : faceTable'[f] = table[f]
    BY <1>2, <1>3, RegisteredDevices
  <2>3. \A f \in (RibFace + 1) .. lastFaceId' : /\ faceTable'[f][1] = "device"
                                              /\ faceTable'[f][2] \in 1 .. devices
    BY <1>2, <1>3, RegisteredDevices, Zenon
  <2> QED
    BY <1>1, <2>1, <2>2, <2>3
<1>5. (\A f : IsAppFace(f)' => IsAppFace(f) /\ AppOf(f)' = AppOf(f)) /\ \A f : IsAppFace(f) => IsAppFace(f)'
  BY <1>2, <1>4, NoDomain DEF IsAppFace
<1> QED
  BY <1>2, <1>5, FacesStay DEF ServiceInv

LEMMA UpdateIsCounted ==
  ASSUME FaceInv, ServiceInv, ServiceInv', CountInv, Update
  PROVE  CountInv'
<1>1. /\ CreateAndRegisterFaces(faceTable, lastFaceId, commands, WithoutFace)
      /\ UNCHANGED <<pit, deliveries, m_face>>
      /\ UNCHANGED <<rowVars, tracer, printEvents>> /\ UNCHANGED otherCounts
  BY DEF Update, appVars, scheduleVars, boundVars, otherCounts
<1>2. WithoutFace \in SUBSET (1 .. devices) /\ lastFaceId \in Nat /\ devices \in Nat
      /\ DOMAIN faceTable \subseteq 1 .. lastFaceId
  BY DEF WithoutFace, FaceInv, Numbers
<1>3. DOMAIN faceTable' = DOMAIN faceTable \cup (lastFaceId + 1) .. lastFaceId'
  BY <1>1, <1>2, RegisteredDevices
<1>4. \A f \in DOMAIN faceTable : faceTable'[f] = faceTable[f]
  BY <1>1, <1>2, RegisteredDevices
<1>5. \A f \in (lastFaceId + 1) .. lastFaceId' : /\ faceTable'[f][1] = "device"
                                               /\ faceTable'[f][2] \in WithoutFace
  BY <1>1, <1>2, RegisteredDevices, Zenon
<1>6. (\A f : IsAppFace(f)' => IsAppFace(f) /\ AppOf(f)' = AppOf(f)) /\ \A f : IsAppFace(f) => IsAppFace(f)'
  BY <1>3, <1>4, <1>5 DEF IsAppFace, AppOf
<1> QED
  BY <1>1, <1>6, FacesStay DEF ServiceInv

\* Nothing was sent over a face that is new, nor to an application that is started.
LEMMA OpenIsCounted ==
  ASSUME FaceInv, ServiceInv, ServiceInv', CountInv, NEW a \in Apps, OpenFace(a),
         UNCHANGED <<rowVars, tracer, printEvents>>, UNCHANGED otherCounts, UNCHANGED <<pit, deliveries>>
  PROVE  CountInv'
<1>11. PICK new : new = lastFaceId + 1
  OBVIOUS
<1>1. /\ lastFaceId \in Nat /\ DOMAIN faceTable \subseteq 1 .. lastFaceId
      /\ m_face \in [Apps -> Nat] /\ m_face[a] = INVALID_FACEID
      /\ StartedOnce /\ IsFiniteSet(DOMAIN pit) /\ DeliveryTypes /\ DeliveryTypes'
  BY DEF FaceInv, Numbers, OpenFace, CountInv, CountTypes, ServiceInv
<1>2. /\ m_face' = [m_face EXCEPT ![a] = new]
      /\ faceTable' = AddFaces(faceTable, lastFaceId, <<<<"app", a>>>>)
  BY <1>11 DEF OpenFace
<1>3. /\ DOMAIN faceTable' = DOMAIN faceTable \cup {new}
      /\ new \notin DOMAIN faceTable /\ new \in Nat /\ new # INVALID_FACEID
      /\ \A f \in DOMAIN faceTable : faceTable'[f] = faceTable[f]
      /\ faceTable'[new] = <<"app", a>>
  BY <1>1, <1>2, <1>11 DEF AddFaces, INVALID_FACEID
<1>4. /\ \A f : f # new => (IsAppFace(f)' <=> IsAppFace(f)) /\ (IsAppFace(f) => AppOf(f)' = AppOf(f))
      /\ IsAppFace(new)' /\ AppOf(new)' = a /\ ~IsAppFace(new)
  BY <1>3 DEF IsAppFace, AppOf
<1>5. \A f : IsAppFace(f) => AppOf(f) # a /\ f # INVALID_FACEID /\ AppOf(f) \in Apps
  BY <1>1, FaceNumber DEF StartedOnce, IsAppFace, DeliveryTypes
<1>6. StartedOnce'
  <2>1. \A d \in Range(deliveries) : m_face'[d[1]] # INVALID_FACEID
    <3> TAKE d \in Range(deliveries)
    <3>1. d \in Deliveries /\ d[1] \in Apps
      BY <1>1 DEF DeliveryTypes, Range, Deliveries
    <3> QED
      BY <1>1, <1>2, <1>3, <3>1 DEF StartedOnce
  <2>2. \A f \in DOMAIN faceTable' : IsAppFace(f)' => m_face'[AppOf(f)'] = f
    BY <1>1, <1>2, <1>3, <1>4, <1>5 DEF StartedOnce
  <2> QED
    BY <2>1, <2>2 DEF StartedOnce
<1>7. Matches(deliveries, Requests(a)) = {}
  BY <1>1 DEF StartedOnce, Matches, Requests, Range
<1>8. ASSUME NEW f \in Faces
      PROVE  SentOver(f)' \subseteq SentOver(f) /\ Unanswered(f)' <= Unanswered(f)
  <2>1. SentOver(f)' = SentOver(f)
    BY DEF SentOver
  <2>2. UnansweredFact(f) /\ UnansweredFact(f)'
    BY <1>1, UnansweredFacts, NextUnanswered
  <2>3. CASE f # new
    <3>1. Unanswered(f)' = Unanswered(f)
      BY <1>4, <2>1, <2>2, <2>3 DEF UnansweredFact, Matches, Requests, Deliveries
    <3> QED
      BY <2>1, <2>2, <3>1 DEF UnansweredFact
  <2>4. CASE f = new
    <3>1. SentOver(f) = {}
      BY <1>3, <2>4 DEF SentOver, FaceInv, TableFaces
    <3>2. Cardinality({}) = 0
      BY FS_EmptySet
    <3>3. Unanswered(f)' = 0
      BY <1>4, <1>7, <2>1, <2>2, <2>4, <3>1, <3>2 DEF UnansweredFact, Matches, Requests, Deliveries
    <3> QED
      BY <2>1, <2>2, <3>3 DEF UnansweredFact
  <2> QED
    BY <2>3, <2>4
<1> QED
  BY <1>1, <1>6, <1>8, QuietStep

LEMMA EndIsCounted ==
  ASSUME FaceInv, ServiceInv, ServiceInv', CountInv, NEW a \in Apps, EndApplication(a)
  PROVE  CountInv'
<1>1. /\ UNCHANGED <<rowVars, tracer, printEvents>> /\ UNCHANGED otherCounts
      /\ UNCHANGED <<deliveries, m_face>> /\ CloseFace(a)
      /\ StartedOnce /\ IsFiniteSet(DOMAIN pit) /\ DeliveryTypes /\ DeliveryTypes'
  BY DEF EndApplication, scheduleVars, boundVars, otherCounts, CountInv, CountTypes, ServiceInv
<1>2. CASE ~active[a]
  <2>1. UNCHANGED <<faceTable, pit>>
    BY <1>1, <1>2 DEF CloseFace
  <2> QED
    BY <1>1, <2>1, FacesStay DEF IsAppFace, AppOf
<1>3. CASE active[a]
  <2>11. PICK closed : closed = m_face[a]
    OBVIOUS
  <2>1. /\ faceTable' = [g \in DOMAIN faceTable \ {closed} |-> faceTable[g]]
        /\ pit' = [n \in DOMAIN pit |-> [in |-> pit[n].in \ {closed}, out |-> pit[n].out \ {closed}]]
    BY <1>1, <1>3, <2>11 DEF CloseFace, Without
  <2>2. /\ DOMAIN pit' = DOMAIN pit
        /\ \A f : SentOver(f)' = IF f = closed THEN {} ELSE SentOver(f)
    BY <2>1 DEF SentOver
  <2>3. /\ \A f : f # closed => (IsAppFace(f)' <=> IsAppFace(f)) /\ (IsAppFace(f) => AppOf(f)' = AppOf(f))
        /\ ~IsAppFace(closed)'
    BY <2>1 DEF IsAppFace, AppOf
  <2>4. StartedOnce'
    BY <1>1, <2>1, <2>3 DEF StartedOnce
  <2>5. ASSUME NEW f \in Faces
        PROVE  SentOver(f)' \subseteq SentOver(f) /\ Unanswered(f)' <= Unanswered(f)
    <3>1. UnansweredFact(f) /\ UnansweredFact(f)'
      BY <1>1, <2>2, UnansweredFacts, NextUnanswered
    <3>2. CASE f # closed
      <4>1. Unanswered(f)' = Unanswered(f)
        BY <1>1, <2>2, <2>3, <3>1, <3>2 DEF UnansweredFact, Matches, Requests, Deliveries
      <4> QED
        BY <2>2, <3>1, <4>1 DEF UnansweredFact
    <3>3. CASE f = closed
      <4>1. Cardinality({}) = 0
        BY FS_EmptySet
      <4>2. Unanswered(f)' = 0
        BY <2>2, <2>3, <3>1, <3>3, <4>1 DEF UnansweredFact
      <4> QED
        BY <2>2, <3>1, <4>2 DEF UnansweredFact
    <3> QED
      BY <3>2, <3>3
  <2> QED
    BY <1>1, <2>2, <2>4, <2>5, QuietStep
<1> QED
  BY <1>2, <1>3 DEF FaceInv, Numbers

LEMMA OthersAreCounted ==
  ASSUME ServiceInv, ServiceInv', CountInv,
         \/ Configure \/ AddDevice
         \/ \E names \in SUBSET Regions : AddRegionName(names) \/ RemoveRegionName(names)
         \/ EmptyNetworkRegionTable
         \/ \E a \in Apps : InstallApplication(a)
         \/ \E f \in DOMAIN faceTable, cost \in 0 .. 1 : ChangeRoute(f, cost)
         \/ \E s \in {"best-route", "multicast"} : InstallStrategy(s)
         \/ Tick
  PROVE  CountInv'
<1>1. /\ UNCHANGED <<rowVars, tracer, printEvents>> /\ UNCHANGED otherCounts
      /\ UNCHANGED <<faceTable, pit, deliveries, m_face>>
  BY DEF Configure, AddFaceCreateCallback, UpdateFaceCreateCallback, RemoveFaceCreateCallback,
         HelperStep, AddDevice, AddRegionName, RemoveRegionName, EmptyNetworkRegionTable,
         ChangeRegions, InstallApplication, ChangeRoute, InstallStrategy, Command, Tick,
         nodeVars, deviceVars, tableVars, appVars, scheduleVars, boundVars, otherCounts
<1>2. (\A f : IsAppFace(f)' => IsAppFace(f) /\ AppOf(f)' = AppOf(f)) /\ \A f : IsAppFace(f) => IsAppFace(f)'
  BY <1>1 DEF IsAppFace, AppOf
<1> QED
  BY <1>1, <1>2, FacesStay DEF ServiceInv

\* A command is answered over the managers' face, which is not among the faces.
LEMMA ExecuteIsCounted ==
  ASSUME ServiceInv, ServiceInv', CountInv, Execute
  PROVE  CountInv'
<1>1. PICK c : Trace(SatisfiedInterests(CommandEntry(c)))
  BY DEF Execute
<1>2. PICK keys : keys = SatisfiedInterests(CommandEntry(c))
  OBVIOUS
<1>3. /\ Trace(keys) /\ UNCHANGED <<scheduleVars, dropped>> /\ tracer' = tracer
      /\ UNCHANGED <<faceTable, pit, deliveries, m_face, interests, awaited>>
  BY <1>1, <1>2 DEF Execute, appVars, scheduleVars, boundVars
<1>4. /\ RowInv /\ FaceCounts /\ StartedOnce /\ CountTypes /\ RowsOfClass
      /\ interests \in Nat /\ IsFiniteSet(awaited) /\ IsFiniteSet(DOMAIN pit)
      /\ DeliveryTypes /\ DeliveryTypes'
  BY DEF CountInv, RowInv, CountTypes, ServiceInv
<1>5. /\ PacketKeys(keys)
      /\ \A f \in Faces : /\ <<f, "OutSatisfied">> \notin keys /\ <<f, "OutTimedOut">> \notin keys
                          /\ <<f, "OutInterests">> \notin keys /\ <<f, "InData">> \notin keys
  <2>1. From(c) \in Nat /\ InternalFace \in Nat /\ INVALID_FACEID \in Nat
    BY DEF From, RibFace, InjectFace, InternalFace, INVALID_FACEID
  <2>2. keys = {<<INVALID_FACEID, "SatisfiedInterests">>, <<From(c), "InSatisfied">>,
                <<InternalFace, "OutSatisfied">>}
    BY <1>2 DEF SatisfiedInterests, CommandEntry
  <2>3. PacketKeys(keys)
    BY <2>1, <2>2 DEF PacketKeys, OtherRows
  <2>4. \A f \in Faces : f # InternalFace
    BY DEF Faces
  <2> QED
    BY <2>2, <2>3, <2>4
<1>6. RowInv'
  <2>1. Cardinality(awaited') + interests <= Cardinality(awaited) + interests'
    <3>1. Cardinality(awaited) \in Nat
      BY <1>4, FS_CardinalityType
    <3> QED
      BY <1>3, <1>4, <3>1
  <2> QED
    BY <1>3, <1>4, <1>5, <2>1, TracedRowInv
<1>7. FaceCounts'
  <2>1. ASSUME NEW f \in Faces
        PROVE  /\ Cardinality(SentOver(f)') + One(<<f, "OutSatisfied">> \in keys) + One(<<f, "OutTimedOut">> \in keys)
                    <= Cardinality(SentOver(f)) + One(<<f, "OutInterests">> \in keys)
               /\ Unanswered(f)' + One(<<f, "InData">> \in keys)
                    <= Unanswered(f) + One(<<f, "OutInterests">> \in keys)
    <3>1. Unanswered(f)' = Unanswered(f) /\ SentOver(f)' = SentOver(f)
      BY <1>3 DEF SentOver, Unanswered, OnTheirWay, IsAppFace, AppOf
    <3>2. Cardinality(SentOver(f)) \in Nat /\ Unanswered(f) \in Nat
      BY <1>4, UnansweredIsNat
    <3> QED
      BY <1>5, <3>1, <3>2 DEF One
  <2> QED
    BY <1>3, <1>4, <2>1, CountsMove
<1>8. StartedOnce'
  BY <1>3, <1>4 DEF StartedOnce, IsAppFace, AppOf
<1> QED
  BY <1>6, <1>7, <1>8 DEF CountInv, RowInv

LEMMA PacketIsCounted ==
  ASSUME FaceInv, ServiceInv, ServiceInv', CountInv, NEW n \in Names \cup TraceNames,
         \/ \E a \in Apps : Express(a, n)
         \/ \E d \in 1 .. devices : InterestFrom(d, n) \/ DataFrom(d, n)
         \/ \E b \in Bolts : BoltAnswers(b, n)
         \/ TimeOut(n)
  PROVE  CountInv'
<1>1. /\ RowInv /\ FaceCounts /\ StartedOnce /\ CountTypes /\ RowsOfClass
      /\ interests \in Nat /\ IsFiniteSet(awaited) /\ deliveries \in Seq(Deliveries)
  BY DEF CountInv, RowInv, CountTypes, ServiceInv, DeliveryTypes
<1>2. Cardinality(awaited) \in Nat
  BY <1>1, FS_CardinalityType
<1>3. ASSUME NEW keys, Trace(keys), PacketKeys(keys), UNCHANGED <<scheduleVars, dropped>>,
             FaceCounts', StartedOnce', IsFiniteSet(DOMAIN pit'),
             \/ UNCHANGED awaited /\ (interests' = interests \/ interests' = interests + 1)
             \/ interests' = interests + 1 /\ \E x : awaited' = awaited \cup {x}
      PROVE  CountInv'
  <2>1. IsFiniteSet(awaited') /\ interests' \in Nat
        /\ Cardinality(awaited') + interests <= Cardinality(awaited) + interests'
    <3>1. CASE UNCHANGED awaited /\ (interests' = interests \/ interests' = interests + 1)
      BY <1>1, <1>2, <3>1
    <3>2. ASSUME NEW x, interests' = interests + 1, awaited' = awaited \cup {x}
          PROVE  IsFiniteSet(awaited') /\ interests' \in Nat
                 /\ Cardinality(awaited') + interests <= Cardinality(awaited) + interests'
      <4>1. IsFiniteSet(awaited') /\ Cardinality(awaited') \in Nat /\ Cardinality(awaited') <= Cardinality(awaited) + 1
        BY <1>1, <3>2, AtMostOneMore, FS_AddElement
      <4> QED
        BY <1>1, <1>2, <3>2, <4>1
    <3> QED
      BY <1>3, <3>1, <3>2
  <2>2. RowInv'
    BY <1>1, <1>3, <2>1, TracedRowInv
  <2> QED
    BY <1>3, <2>2 DEF CountInv, RowInv
<1>4. ASSUME NEW a \in Apps, Express(a, n)
      PROVE  CountInv'
  <2>1. m_face[a] \in DOMAIN faceTable
    BY <1>4 DEF Express, FaceInv, AppFaces
  <2>2. /\ ReceiveInterest(m_face[a], n) /\ UNCHANGED <<faceTable, active, m_face, tracer>>
        /\ UNCHANGED <<scheduleVars, dropped>>
        /\ interests' = interests + 1 /\ awaited' = awaited \cup {<<a, n>>}
    BY <1>4, <2>1, FaceNumber DEF Express, scheduleVars
  <2>3. /\ FaceCounts' /\ StartedOnce' /\ IsFiniteSet(DOMAIN pit')
        /\ \E keys : Trace(keys) /\ PacketKeys(keys)
    BY <1>1, <2>1, <2>2, InterestIsCounted
  <2> QED
    BY <1>3, <2>2, <2>3
<1>5. ASSUME NEW d, InterestFrom(d, n)
      PROVE  CountInv'
  <2>1. PICK f \in DOMAIN faceTable : ReceiveInterest(f, n)
    BY <1>5 DEF InterestFrom, DeviceFaces
  <2>2. /\ UNCHANGED <<faceTable, active, m_face, tracer>> /\ UNCHANGED <<scheduleVars, dropped>>
        /\ interests' = interests + 1 /\ awaited' = awaited
    BY <1>5 DEF InterestFrom, appVars, scheduleVars
  <2>3. /\ FaceCounts' /\ StartedOnce' /\ IsFiniteSet(DOMAIN pit')
        /\ \E keys : Trace(keys) /\ PacketKeys(keys)
    BY <1>1, <2>1, <2>2, InterestIsCounted
  <2> QED
    BY <1>3, <2>2, <2>3
<1>6. ASSUME NEW f \in DOMAIN faceTable, ReceiveData(f, n, deliveries), n \in SentOver(f),
             ~(IsAppFace(f) /\ AppOf(f) \in Producers),
             UNCHANGED <<faceTable, m_face, tracer>>, UNCHANGED <<scheduleVars, dropped>>,
             UNCHANGED <<awaited, interests>>
      PROVE  CountInv'
  <2>1. \A a : Cardinality(Matches(deliveries, Requests(a))) <= Cardinality(Matches(deliveries, Requests(a)))
    <3> TAKE a
    <3>1. Cardinality(Matches(deliveries, Requests(a))) \in Nat
      BY <1>1, MatchesFinite
    <3> QED
      BY <3>1
  <2>2. /\ FaceCounts' /\ StartedOnce' /\ IsFiniteSet(DOMAIN pit')
        /\ \E keys : Trace(keys) /\ PacketKeys(keys)
    BY <1>1, <1>6, <2>1, DataIsCounted
  <2> QED
    BY <1>3, <1>6, <2>2
<1>7. ASSUME NEW d, DataFrom(d, n)
      PROVE  CountInv'
  <2>1. PICK f \in DeviceFaces(d) : Known(n) /\ f \in pit[n].out /\ ReceiveData(f, n, deliveries)
    BY <1>7 DEF DataFrom
  <2>2. f \in DOMAIN faceTable /\ ~IsAppFace(f) /\ n \in SentOver(f)
    BY <2>1 DEF DeviceFaces, IsAppFace, SentOver, Known
  <2>3. /\ UNCHANGED <<faceTable, m_face, tracer>> /\ UNCHANGED <<scheduleVars, dropped>>
        /\ UNCHANGED <<awaited, interests>>
    BY <1>7 DEF DataFrom, appVars, scheduleVars, boundVars
  <2> QED
    BY <1>6, <2>1, <2>2, <2>3
<1>8. ASSUME NEW b \in Bolts, BoltAnswers(b, n)
      PROVE  CountInv'
  <2>1. m_face[b] \in DOMAIN faceTable /\ faceTable[m_face[b]] = <<"app", b>>
    BY <1>8 DEF BoltAnswers, HasInstance, FaceInv, AppFaces, Apps
  <2>2. /\ ReceiveData(m_face[b], n, deliveries) /\ n \in SentOver(m_face[b])
        /\ AppOf(m_face[b]) \notin Producers
    BY <1>8, <2>1, FaceNumber, KindsOfApplications DEF BoltAnswers, SentOver, Known, AppOf
  <2>3. /\ UNCHANGED <<faceTable, m_face, tracer>> /\ UNCHANGED <<scheduleVars, dropped>>
        /\ UNCHANGED <<awaited, interests>>
    BY <1>8 DEF BoltAnswers, appVars, scheduleVars, boundVars
  <2> QED
    BY <1>6, <2>1, <2>2, <2>3
<1>9. ASSUME TimeOut(n)
      PROVE  CountInv'
  <2>1. /\ UNCHANGED <<scheduleVars, dropped>> /\ UNCHANGED <<awaited, interests>>
    BY <1>9 DEF TimeOut, appVars, boundVars
  <2>2. /\ FaceCounts' /\ StartedOnce' /\ IsFiniteSet(DOMAIN pit')
        /\ \E keys : Trace(keys) /\ PacketKeys(keys)
    BY <1>1, <1>9, TimeOutIsCounted
  <2> QED
    BY <1>3, <2>1, <2>2
<1> QED
  BY <1>4, <1>5, <1>7, <1>8, <1>9

\* The two delays of an Interest that is not awaited any more.
LEMMA DelaysAreCounted ==
  ASSUME RowInv, NEW a, NEW n, <<a, n>> \in awaited, awaited' = awaited \ {<<a, n>>}, TraceDelays(a),
         UNCHANGED <<tracer, printEvents, dropped, interests, pit>>
  PROVE  RowInv'
<1>1. /\ CountTypes /\ IsFiniteSet(awaited) /\ interests \in Nat
  BY DEF RowInv, CountTypes
<1>2. /\ IsFiniteSet(awaited') /\ Cardinality(awaited') \in Nat /\ Cardinality(awaited) \in Nat
      /\ Cardinality(awaited') = Cardinality(awaited) - 1
  BY <1>1, FS_RemoveElement, FS_CardinalityType
<1>3. CASE tracer.class = "AppDelayTracer" /\ a \in tracer.sources
  <2> DEFINE ks == {<<a, "LastDelay">>, <<a, "FullDelay">>}
  <2>1. printed' = Plus(printed, ks) /\ UNCHANGED <<m_stats, m_faceInfos>>
    BY <1>3 DEF TraceDelays
  <2>2. \A k : k \in ks <=> k = <<a, "LastDelay">> \/ k = <<a, "FullDelay">>
    OBVIOUS
  <2> HIDE DEF ks
  <2>3. /\ DOMAIN printed' = DOMAIN printed \cup ks
        /\ \A k \in DOMAIN printed' : printed'[k] = (IF k \in DOMAIN printed THEN printed[k] ELSE 0)
                                                    + (IF k \in ks THEN 1 ELSE 0)
    BY <2>1 DEF Plus
  <2>4. \A k \in DOMAIN printed' : printed'[k] \in Nat
    BY <1>1, <2>3 DEF CountTypes
  <2>5. \A k : Total(k)' = Total(k) + One(k \in ks)
    BY <1>1, <2>1, <2>3 DEF Total, CountTypes, One
  <2>6. CountTypes'
    BY <1>1, <1>2, <2>1, <2>4 DEF CountTypes
  <2>7. NothingYet' /\ RowsOfClass' /\ EventsOfPeriod'
    BY <1>3, <2>1 DEF RowInv, NothingYet, NoTracer, RowsOfClass, EventsOfPeriod
  <2>8. DropCounts'
    BY <2>2, <2>5, <1>1, TotalIsNat DEF RowInv, DropCounts, One
  <2>9. DelayCounts'
    <3> SUFFICES ASSUME NEW c \in Consumers
                 PROVE  /\ Total(<<c, "LastDelay">>)' = Total(<<c, "FullDelay">>)'
                        /\ Total(<<c, "FullDelay">>)' + Cardinality(awaited') <= interests
      BY DEF DelayCounts
    <3>1. /\ Total(<<c, "LastDelay">>)' = Total(<<c, "LastDelay">>) + One(c = a)
          /\ Total(<<c, "FullDelay">>)' = Total(<<c, "FullDelay">>) + One(c = a)
      BY <2>2, <2>5 DEF One
    <3>2. /\ Total(<<c, "LastDelay">>) = Total(<<c, "FullDelay">>)
          /\ Total(<<c, "FullDelay">>) + Cardinality(awaited) <= interests
          /\ Total(<<c, "FullDelay">>) \in Nat
      BY <1>1, TotalIsNat DEF RowInv, DelayCounts
    <3> QED
      BY <1>1, <1>2, <3>1, <3>2 DEF One
  <2> QED
    BY <2>6, <2>7, <2>8, <2>9 DEF RowInv
<1>4. CASE ~(tracer.class = "AppDelayTracer" /\ a \in tracer.sources)
  <2>1. UNCHANGED <<m_stats, m_faceInfos, printed>>
    BY <1>4 DEF TraceDelays, rowVars
  <2>2. \A k : Total(k)' = Total(k)
    BY <2>1 DEF Total
  <2>3. CountTypes' /\ NothingYet' /\ RowsOfClass' /\ EventsOfPeriod' /\ DropCounts'
    BY <1>1, <1>2, <2>1, <2>2 DEF RowInv, CountTypes, NothingYet, NoTracer, RowsOfClass, EventsOfPeriod, DropCounts
  <2>4. DelayCounts'
    <3> SUFFICES ASSUME NEW c \in Consumers
                 PROVE  /\ Total(<<c, "LastDelay">>) = Total(<<c, "FullDelay">>)
                        /\ Total(<<c, "FullDelay">>) + Cardinality(awaited') <= interests
      BY <2>2 DEF DelayCounts
    <3>1. /\ Total(<<c, "LastDelay">>) = Total(<<c, "FullDelay">>)
          /\ Total(<<c, "FullDelay">>) + Cardinality(awaited) <= interests
          /\ Total(<<c, "FullDelay">>) \in Nat
      BY <1>1, TotalIsNat DEF RowInv, DelayCounts
    <3> QED
      BY <1>1, <1>2, <3>1
  <2> QED
    BY <2>3, <2>4 DEF RowInv
<1> QED
  BY <1>3, <1>4

LEMMA DeliverIsCounted ==
  ASSUME FaceInv, ServiceInv, ServiceInv', CountInv, Deliver
  PROVE  CountInv'
<1> DEFINE a == Head(deliveries)[1]
           kind == Head(deliveries)[2]
           n == Head(deliveries)[3]
           rest == Tail(deliveries)
<1>1. /\ RowInv /\ FaceCounts /\ StartedOnce /\ CountTypes /\ RowsOfClass
      /\ interests \in Nat /\ IsFiniteSet(awaited) /\ deliveries \in Seq(Deliveries)
      /\ IsFiniteSet(DOMAIN pit) /\ DeliveryTypes /\ DeliveryTypes'
  BY DEF CountInv, RowInv, CountTypes, ServiceInv, DeliveryTypes
<1>2. /\ deliveries # <<>> /\ UNCHANGED <<faceTable, active, m_face, tracer>>
      /\ UNCHANGED <<scheduleVars, dropped, interests>>
  BY DEF Deliver, scheduleVars, boundVars
<1>3. /\ Head(deliveries) = <<a, kind, n>> /\ a \in Apps /\ n \in Names \cup TraceNames
      /\ rest \in Seq(Deliveries) /\ <<a, kind, n>> \in Deliveries
      /\ Range(deliveries) = {<<a, kind, n>>} \cup Range(rest)
  <2>1. Head(deliveries) \in Deliveries /\ rest \in Seq(Deliveries)
        /\ Range(deliveries) = {Head(deliveries)} \cup Range(rest)
    BY <1>1, <1>2, RangeTail
  <2> QED
    BY <2>1 DEF Deliveries
<1>4. \A b : /\ Cardinality(Matches(deliveries, Requests(b))) =
                  Cardinality(Matches(rest, Requests(b))) + One(Head(deliveries) \in Requests(b))
             /\ Cardinality(Matches(rest, Requests(b))) \in Nat
             /\ Cardinality(Matches(deliveries, Requests(b))) \in Nat
  BY <1>1, <1>2, <1>3, MatchesTail, MatchesFinite DEF One
<1>5. \/ /\ kind = "Interest" /\ a \in Producers /\ Answers(a)
         /\ ReceiveData(GetId(m_face[a]), n, rest)
         /\ UNCHANGED awaited
      \/ /\ Accept(a, n)
         /\ deliveries' = rest /\ UNCHANGED pit
      \/ /\ deliveries' = rest
         /\ UNCHANGED <<pit, awaited, rowVars>>
  BY DEF Deliver
<1> HIDE DEF a, kind, n, rest
<1>6. CASE /\ kind = "Interest" /\ a \in Producers /\ Answers(a)
           /\ ReceiveData(GetId(m_face[a]), n, rest)
           /\ UNCHANGED awaited
  <2>1. m_face[a] \in DOMAIN faceTable /\ IsAppFace(m_face[a]) /\ AppOf(m_face[a]) = a
    BY <1>6 DEF Answers, FaceInv, AppFaces, Apps, IsAppFace, AppOf
  <2>2. GetId(m_face[a]) = m_face[a]
    BY <2>1, FaceNumber
  <2>3. Head(deliveries) \in Requests(a)
    BY <1>3, <1>6 DEF Requests
  <2>4. Cardinality(Matches(rest, Requests(AppOf(m_face[a])))) + 1
                <= Cardinality(Matches(deliveries, Requests(AppOf(m_face[a]))))
    BY <1>4, <2>1, <2>3 DEF One
  <2>5. \A b : Cardinality(Matches(rest, Requests(b))) <= Cardinality(Matches(deliveries, Requests(b)))
    BY <1>4 DEF One
  <2>6. Range(rest) \subseteq Range(deliveries)
    BY <1>3
  <2>7. /\ FaceCounts' /\ StartedOnce' /\ IsFiniteSet(DOMAIN pit')
        /\ \E keys : Trace(keys) /\ PacketKeys(keys)
    BY <1>1, <1>2, <1>3, <1>6, <2>1, <2>2, <2>4, <2>5, <2>6, DataIsCounted
  <2>8. Cardinality(awaited) \in Nat
    BY <1>1, FS_CardinalityType
  <2>9. RowInv'
    BY <1>1, <1>2, <1>6, <2>7, <2>8, TracedRowInv
  <2> QED
    BY <2>7, <2>9 DEF CountInv, RowInv
<1>7. ASSUME deliveries' = rest, UNCHANGED pit
      PROVE  /\ StartedOnce'
             /\ \A f \in Faces : SentOver(f)' \subseteq SentOver(f) /\ Unanswered(f)' <= Unanswered(f)
  <2>1. StartedOnce'
    BY <1>1, <1>2, <1>3, <1>7 DEF StartedOnce, IsAppFace, AppOf
  <2>2. ASSUME NEW f \in Faces
        PROVE  SentOver(f)' \subseteq SentOver(f) /\ Unanswered(f)' <= Unanswered(f)
    <3>1. SentOver(f)' = SentOver(f)
      BY <1>7 DEF SentOver
    <3>2. UnansweredFact(f) /\ UnansweredFact(f)'
      BY <1>1, <1>7, UnansweredFacts, NextUnanswered
    <3>3. (IsAppFace(f)' <=> IsAppFace(f)) /\ AppOf(f)' = AppOf(f)
      BY <1>2 DEF IsAppFace, AppOf
    <3>4. CASE IsAppFace(f) /\ AppOf(f) \in Producers
      <4>1. Unanswered(f)' = Cardinality(Matches(rest, Requests(AppOf(f))))
        BY <1>7, <3>2, <3>3, <3>4 DEF UnansweredFact, Matches, Requests, Deliveries
      <4> QED
        BY <1>4, <3>1, <3>2, <3>4, <4>1 DEF UnansweredFact, One
    <3>5. CASE ~(IsAppFace(f) /\ AppOf(f) \in Producers)
      BY <3>1, <3>2, <3>3, <3>5 DEF UnansweredFact
    <3> QED
      BY <3>4, <3>5
  <2> QED
    BY <2>1, <2>2
<1>8. CASE deliveries' = rest /\ UNCHANGED <<pit, awaited, rowVars>>
  BY <1>1, <1>2, <1>7, <1>8, QuietStep DEF otherCounts, scheduleVars
<1>9. CASE Accept(a, n) /\ deliveries' = rest /\ UNCHANGED pit
  <2>1. CASE active[a] /\ <<a, n>> \in awaited
    <3>1. awaited' = awaited \ {<<a, n>>} /\ TraceDelays(a)
      BY <1>9, <2>1 DEF Accept
    <3>2. RowInv'
      BY <1>1, <1>2, <1>9, <2>1, <3>1, DelaysAreCounted DEF scheduleVars
    <3>3. FaceCounts'
      <4>1. CASE tracer.class = "AppDelayTracer"
        BY <1>2, <4>1 DEF FaceCounts
      <4>2. CASE tracer.class # "AppDelayTracer"
        <5>1. UNCHANGED rowVars
          BY <3>1, <4>2 DEF TraceDelays
        <5> QED
          BY <1>1, <1>2, <1>7, <1>9, <5>1, CountsStay
      <4> QED
        BY <4>1, <4>2
    <3> QED
      BY <1>7, <1>9, <3>2, <3>3 DEF CountInv, RowInv
  <2>2. CASE ~(active[a] /\ <<a, n>> \in awaited)
    BY <1>8, <1>9, <2>2 DEF Accept
  <2> QED
    BY <2>1, <2>2
<1> QED
  BY <1>5, <1>6, <1>8, <1>9

LEMMA DropIsCounted ==
  ASSUME CountInv, NEW d, Drop(d)
  PROVE  CountInv'
<1>1. /\ RowInv /\ FaceCounts /\ StartedOnce /\ CountTypes
      /\ UNCHANGED <<tracer, printEvents, interests, awaited, pit, faceTable, deliveries, m_face>>
      /\ TraceDrop(d)
      /\ dropped' = IF tracer.class = "L2RateTracer" /\ d \in tracer.sources THEN dropped + 1 ELSE dropped
  BY DEF CountInv, RowInv, Drop, nodeVars, tableVars, appVars, scheduleVars
<1>2. StartedOnce'
  BY <1>1 DEF StartedOnce, IsAppFace, AppOf
<1>3. CASE tracer.class = "L2RateTracer" /\ d \in tracer.sources
  <2> DEFINE key == <<INVALID_FACEID, "Drop">>
  <2>1. m_stats' = Plus(m_stats, {key}) /\ UNCHANGED <<m_faceInfos, printed>> /\ dropped' = dropped + 1
    BY <1>1, <1>3 DEF TraceDrop
  <2> HIDE DEF key
  <2>2. /\ DOMAIN m_stats' = DOMAIN m_stats \cup {key}
        /\ \A k \in DOMAIN m_stats' : m_stats'[k] = (IF k \in DOMAIN m_stats THEN m_stats[k] ELSE 0)
                                                    + (IF k \in {key} THEN 1 ELSE 0)
    BY <2>1 DEF Plus
  <2>3. \A k \in DOMAIN m_stats' : m_stats'[k] \in Nat
    BY <1>1, <2>2 DEF CountTypes
  <2>4. \A k : Total(k)' = Total(k) + One(k = key)
    BY <1>1, <2>1, <2>2 DEF Total, CountTypes, One
  <2>5. CountTypes' /\ NothingYet' /\ RowsOfClass' /\ EventsOfPeriod' /\ FaceCounts'
    <3>1. CountTypes'
      BY <1>1, <2>1, <2>3 DEF CountTypes
    <3>2. NothingYet' /\ EventsOfPeriod' /\ FaceCounts'
      BY <1>1, <1>3 DEF RowInv, NothingYet, NoTracer, EventsOfPeriod, FaceCounts
    <3>3. RowsOfClass'
      BY <1>1, <1>3, <2>1 DEF RowInv, RowsOfClass
    <3> QED
      BY <3>1, <3>2, <3>3
  <2>6. DropCounts'
    BY <1>1, <2>1, <2>4, TotalIsNat DEF RowInv, DropCounts, One, key
  <2>7. \A a : Total(<<a, "LastDelay">>)' = Total(<<a, "LastDelay">>)
               /\ Total(<<a, "FullDelay">>)' = Total(<<a, "FullDelay">>)
    <3> TAKE a
    <3>1. <<a, "LastDelay">> # key /\ <<a, "FullDelay">> # key
      BY DEF key
    <3>2. Total(<<a, "LastDelay">>) \in Nat /\ Total(<<a, "FullDelay">>) \in Nat
      BY <1>1, TotalIsNat
    <3> QED
      BY <2>4, <3>1, <3>2 DEF One
  <2>8. DelayCounts'
    BY <1>1, <2>7 DEF RowInv, DelayCounts
  <2> QED
    BY <1>2, <2>5, <2>6, <2>8 DEF CountInv
<1>4. CASE ~(tracer.class = "L2RateTracer" /\ d \in tracer.sources)
  <2>1. UNCHANGED rowVars /\ dropped' = dropped
    BY <1>1, <1>4 DEF TraceDrop
  <2>2. RowInv'
    BY <1>1, <2>1, RowsStay DEF otherCounts, CountTypes
  <2>3. FaceCounts'
    <3>1. \A f : /\ Unanswered(f)' = Unanswered(f) /\ SentOver(f)' = SentOver(f)
                 /\ Unseen(f)' = Unseen(f)
      BY <1>1 DEF SentOver, Unanswered, OnTheirWay, IsAppFace, AppOf, Unseen
    <3>2. \A k : Total(k)' = Total(k)
      BY <2>1 DEF Total, rowVars
    <3> QED
      BY <1>1, <3>1, <3>2 DEF FaceCounts
  <2> QED
    BY <1>2, <2>2, <2>3 DEF CountInv, RowInv
<1> QED
  BY <1>3, <1>4

\* What is printed stays in the totals, and the next event is a period later.
LEMMA PrintIsCounted ==
  ASSUME CountInv, PrintPeriod
  PROVE  CountInv'
<1>1. /\ CountTypes /\ NothingYet /\ RowsOfClass /\ EventsOfPeriod /\ FaceCounts /\ DelayCounts
      /\ DropCounts /\ StartedOnce
      /\ UNCHANGED <<m_faceInfos, dropped, interests, awaited, pit, faceTable, deliveries, m_face>>
      /\ now \in printEvents /\ printed' = Added(printed, m_stats)
      /\ m_stats' = [k \in DOMAIN m_stats |-> 0] /\ tracer' = [tracer EXCEPT !.reset = now]
      /\ printEvents' = (printEvents \ {now}) \cup {now + tracer.period}
  BY DEF CountInv, PrintPeriod, PeriodicPrinter, PrintRows, ResetRows, nodeVars, tableVars, appVars, boundVars
<1>2. tracer' = [class |-> tracer.class, period |-> tracer.period, reset |-> now,
                 sources |-> tracer.sources, pending |-> tracer.pending]
  BY <1>1 DEF CountTypes
<1>3. /\ tracer'.class = tracer.class /\ tracer'.period = tracer.period /\ tracer'.reset = now
      /\ tracer'.sources = tracer.sources /\ tracer'.pending = tracer.pending
  BY <1>2
<1>4. /\ DOMAIN printed' = DOMAIN printed \cup DOMAIN m_stats
      /\ \A k \in DOMAIN printed' : printed'[k] = (IF k \in DOMAIN printed THEN printed[k] ELSE 0)
                                                  + (IF k \in DOMAIN m_stats THEN m_stats[k] ELSE 0)
      /\ \A k \in DOMAIN m_stats' : m_stats'[k] = 0
  BY <1>1 DEF Added
<1>5. \A k \in DOMAIN printed' : printed'[k] \in Nat
  BY <1>1, <1>4 DEF CountTypes
<1>6. \A k : Total(k)' = Total(k)
  <2> TAKE k
  <2>1. \A j \in DOMAIN m_stats : m_stats[j] \in Nat
    BY <1>1 DEF CountTypes
  <2>2. \A j \in DOMAIN printed : printed[j] \in Nat
    BY <1>1 DEF CountTypes
  <2> QED
    BY <1>1, <1>4, <2>1, <2>2 DEF Total
\* A tracer that has events has a class.
<1>7. tracer.class # "none"
  BY <1>1 DEF CountTypes, NothingYet
<1>8. CountTypes'
  BY <1>1, <1>2, <1>3, <1>4, <1>5, <1>7 DEF CountTypes
<1>9. NothingYet' /\ RowsOfClass'
  BY <1>1, <1>3, <1>4, <1>7 DEF NothingYet, NoTracer, RowsOfClass
<1>10. EventsOfPeriod'
  BY <1>1, <1>3 DEF EventsOfPeriod
<1>11. FaceCounts'
  <2>1. \A f : /\ Unanswered(f)' = Unanswered(f) /\ SentOver(f)' = SentOver(f)
               /\ Unseen(f)' = Unseen(f)
    BY <1>1, <1>3 DEF SentOver, Unanswered, OnTheirWay, IsAppFace, AppOf, Unseen
  <2> QED
    BY <1>1, <1>3, <1>6, <2>1 DEF FaceCounts
<1>12. DelayCounts' /\ DropCounts' /\ StartedOnce'
  BY <1>1, <1>6 DEF DelayCounts, DropCounts, StartedOnce, IsAppFace, AppOf
<1> QED
  BY <1>8, <1>9, <1>10, <1>11, <1>12 DEF CountInv

\* The Interests that the tracer has not seen are those that may be answered yet.
LEMMA InstallTracerIsCounted ==
  ASSUME FaceInv, StoppedFaces, ServiceInv, CountInv, NEW class, NEW period, InstallTracer(class, period)
  PROVE  CountInv'
<1>1. /\ CountTypes /\ NothingYet /\ DelayCounts /\ DropCounts /\ StartedOnce /\ DeliveryTypes
      /\ tracer = NoTracer /\ IsFiniteSet(awaited) /\ interests \in Nat
      /\ UNCHANGED <<m_faceInfos, printed, dropped, interests, awaited, pit, faceTable, deliveries, m_face>>
  BY DEF CountInv, CountTypes, ServiceInv, InstallTracer, TracerInstalled, InstallL3RateTracer,
         InstallL3HopDelayTracer, InstallAppDelayTracer, InstallCsTracer, InstallL2RateTracer,
         rowVars, nodeVars, tableVars, appVars, boundVars
<1>2. /\ m_stats = <<>> /\ printed = <<>> /\ m_faceInfos = {} /\ printEvents = {} /\ dropped = 0
  BY <1>1 DEF NothingYet
<1>3. /\ \A k \in DOMAIN m_stats' : m_stats'[k] = 0
      /\ DOMAIN printed' = {}
  BY <1>2, NoDomain DEF InstallTracer, InstallL3RateTracer, InstallL3HopDelayTracer, InstallAppDelayTracer,
     InstallCsTracer, InstallL2RateTracer, rowVars
<1>4. \A k : Total(k)' = 0
  BY <1>3 DEF Total
<1>5. PICK reset, p, sources, pending :
        /\ tracer' = [class |-> class, period |-> p, reset |-> reset, sources |-> sources, pending |-> pending]
        /\ class \in {"L3RateTracer", "L3HopDelayTracer", "AppDelayTracer", "CsTracer", "L2RateTracer"}
        /\ class \in {"L3RateTracer", "L3HopDelayTracer"} => pending = Pending
        /\ pending = Pending \/ pending = <<>>
        /\ printEvents' = {reset + p} \/ printEvents' = {}
  BY <1>2 DEF InstallTracer, InstallL3RateTracer, InstallL3HopDelayTracer, InstallAppDelayTracer,
     InstallCsTracer, InstallL2RateTracer, Connected, SetAveragingPeriod
<1>6. /\ tracer'.class = class /\ tracer'.period = p /\ tracer'.reset = reset
      /\ tracer'.sources = sources /\ tracer'.pending = pending /\ class # "none"
  BY <1>5
<1>7. \A f : Unanswered(f) \in Nat
  BY <1>1, UnansweredIsNat DEF CountTypes
<1>8. \A f \in DOMAIN pending : pending[f] \in Nat
  BY <1>5, <1>7, NoDomain DEF Pending
<1>9. CountTypes'
  BY <1>1, <1>3, <1>5, <1>6, <1>8 DEF CountTypes
<1>10. NothingYet' /\ RowsOfClass' /\ EventsOfPeriod'
  BY <1>1, <1>2, <1>3, <1>5, <1>6 DEF NothingYet, NoTracer, RowsOfClass, EventsOfPeriod
<1>11. FaceCounts'
  <2> SUFFICES ASSUME NEW f \in Faces, class \in {"L3RateTracer", "L3HopDelayTracer"}
               PROVE  Cardinality(SentOver(f)) <= Unseen(f)' /\ Unanswered(f) <= Unseen(f)'
    <3> SUFFICES ASSUME NEW f \in Faces, class \in {"L3RateTracer", "L3HopDelayTracer"}
                 PROVE  /\ Total(<<f, "OutSatisfied">>)' + Total(<<f, "OutTimedOut">>)' + Cardinality(SentOver(f)')
                             <= Total(<<f, "OutInterests">>)' + Unseen(f)'
                        /\ Total(<<f, "InData">>)' + Unanswered(f)' <= Total(<<f, "OutInterests">>)' + Unseen(f)'
      BY <1>6 DEF FaceCounts, Faces
    <3>1. Unanswered(f)' = Unanswered(f) /\ SentOver(f)' = SentOver(f)
      BY <1>1 DEF SentOver, Unanswered, OnTheirWay, IsAppFace, AppOf
    <3>2. Cardinality(SentOver(f)) \in Nat /\ Unanswered(f) \in Nat
      BY <1>1, UnansweredIsNat DEF CountTypes
    <3>3. Unseen(f)' \in Nat
      BY <1>6, <1>8 DEF Unseen
    <3>4. /\ Total(<<f, "OutSatisfied">>)' = 0 /\ Total(<<f, "OutTimedOut">>)' = 0
          /\ Total(<<f, "OutInterests">>)' = 0 /\ Total(<<f, "InData">>)' = 0
      BY <1>4
    <3> QED
      BY <3>1, <3>2, <3>3, <3>4
  <2>1. Cardinality(SentOver(f)) <= Unanswered(f) /\ Unanswered(f) \in Nat
        /\ Cardinality(SentOver(f)) \in Nat
    BY <1>1, SentIsUnanswered, UnansweredIsNat DEF CountTypes, Faces
  <2>2. CASE f \in DOMAIN faceTable
    <3>1. Unseen(f)' = Unanswered(f)
      BY <1>5, <1>6, <2>2 DEF Unseen, Pending
    <3> QED
      BY <2>1, <3>1
  <2>3. CASE f \notin DOMAIN faceTable
    <3>1. SentOver(f) = {} /\ ~IsAppFace(f)
      BY <2>3 DEF SentOver, FaceInv, TableFaces, IsAppFace
    <3>2. Cardinality(SentOver(f)) = 0
      BY <3>1, FS_EmptySet
    <3>3. Unanswered(f) = 0
      BY <1>1, <3>1, <3>2, UnansweredCounts
    <3>4. Unseen(f)' \in Nat
      BY <1>6, <1>8 DEF Unseen
    <3> QED
      BY <3>2, <3>3, <3>4
  <2> QED
    BY <2>2, <2>3
<1>12. DelayCounts'
  <2>1. Cardinality(awaited) \in Nat /\ awaited' = awaited /\ interests' = interests
    BY <1>1, FS_CardinalityType
  <2> SUFFICES ASSUME NEW a \in Consumers
               PROVE  /\ Total(<<a, "LastDelay">>)' = Total(<<a, "FullDelay">>)'
                      /\ Total(<<a, "FullDelay">>)' + Cardinality(awaited) <= interests
    BY <2>1 DEF DelayCounts
  <2>2. Total(<<a, "FullDelay">>) + Cardinality(awaited) <= interests
    BY <1>1 DEF DelayCounts
  <2>3. Total(<<a, "FullDelay">>) = 0
    BY <1>2, NoDomain DEF Total
  <2>4. Total(<<a, "FullDelay">>)' = 0 /\ Total(<<a, "LastDelay">>)' = 0
    BY <1>4
  <2> QED
    BY <2>2, <2>3, <2>4
<1>13. DropCounts' /\ StartedOnce'
  BY <1>1, <1>2, <1>4 DEF DropCounts, StartedOnce, IsAppFace, AppOf
<1> QED
  BY <1>9, <1>10, <1>11, <1>12, <1>13 DEF CountInv

LEMMA CountInit == Init => CountInv
<1> SUFFICES ASSUME Init
             PROVE  CountInv
  OBVIOUS
<1>1. /\ tracer = NoTracer /\ printEvents = {} /\ m_stats = <<>> /\ m_faceInfos = {} /\ printed = <<>>
      /\ faceTable = <<>> /\ pit = <<>> /\ deliveries = <<>> /\ awaited = {} /\ dropped = 0 /\ interests = 0
  BY DEF Init, TracerInit
<1>2. IsFiniteSet({}) /\ Cardinality({}) = 0
  BY FS_EmptySet
<1>3. \A k : Total(k) = 0
  BY <1>1, NoDomain DEF Total
<1>4. CountTypes
  BY <1>1, <1>2, NoDomain DEF CountTypes, NoTracer
<1>5. NothingYet /\ RowsOfClass /\ EventsOfPeriod /\ FaceCounts
  BY <1>1 DEF NothingYet, RowsOfClass, EventsOfPeriod, FaceCounts, NoTracer
<1>6. DelayCounts /\ DropCounts
  BY <1>1, <1>2, <1>3 DEF DelayCounts, DropCounts
<1>7. StartedOnce
  BY <1>1, NoDomain DEF StartedOnce, Range
<1> QED
  BY <1>4, <1>5, <1>6, <1>7 DEF CountInv

LEMMA CountStep ==
  FaceInv /\ RouteInv /\ ServiceInv /\ ServiceInv' /\ CountInv /\ [Next]_vars => CountInv'
<1> SUFFICES ASSUME FaceInv, RouteInv, ServiceInv, ServiceInv', CountInv, [Next]_vars
             PROVE  CountInv'
  OBVIOUS
<1>1. CASE UNCHANGED vars
  <2>1. /\ UNCHANGED <<rowVars, tracer, printEvents>> /\ UNCHANGED otherCounts
        /\ UNCHANGED <<faceTable, pit, deliveries, m_face>>
    BY <1>1 DEF vars, nodeVars, tableVars, appVars, scheduleVars, boundVars, otherCounts
  <2>2. (\A f : IsAppFace(f)' => IsAppFace(f) /\ AppOf(f)' = AppOf(f)) /\ \A f : IsAppFace(f) => IsAppFace(f)'
    BY <2>1 DEF IsAppFace, AppOf
  <2> QED
    BY <2>1, <2>2, FacesStay DEF ServiceInv
<1>2. ASSUME NEW a \in Apps, StartApplication(a) \/ StopApplication(a) \/ StartBolt(a) \/ StopBolt(a)
      PROVE  CountInv'
  <2>1. CASE StartApplication(a) \/ StartBolt(a)
    <3>1. /\ OpenFace(a) /\ UNCHANGED <<rowVars, tracer, printEvents>> /\ UNCHANGED otherCounts
          /\ UNCHANGED <<pit, deliveries>>
      BY <2>1 DEF StartApplication, StartBolt, scheduleVars, boundVars, otherCounts
    <3> QED
      BY <3>1, OpenIsCounted
  <2>2. CASE StopApplication(a) \/ StopBolt(a)
    BY <2>2, EndIsCounted DEF StopApplication, StopBolt
  <2> QED
    BY <1>2, <2>1, <2>2
<1>3. Bolts \subseteq Apps /\ StoppedFaces
  BY DEF Apps, RouteInv
<1>4. ASSUME NEW class, NEW period, InstallTracer(class, period)
      PROVE  CountInv'
  BY <1>3, <1>4, InstallTracerIsCounted
<1>5. ASSUME NEW n \in Names \cup TraceNames,
             \/ \E a \in Apps : Express(a, n)
             \/ \E d \in 1 .. devices : InterestFrom(d, n) \/ DataFrom(d, n)
             \/ \E b \in Bolts : BoltAnswers(b, n)
             \/ TimeOut(n)
      PROVE  CountInv'
  BY <1>5, PacketIsCounted
<1>6. ASSUME Install \/ Update \/ Execute \/ Deliver \/ PrintPeriod \/ \E d \in 1 .. devices : Drop(d)
      PROVE  CountInv'
  BY <1>6, InstallIsCounted, UpdateIsCounted, ExecuteIsCounted, DeliverIsCounted, PrintIsCounted, DropIsCounted
<1>7. ASSUME Next
      PROVE  CountInv'
  BY <1>2, <1>3, <1>4, <1>5, <1>6, <1>7, OthersAreCounted DEF Next
<1> QED
  BY <1>1, <1>7

-----------------------------------------------------------------------------
(* The rows of the managers' faces. *)

\* No packet goes to the managers, and none comes by the faces that commands come by.
ManagersApart ==
  /\ \A h \in fib : h.face = InternalFace => h.prefix = Management
  /\ \A n \in DOMAIN pit : /\ InternalFace \notin pit[n].out
                           /\ InjectFace \notin pit[n].in /\ RibFace \notin pit[n].in

ManagerInv == ManagersApart /\ CommandsHonest

ManagerRows == {<<InternalFace, "OutInterests">>, <<InternalFace, "OutSatisfied">>,
                <<InjectFace, "InSatisfied">>, <<RibFace, "InSatisfied">>}

LEMMA ManagerTotalsStay ==
  ASSUME CommandsHonest, \A k \in ManagerRows : Total(k)' = Total(k)
  PROVE  CommandsHonest'
  BY DEF CommandsHonest, ManagerRows

\* Packets that are not of the managers.
LEMMA TracedApart ==
  ASSUME CountTypes, RowsOfClass, CommandsHonest, NEW keys, Trace(keys), UNCHANGED tracer,
         keys \cap ManagerRows = {}
  PROVE  CommandsHonest'
<1> SUFFICES ASSUME NEW k \in ManagerRows
             PROVE  Total(k)' = Total(k)
  BY ManagerTotalsStay
<1>1. k \notin keys /\ Total(k) \in Nat
  BY TotalIsNat
<1>2. CASE tracer.class \in {"L3RateTracer", "L3HopDelayTracer"}
  BY <1>1, <1>2, TracedTotals
<1>3. CASE tracer.class \notin {"L3RateTracer", "L3HopDelayTracer"}
  BY <1>3, TracedTotals DEF rowVars, Total
<1> QED
  BY <1>2, <1>3

\* Steps without packets: routes go, or are those of applications and devices.
LEMMA ManagersStay ==
  ASSUME ManagerInv, UNCHANGED rowVars,
         \A h \in fib' : h \in fib \/ h = ManagementRoute,
         \A n \in DOMAIN pit' : /\ n \in DOMAIN pit /\ pit'[n].in \subseteq pit[n].in
                                /\ pit'[n].out \subseteq pit[n].out
  PROVE  ManagerInv'
<1>1. \A k : Total(k)' = Total(k)
  BY DEF Total, rowVars
<1>2. CommandsHonest'
  BY <1>1, ManagerTotalsStay DEF ManagerInv
<1>3. ManagersApart'
  BY DEF ManagerInv, ManagersApart, ManagementRoute
<1> QED
  BY <1>2, <1>3 DEF ManagerInv

\* The FIB has no route to the managers for the names of packets.
LEMMA ForwardedApart ==
  ASSUME ManagerInv, NEW f, NEW n, NEW to \in Forwarded(f, n)
  PROVE  InternalFace \notin to
<1> DEFINE hops == NextHops(f, n)
<1>1. PrefixOf(n) # Management /\ Root # Management
  BY DEF PrefixOf, Prefix, TracePrefix, Root, Management
<1>2. \A h \in hops : h \in fib /\ h.prefix # Management
  BY <1>1 DEF NextHops
<1>3. \A h \in hops : h.face # InternalFace
  BY <1>2 DEF ManagerInv, ManagersApart
<1> HIDE DEF hops
<1>4. \/ to = {h.face : h \in hops}
      \/ \E h \in hops : to = {h.face}
  BY DEF Forwarded, hops
<1> QED
  BY <1>3, <1>4

LEMMA EntryApart ==
  ASSUME ManagerInv, NEW n
  PROVE  /\ InternalFace \notin Entry(n).out
         /\ InjectFace \notin Entry(n).in /\ RibFace \notin Entry(n).in
  BY DEF Entry, Known, ManagerInv, ManagersApart

LEMMA InterestApart ==
  ASSUME CountTypes, RowsOfClass, ManagerInv, NEW n, NEW f, f \notin InternalFaces,
         ReceiveInterest(f, n), UNCHANGED <<fib, tracer>>
  PROVE  ManagerInv'
<1> DEFINE e == Entry(n)
<1>1. /\ InternalFace \notin e.out /\ InjectFace \notin e.in /\ RibFace \notin e.in
      /\ InternalFace # f /\ InjectFace # f /\ RibFace # f
  BY EntryApart DEF InternalFaces
<1>2. ASSUME NEW i, NEW o, NEW keys, SetEntry(n, [in |-> i, out |-> o]), Trace(keys),
             InternalFace \notin o, InjectFace \notin i, RibFace \notin i,
             \A k \in keys : k[1] = f \/ (k[2] = "OutInterests" /\ k[1] # InternalFace)
      PROVE  ManagerInv'
  <2>1. ManagersApart'
    BY <1>2 DEF SetEntry, ManagerInv, ManagersApart
  <2>2. keys \cap ManagerRows = {}
    BY <1>1, <1>2 DEF ManagerRows
  <2> QED
    BY <1>2, <2>1, <2>2, TracedApart DEF ManagerInv
<1>3. CASE /\ Known(n)
           /\ SetEntry(n, [e EXCEPT !.in = @ \cup {f}])
           /\ Trace({<<f, "InInterests">>})
  <2>1. ManagersApart'
    BY <1>1, <1>3 DEF SetEntry, ManagerInv, ManagersApart, Entry
  <2>2. {<<f, "InInterests">>} \cap ManagerRows = {}
    BY <1>1 DEF ManagerRows
  <2> QED
    BY <1>3, <2>1, <2>2, TracedApart DEF ManagerInv
<1>4. ASSUME NEW to \in Forwarded(f, n),
             SetEntry(n, [in |-> e.in \cup {f}, out |-> e.out \cup to]),
             Trace({<<f, "InInterests">>} \cup (to \X {"OutInterests"}))
      PROVE  ManagerInv'
  <2>1. InternalFace \notin to
    BY ForwardedApart
  <2>2. PICK keys : keys = {<<f, "InInterests">>} \cup (to \X {"OutInterests"})
    OBVIOUS
  <2>3. \A k \in keys : k[1] = f \/ (k[2] = "OutInterests" /\ k[1] # InternalFace)
    BY <2>1, <2>2
  <2> HIDE DEF e
  <2>4. InternalFace \notin e.out \cup to /\ InjectFace \notin e.in \cup {f} /\ RibFace \notin e.in \cup {f}
    BY <1>1, <2>1
  <2> QED
    BY <1>2, <1>4, <2>2, <2>3, <2>4
<1>5. CASE /\ SetEntry(n, [in |-> {}, out |-> {}])
           /\ Trace({<<f, "InInterests">>, <<f, "OutNacks">>})
  BY <1>2, <1>5
<1>6. CASE /\ SetEntry(n, [in |-> {f}, out |-> {}])
           /\ Trace({<<f, "InInterests">>})
  BY <1>1, <1>2, <1>6
<1> QED
  BY <1>3, <1>4, <1>5, <1>6 DEF ReceiveInterest

LEMMA DataApart ==
  ASSUME CountTypes, RowsOfClass, ManagerInv, NEW n, NEW f, NEW before,
         ReceiveData(f, n, before), UNCHANGED <<fib, tracer>>
  PROVE  ManagerInv'
<1>1. ManagersApart'
  BY DEF ReceiveData, ManagerInv, ManagersApart
<1>2. PICK keys : /\ Trace(keys)
                  /\ \A k \in keys : \/ k[2] \in {"InData", "SatisfiedInterests", "OutData"}
                                     \/ Known(n) /\ k[1] \in pit[n].in /\ k[2] = "InSatisfied"
                                     \/ Known(n) /\ k[1] \in pit[n].out /\ k[2] = "OutSatisfied"
  <2>1. CASE Known(n)
    <3> DEFINE to == pit[n].in \ {f}
               keys == {<<f, "InData">>} \cup SatisfiedInterests(pit[n]) \cup (to \X {"OutData"})
    <3>1. Trace(keys)
      BY <2>1 DEF ReceiveData
    <3>2. \A k \in SatisfiedInterests(pit[n]) :
            \/ k[2] = "SatisfiedInterests"
            \/ k[1] \in pit[n].in /\ k[2] = "InSatisfied"
            \/ k[1] \in pit[n].out /\ k[2] = "OutSatisfied"
      BY DEF SatisfiedInterests
    <3>3. \A k \in keys : \/ k[2] \in {"InData", "SatisfiedInterests", "OutData"}
                          \/ Known(n) /\ k[1] \in pit[n].in /\ k[2] = "InSatisfied"
                          \/ Known(n) /\ k[1] \in pit[n].out /\ k[2] = "OutSatisfied"
      BY <2>1, <3>2
    <3> QED
      BY <3>1, <3>3
  <2>2. CASE ~Known(n)
    BY <2>2 DEF ReceiveData
  <2> QED
    BY <2>1, <2>2
<1>3. keys \cap ManagerRows = {}
  BY <1>2 DEF ManagerRows, ManagerInv, ManagersApart, Known
<1> QED
  BY <1>1, <1>2, <1>3, TracedApart DEF ManagerInv

LEMMA TimeOutApart ==
  ASSUME CountTypes, RowsOfClass, ManagerInv, NEW n, TimeOut(n)
  PROVE  ManagerInv'
<1>1. /\ pit' = [x \in DOMAIN pit \ {n} |-> pit[x]] /\ fib' = fib /\ tracer' = tracer
      /\ Trace(TimedOutInterests(pit[n]))
  BY DEF TimeOut, scheduleVars
<1>2. ManagersApart'
  BY <1>1 DEF ManagerInv, ManagersApart
<1>3. TimedOutInterests(pit[n]) \cap ManagerRows = {}
  BY DEF TimedOutInterests, ManagerRows
<1> QED
  BY <1>1, <1>2, <1>3, TracedApart DEF ManagerInv

\* A command is told of twice: as answered over the face of the managers, and as satisfied
\* for the face it came by.
LEMMA ExecuteApart ==
  ASSUME FaceInv, RouteInv, CountTypes, RowsOfClass, ManagerInv, Execute
  PROVE  ManagerInv'
<1>1. PICK c : /\ c = Head(commands) /\ Trace(SatisfiedInterests(CommandEntry(c)))
               /\ tracer' = tracer /\ pit' = pit
  BY DEF Execute, scheduleVars
<1>2. PICK keys : keys = SatisfiedInterests(CommandEntry(c))
  OBVIOUS
<1>3. keys = {<<INVALID_FACEID, "SatisfiedInterests">>, <<From(c), "InSatisfied">>,
              <<InternalFace, "OutSatisfied">>}
  BY <1>2 DEF SatisfiedInterests, CommandEntry
<1>4. c \in Commands
  BY <1>1, RangeTail DEF RouteInv, CommandTypes, Execute
<1>5. c.op = "add" => c.face # InternalFace
  <2>1. OfDevices \subseteq (RibFace + 1) .. lastFaceId /\ lastFaceId \in Nat
    BY DevicesAfterInternal DEF RouteInv, FaceInv, Numbers
  <2>2. \A f \in (RibFace + 1) .. lastFaceId : f # InternalFace
    BY <2>1 DEF RibFace, InternalFace
  <2>3. RibFace # InternalFace
    BY DEF RibFace, InternalFace
  <2> QED
    BY <1>4, <2>1, <2>2, <2>3 DEF Commands, AddRoute, RemoveRoute, SetStrategy
<1>6. ManagersApart'
  <2>1. \A h \in fib' : h \in fib \/ (c.op = "add" /\ h.face = c.face)
    BY <1>1 DEF Execute
  <2> QED
    BY <1>1, <1>5, <2>1 DEF ManagerInv, ManagersApart
<1>7. CommandsHonest'
  <2> DEFINE out == <<InternalFace, "OutInterests">>
             sat == <<InternalFace, "OutSatisfied">>
             inject == <<InjectFace, "InSatisfied">>
             rib == <<RibFace, "InSatisfied">>
  <2>1. /\ out \notin keys /\ sat \in keys
        /\ inject \in keys <=> From(c) = InjectFace
        /\ rib \in keys <=> From(c) = RibFace
    BY <1>3
  <2>2. (From(c) = InjectFace /\ From(c) # RibFace) \/ (From(c) = RibFace /\ From(c) # InjectFace)
    BY DEF From, RibFace, InjectFace
  <2>3. /\ Total(out) \in Nat /\ Total(sat) \in Nat /\ Total(inject) \in Nat /\ Total(rib) \in Nat
        /\ Total(out) = 0 /\ Total(sat) = Total(inject) + Total(rib)
    BY TotalIsNat DEF ManagerInv, CommandsHonest
  <2>4. Total(out)' = 0 /\ Total(sat)' = Total(inject)' + Total(rib)'
    <3>1. Trace(keys) /\ tracer' = tracer
      BY <1>1, <1>2
    <3>2. CASE tracer.class = "L3RateTracer"
      <4>1. \A k : Total(k)' = Total(k) + One(k \in keys)
        BY <3>1, <3>2, TracedTotals DEF One
      <4> HIDE DEF out, sat, inject, rib
      <4>2. /\ Total(out)' = Total(out) + One(out \in keys)
            /\ Total(sat)' = Total(sat) + One(sat \in keys)
            /\ Total(inject)' = Total(inject) + One(inject \in keys)
            /\ Total(rib)' = Total(rib) + One(rib \in keys)
        BY <4>1
      <4>3. One(out \in keys) = 0 /\ One(sat \in keys) = 1
        BY <2>1 DEF One
      <4>4. \/ One(inject \in keys) = 1 /\ One(rib \in keys) = 0
            \/ One(inject \in keys) = 0 /\ One(rib \in keys) = 1
        BY <2>1, <2>2 DEF One
      <4> QED
        BY <2>3, <4>2, <4>3, <4>4
    <3>3. CASE tracer.class = "L3HopDelayTracer"
      <4>1. \A k : Total(k)' = Total(k) + IF k \in keys /\ k[1] # INVALID_FACEID /\ k[2] \in PacketRows THEN 1 ELSE 0
        BY <3>1, <3>3, TracedTotals
      <4>2. \A k \in keys : k[2] \notin PacketRows
        BY <1>3 DEF PacketRows
      <4>3. \A k : Total(k) \in Nat
        BY TotalIsNat
      <4>4. \A k : Total(k)' = Total(k)
        BY <4>1, <4>2, <4>3
      <4> HIDE DEF out, sat, inject, rib
      <4> QED
        BY <2>3, <4>4
    <3>4. CASE tracer.class \notin {"L3RateTracer", "L3HopDelayTracer"}
      <4>1. \A k : Total(k)' = Total(k)
        BY <3>1, <3>4, TracedTotals DEF rowVars, Total
      <4> HIDE DEF out, sat, inject, rib
      <4> QED
        BY <2>3, <4>1
    <3> QED
      BY <3>2, <3>3, <3>4
  <2> QED
    BY <2>4 DEF CommandsHonest
<1> QED
  BY <1>6, <1>7 DEF ManagerInv

\* A row that nothing is added to keeps its sum.
LEMMA SameTotal ==
  ASSUME NEW k, NEW ks, k \notin ks,
         \/ UNCHANGED <<m_stats, printed>>
         \/ m_stats' = Plus(m_stats, ks) /\ printed' = printed
         \/ printed' = Plus(printed, ks) /\ m_stats' = m_stats,
         CountTypes
  PROVE  Total(k)' = Total(k)
<1>1. \A j \in DOMAIN m_stats : m_stats[j] \in Nat
  BY DEF CountTypes
<1>2. \A j \in DOMAIN printed : printed[j] \in Nat
  BY DEF CountTypes
<1>3. CASE UNCHANGED <<m_stats, printed>>
  BY <1>3 DEF Total
<1>4. CASE m_stats' = Plus(m_stats, ks) /\ printed' = printed
  BY <1>1, <1>2, <1>4 DEF Total, Plus
<1>5. CASE printed' = Plus(printed, ks) /\ m_stats' = m_stats
  BY <1>1, <1>2, <1>5 DEF Total, Plus
<1> QED
  BY <1>3, <1>4, <1>5

\* Delays and drops have rows of their own.
LEMMA OtherTraceApart ==
  ASSUME CountTypes, ManagerInv, UNCHANGED <<fib, pit>>,
         (\E a : TraceDelays(a)) \/ (\E d : TraceDrop(d))
  PROVE  ManagerInv'
<1>1. \A k \in ManagerRows : k[2] \notin OtherRows
  BY DEF ManagerRows, OtherRows
<1>2. ASSUME NEW k \in ManagerRows
      PROVE  Total(k)' = Total(k)
  <2>1. ASSUME NEW a, TraceDelays(a)
        PROVE  Total(k)' = Total(k)
    <3>1. UNCHANGED rowVars \/ (printed' = Plus(printed, {<<a, "LastDelay">>, <<a, "FullDelay">>})
                                /\ m_stats' = m_stats)
      BY <2>1 DEF TraceDelays
    <3>2. k \notin {<<a, "LastDelay">>, <<a, "FullDelay">>}
      BY <1>1 DEF OtherRows
    <3> QED
      BY <3>1, <3>2, SameTotal DEF rowVars
  <2>2. ASSUME NEW d, TraceDrop(d)
        PROVE  Total(k)' = Total(k)
    <3>1. UNCHANGED rowVars \/ (m_stats' = Plus(m_stats, {<<INVALID_FACEID, "Drop">>})
                                /\ printed' = printed)
      BY <2>2 DEF TraceDrop
    <3>2. k \notin {<<INVALID_FACEID, "Drop">>}
      BY <1>1 DEF OtherRows
    <3> QED
      BY <3>1, <3>2, SameTotal DEF rowVars
  <2> QED
    BY <2>1, <2>2
<1>3. ManagersApart'
  BY DEF ManagerInv, ManagersApart
<1> QED
  BY <1>2, <1>3, ManagerTotalsStay DEF ManagerInv


\* Printing moves the rows, and a tracer starts without them.
LEMMA PrintApart ==
  ASSUME CountTypes, ManagerInv, PrintPeriod
  PROVE  ManagerInv'
<1>1. /\ printed' = Added(printed, m_stats) /\ m_stats' = [k \in DOMAIN m_stats |-> 0]
      /\ fib' = fib /\ pit' = pit
  BY DEF PrintPeriod, PeriodicPrinter, PrintRows, ResetRows, nodeVars, tableVars
<1>2. \A j \in DOMAIN m_stats : m_stats[j] \in Nat
  BY DEF CountTypes
<1>3. \A j \in DOMAIN printed : printed[j] \in Nat
  BY DEF CountTypes
<1>4. \A k : Total(k)' = Total(k)
  <2> TAKE k
  <2>1. /\ DOMAIN printed' = DOMAIN printed \cup DOMAIN m_stats
        /\ \A j \in DOMAIN printed' : printed'[j] = (IF j \in DOMAIN printed THEN printed[j] ELSE 0)
                                                    + (IF j \in DOMAIN m_stats THEN m_stats[j] ELSE 0)
        /\ DOMAIN m_stats' = DOMAIN m_stats /\ \A j \in DOMAIN m_stats' : m_stats'[j] = 0
    BY <1>1 DEF Added
  <2> QED
    BY <1>2, <1>3, <2>1 DEF Total
<1>5. ManagersApart'
  BY <1>1 DEF ManagerInv, ManagersApart
<1> QED
  BY <1>4, <1>5, ManagerTotalsStay DEF ManagerInv

LEMMA InstallTracerApart ==
  ASSUME NothingYet, ManagerInv, NEW class, NEW period, InstallTracer(class, period)
  PROVE  ManagerInv'
<1>1. tracer = NoTracer /\ fib' = fib /\ pit' = pit
  BY DEF InstallTracer, TracerInstalled, nodeVars, tableVars
<1>2. m_stats = <<>> /\ printed = <<>>
  BY <1>1 DEF NothingYet
<1>3. (\A k \in DOMAIN m_stats' : m_stats'[k] = 0) /\ DOMAIN printed' = {}
  BY <1>2, NoDomain DEF InstallTracer, InstallL3RateTracer, InstallL3HopDelayTracer, InstallAppDelayTracer,
     InstallCsTracer, InstallL2RateTracer, rowVars
<1>4. \A k : Total(k)' = 0
  BY <1>3 DEF Total
<1>5. CommandsHonest'
  BY <1>4 DEF CommandsHonest
<1>6. ManagersApart'
  BY <1>1 DEF ManagerInv, ManagersApart
<1> QED
  BY <1>5, <1>6 DEF ManagerInv

\* Faces of applications and devices are not those of the managers.
LEMMA OtherFaces ==
  ASSUME StackStays, NEW f \in DOMAIN faceTable, faceTable[f][1] # "internal"
  PROVE  f \notin InternalFaces
<1>1. StackInstalled
  BY NoDomain DEF StackInstalled
<1> QED
  BY <1>1 DEF StackStays

LEMMA PacketApart ==
  ASSUME FaceInv, RouteInv, CountTypes, RowsOfClass, ManagerInv, NEW n,
         \/ \E a \in Apps : Express(a, n)
         \/ \E d \in 1 .. devices : InterestFrom(d, n) \/ DataFrom(d, n)
         \/ \E b \in Bolts : BoltAnswers(b, n)
         \/ TimeOut(n)
  PROVE  ManagerInv'
<1>1. ASSUME NEW a \in Apps, Express(a, n)
      PROVE  ManagerInv'
  <2>1. /\ active[a] /\ ReceiveInterest(GetId(m_face[a]), n) /\ fib' = fib /\ tracer' = tracer
    BY <1>1 DEF Express, scheduleVars
  <2>2. m_face[a] \in DOMAIN faceTable /\ faceTable[m_face[a]] = <<"app", a>>
    BY <2>1 DEF FaceInv, AppFaces
  <2>3. GetId(m_face[a]) = m_face[a]
    BY <2>2 DEF GetId
  <2>4. m_face[a] \notin InternalFaces
    <3>1. faceTable[m_face[a]][1] # "internal"
      BY <2>2
    <3> QED
      BY <2>2, <3>1, OtherFaces DEF RouteInv
  <2>5. ReceiveInterest(m_face[a], n)
    BY <2>1, <2>3
  <2> QED
    BY <2>1, <2>4, <2>5, InterestApart
<1>2. ASSUME NEW d \in 1 .. devices, InterestFrom(d, n)
      PROVE  ManagerInv'
  <2>1. PICK f \in DeviceFaces(d) : ReceiveInterest(f, n)
    BY <1>2 DEF InterestFrom
  <2>2. fib' = fib /\ tracer' = tracer
    BY <1>2 DEF InterestFrom, scheduleVars
  <2>3. f \in DOMAIN faceTable /\ faceTable[f][1] # "internal"
    BY <2>1 DEF DeviceFaces
  <2>4. f \notin InternalFaces
    BY <2>3, OtherFaces DEF RouteInv
  <2> QED
    BY <2>1, <2>2, <2>4, InterestApart
<1>3. ASSUME NEW d \in 1 .. devices, DataFrom(d, n)
      PROVE  ManagerInv'
  <2>1. PICK f \in DeviceFaces(d) : ReceiveData(f, n, deliveries)
    BY <1>3 DEF DataFrom
  <2>2. fib' = fib /\ tracer' = tracer
    BY <1>3 DEF DataFrom, scheduleVars
  <2> QED
    BY <2>1, <2>2, DataApart
<1>4. ASSUME NEW b \in Bolts, BoltAnswers(b, n)
      PROVE  ManagerInv'
  <2>1. ReceiveData(GetId(m_face[b]), n, deliveries) /\ fib' = fib /\ tracer' = tracer
    BY <1>4 DEF BoltAnswers, scheduleVars
  <2> QED
    BY <2>1, DataApart
<1> QED
  BY <1>1, <1>2, <1>3, <1>4, TimeOutApart

LEMMA DeliverApart ==
  ASSUME CountTypes, RowsOfClass, ManagerInv, Deliver
  PROVE  ManagerInv'
<1> DEFINE a == Head(deliveries)[1]
           n == Head(deliveries)[3]
<1>1. fib' = fib /\ tracer' = tracer
  BY DEF Deliver, scheduleVars
<1>2. \/ ReceiveData(GetId(m_face[a]), n, Tail(deliveries))
      \/ Accept(a, n) /\ pit' = pit
      \/ UNCHANGED rowVars /\ pit' = pit
  BY DEF Deliver
<1> HIDE DEF a, n
<1>3. CASE ReceiveData(GetId(m_face[a]), n, Tail(deliveries))
  BY <1>1, <1>3, DataApart
<1>4. CASE UNCHANGED rowVars /\ pit' = pit
  BY <1>1, <1>4, ManagersStay
<1>5. CASE Accept(a, n) /\ pit' = pit
  <2>1. TraceDelays(a) \/ UNCHANGED rowVars
    BY <1>5 DEF Accept
  <2>2. CASE TraceDelays(a)
    BY <1>1, <1>5, <2>2, OtherTraceApart
  <2> QED
    BY <1>1, <1>4, <1>5, <2>1, <2>2
<1> QED
  BY <1>2, <1>3, <1>4, <1>5

LEMMA FacesApart ==
  ASSUME ManagerInv,
         \/ Install \/ Update
         \/ \E a \in Apps : StartApplication(a) \/ StopApplication(a) \/ StartBolt(a) \/ StopBolt(a)
  PROVE  ManagerInv'
<1>1. ASSUME NEW a \in Apps, StopApplication(a) \/ StopBolt(a)
      PROVE  ManagerInv'
  <2>1. UNCHANGED rowVars /\ CloseFace(a)
    BY <1>1 DEF StopApplication, StopBolt, EndApplication
  <2>2. CASE UNCHANGED <<fib, pit>>
    BY <2>1, <2>2, ManagersStay
  <2>3. CASE Without(m_face[a])
    <3>1. /\ fib' = {h \in fib : h.face # m_face[a]}
          /\ pit' = [n \in DOMAIN pit |-> [in |-> pit[n].in \ {m_face[a]}, out |-> pit[n].out \ {m_face[a]}]]
      BY <2>3 DEF Without
    <3>2. \A h \in fib' : h \in fib
      BY <3>1
    <3>3. \A n \in DOMAIN pit' : /\ n \in DOMAIN pit /\ pit'[n].in \subseteq pit[n].in
                                 /\ pit'[n].out \subseteq pit[n].out
      BY <3>1
    <3> QED
      BY <2>1, <3>2, <3>3, ManagersStay
  <2> QED
    BY <2>1, <2>2, <2>3 DEF CloseFace
<1>2. CASE \E a \in Apps : StartApplication(a) \/ StartBolt(a)
  <2>1. UNCHANGED <<fib, pit>> /\ UNCHANGED rowVars
    BY <1>2 DEF StartApplication, StartBolt, OpenFace
  <2> QED
    BY <2>1, ManagersStay
<1>3. CASE Install \/ Update
  <2>1. fib' \in {fib, {ManagementRoute}} /\ pit' = pit /\ UNCHANGED rowVars
    BY <1>3 DEF Install, Update
  <2> QED
    BY <2>1, ManagersStay
<1> QED
  BY <1>1, <1>2, <1>3

LEMMA OthersApart ==
  ASSUME ManagerInv,
         \/ Configure \/ AddDevice
         \/ \E names \in SUBSET Regions : AddRegionName(names) \/ RemoveRegionName(names)
         \/ EmptyNetworkRegionTable
         \/ \E a \in Apps : InstallApplication(a)
         \/ \E f \in DOMAIN faceTable, cost \in 0 .. 1 : ChangeRoute(f, cost)
         \/ \E s \in {"best-route", "multicast"} : InstallStrategy(s)
         \/ Tick
  PROVE  ManagerInv'
<1>1. UNCHANGED <<fib, pit>> /\ UNCHANGED rowVars
  BY DEF Configure, AddFaceCreateCallback, UpdateFaceCreateCallback, RemoveFaceCreateCallback,
         HelperStep, AddDevice, AddRegionName, RemoveRegionName, EmptyNetworkRegionTable,
         ChangeRegions, InstallApplication, ChangeRoute, InstallStrategy, Command, Tick,
         nodeVars, tableVars
<1> QED
  BY <1>1, ManagersStay

LEMMA ManagerInit == Init => ManagerInv
<1> SUFFICES ASSUME Init
             PROVE  ManagerInv
  OBVIOUS
<1>1. \A k : Total(k) = 0
  BY NoDomain DEF Init, TracerInit, Total
<1>2. CommandsHonest
  BY <1>1 DEF CommandsHonest
<1>3. ManagersApart
  BY NoDomain DEF Init, ManagersApart
<1> QED
  BY <1>2, <1>3 DEF ManagerInv

LEMMA ManagerStep ==
  FaceInv /\ RouteInv /\ ServiceInv /\ CountInv /\ ManagerInv /\ [Next]_vars => ManagerInv'
<1> SUFFICES ASSUME FaceInv, RouteInv, ServiceInv, CountInv, ManagerInv, [Next]_vars
             PROVE  ManagerInv'
  OBVIOUS
<1>1. CountTypes /\ NothingYet /\ RowsOfClass /\ Bolts \subseteq Apps
  BY DEF CountInv, Apps
<1>2. CASE UNCHANGED vars
  <2>1. UNCHANGED <<fib, pit>> /\ UNCHANGED rowVars
    BY <1>2 DEF vars, nodeVars, tableVars
  <2> QED
    BY <2>1, ManagersStay
<1>3. ASSUME NEW class, NEW period, InstallTracer(class, period)
      PROVE  ManagerInv'
  BY <1>1, <1>3, InstallTracerApart
<1>4. ASSUME NEW n,
             \/ \E a \in Apps : Express(a, n)
             \/ \E d \in 1 .. devices : InterestFrom(d, n) \/ DataFrom(d, n)
             \/ \E b \in Bolts : BoltAnswers(b, n)
             \/ TimeOut(n)
      PROVE  ManagerInv'
  BY <1>1, <1>4, PacketApart
<1>5. ASSUME NEW d \in 1 .. devices, Drop(d)
      PROVE  ManagerInv'
  <2>1. TraceDrop(d) /\ UNCHANGED <<fib, pit>>
    BY <1>5 DEF Drop, nodeVars, tableVars
  <2> QED
    BY <1>1, <2>1, OtherTraceApart
<1>6. CASE Execute
  BY <1>1, <1>6, ExecuteApart
<1>7. CASE Deliver \/ PrintPeriod
  BY <1>1, <1>7, DeliverApart, PrintApart
<1>8. CASE \/ Install \/ Update
           \/ \E a \in Apps : StartApplication(a) \/ StopApplication(a) \/ StartBolt(a) \/ StopBolt(a)
  BY <1>8, FacesApart
<1>9. ASSUME Next
      PROVE  ManagerInv'
  BY <1>1, <1>3, <1>4, <1>5, <1>6, <1>7, <1>8, <1>9, OthersApart DEF Next
<1> QED
  BY <1>2, <1>9

\* Whenever a tracer is installed, also after packets, and whatever applications and faces
\* come and go: it tells of no more answers and timeouts of a face than there were
\* Interests sent over it that are not pending, but for the managers' face, where the
\* answers to commands are told of and no Interest; of no more delays than Interests, of
\* exactly the drops, and its next print is one period after the last Reset.
THEOREM TracersAreHonest == Spec => []RatesHonest
<1>1. FaceInv /\ RouteInv /\ ServiceInv /\ CountInv /\ ManagerInv => RatesHonest
  <2> SUFFICES ASSUME FaceInv, RouteInv, ServiceInv, CountInv, ManagerInv, TracerInstalled
               PROVE  /\ \A t \in printEvents : t = tracer.reset + tracer.period
                      /\ \A f \in m_faceInfos \ {INVALID_FACEID, InternalFace} :
                           Ended(f) + Cardinality(SentOver(f)) <= Total(<<f, "OutInterests">>) + Unseen(f)
                      /\ CommandsHonest
                      /\ \A a \in Consumers :
                           /\ Total(<<a, "LastDelay">>) = Total(<<a, "FullDelay">>)
                           /\ Total(<<a, "FullDelay">>) + Cardinality(awaited) <= interests
                      /\ Total(<<INVALID_FACEID, "Drop">>) = dropped
    BY DEF RatesHonest, FacesHonest, SentOver
  <2>1. ASSUME NEW f \in m_faceInfos \ {INVALID_FACEID, InternalFace}
        PROVE  Ended(f) + Cardinality(SentOver(f)) <= Total(<<f, "OutInterests">>) + Unseen(f)
    <3>1. /\ f \in Faces /\ f \in Nat /\ CountTypes /\ IsFiniteSet(DOMAIN pit) /\ StoppedFaces /\ StartedOnce
          /\ DeliveryTypes /\ tracer.class \in {"L3RateTracer", "L3HopDelayTracer"}
      BY <2>1 DEF CountInv, CountTypes, Faces, RowsOfClass, RouteInv, ServiceInv
    <3>2. /\ Total(<<f, "OutSatisfied">>) \in Nat /\ Total(<<f, "OutTimedOut">>) \in Nat
          /\ Total(<<f, "OutInterests">>) \in Nat /\ Total(<<f, "InData">>) \in Nat
          /\ Unseen(f) \in Nat
      BY <3>1, TotalIsNat DEF CountTypes, Unseen
    <3>3. /\ Cardinality(SentOver(f)) \in Nat /\ Unanswered(f) \in Nat
          /\ Cardinality(SentOver(f)) <= Unanswered(f)
      BY <3>1, UnansweredIsNat, SentIsUnanswered
    <3>4. CASE tracer.class = "L3RateTracer"
      BY <3>1, <3>2, <3>3, <3>4 DEF CountInv, FaceCounts, Faces, Ended
    <3>5. CASE tracer.class = "L3HopDelayTracer"
      <4>1. Total(<<f, "InData">>) + Unanswered(f) <= Total(<<f, "OutInterests">>) + Unseen(f)
        BY <3>1, <3>5 DEF CountInv, FaceCounts, Faces
      <4>2. Ended(f) = Total(<<f, "InData">>)
        BY <3>5 DEF Ended
      <4> QED
        BY <3>2, <3>3, <4>1, <4>2
    <3> QED
      BY <3>1, <3>4, <3>5
  <2> QED
    BY <2>1 DEF CountInv, EventsOfPeriod, DelayCounts, DropCounts, ManagerInv
<1>2. FaceInv /\ RouteInv /\ ServiceInv /\ CountInv /\ [Next]_vars => FaceInv' /\ RouteInv' /\ ServiceInv' /\ CountInv'
  BY FaceStep, RouteStep, ServiceStep, CountStep
<1>3. FaceInv /\ RouteInv /\ ServiceInv /\ CountInv /\ ManagerInv /\ [Next]_vars => ManagerInv'
  BY ManagerStep
<1> QED
  BY FaceInit, RouteInit, ServiceInit, CountInit, ManagerInit, <1>1, <1>2, <1>3, PTL DEF Spec
=============================================================================
