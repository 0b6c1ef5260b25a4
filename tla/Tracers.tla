------------------------------- MODULE Tracers -------------------------------
(***************************************************************************)
(* The tracers.  L3RateTracer and L3HopDelayTracer listen to the faces of  *)
(* a node, AppDelayTracer to its consumers, L2RateTracer to the queues of  *)
(* its devices and CsTracer to nothing.  The delay tracers print what they *)
(* hear, the others count and print at the end of each period.             *)
(*                                                                         *)
(* One tracer is installed, with a file that can be opened: otherwise      *)
(* nothing happens at all.  Rows are counted; what else is in them (sizes, *)
(* smoothed rates, names) is left out.                                     *)
(***************************************************************************)
EXTENDS Integers, FiniteSets

CONSTANTS
  Classes,  \* classes of tracers
  Periods   \* averaging periods

INVALID_FACEID == 0  \* also the key of the row of all faces

VARIABLES
  tracer,       \* [class, period, reset, sources, pending]: m_period, the time of the last
                \* Reset, the applications or devices it is connected to and, by face,
                \* how many Interests had been sent unseen when it came
  printEvents,  \* times of the scheduled PeriodicPrinter events
  m_stats,      \* counters by face and row
  m_faceInfos,  \* faces with a description
  printed       \* sums of what was printed (a history variable)

rowVars == <<m_stats, m_faceInfos, printed>>
scheduleVars == <<tracer, printEvents>>

NoTracer == [class |-> "none", period |-> 0, reset |-> 0, sources |-> {}, pending |-> <<>>]

TracerInit ==
  /\ tracer = NoTracer /\ printEvents = {}
  /\ m_stats = <<>> /\ m_faceInfos = {} /\ printed = <<>>

TracerInstalled == tracer # NoTracer

-----------------------------------------------------------------------------
(* Installation on a node, as Install and InstallAll do it. *)

\* The constructor of a rate tracer schedules a first event after one second, Install
\* another one in its place.
SetAveragingPeriod(time, period) == printEvents' = {time + period}

Connected(class, time, period, sources, pending) ==
  tracer' = [class |-> class, period |-> period, reset |-> time,
             sources |-> sources, pending |-> pending]

InstallL3RateTracer(time, period, pending) ==
  /\ Connected("L3RateTracer", time, period, {}, pending)
  /\ SetAveragingPeriod(time, period)
  /\ UNCHANGED rowVars

InstallL3HopDelayTracer(time, pending) ==
  /\ Connected("L3HopDelayTracer", time, 0, {}, pending)
  /\ UNCHANGED <<printEvents, rowVars>>

\* Only the applications that the node already has are connected.
InstallAppDelayTracer(time, applications) ==
  /\ Connected("AppDelayTracer", time, 0, applications, <<>>)
  /\ UNCHANGED <<printEvents, rowVars>>

\* Its Connect is a comment, so that both counters stay what Reset made them.
InstallCsTracer(time, period) ==
  /\ Connected("CsTracer", time, period, {}, <<>>)
  /\ SetAveragingPeriod(time, period)
  /\ m_stats' = [k \in {INVALID_FACEID} \X {"CacheHits", "CacheMisses"} |-> 0]
  /\ UNCHANGED <<m_faceInfos, printed>>

\* Only the devices that the node already has are connected.
InstallL2RateTracer(time, period, queues) ==
  /\ Connected("L2RateTracer", time, period, queues, <<>>)
  /\ SetAveragingPeriod(time, period)
  /\ UNCHANGED rowVars

-----------------------------------------------------------------------------
(* Rows. *)

Plus(f, keys) ==
  [k \in DOMAIN f \cup keys |-> (IF k \in DOMAIN f THEN f[k] ELSE 0) +
                                (IF k \in keys THEN 1 ELSE 0)]

AllRows == {"SatisfiedInterests", "TimedOutInterests", "CacheHits", "CacheMisses", "Drop"}

\* The trace sources of L3Protocol that L3HopDelayTracer has rows for.
PacketRows == {"InInterests", "OutInterests", "InData", "OutData", "InNacks", "OutNacks"}

\* The row of all faces gets no description, every other key is given one.
AddInfo(keys) == m_faceInfos' = m_faceInfos \cup {k[1] : k \in {x \in keys : x[2] \notin AllRows}}

CountPackets(keys) ==
  /\ m_stats' = Plus(m_stats, keys)
  /\ AddInfo(keys)
  /\ UNCHANGED printed

\* Print of the one row that is not empty, which is none for a face without a number,
\* and Reset.
PrintAndReset(keys) ==
  /\ printed' = Plus(printed, {k \in keys : k[1] # INVALID_FACEID})
  /\ m_stats' = [k \in DOMAIN m_stats \cup keys |-> 0]

PrintHops(keys) == PrintAndReset(keys) /\ AddInfo(keys)

SatisfiedInterests(e) ==
  {<<INVALID_FACEID, "SatisfiedInterests">>} \cup (e.in \X {"InSatisfied"})
    \cup (e.out \X {"OutSatisfied"})

\* Slip: the out-records' row is filled from the in-records.
TimedOutFromIn(e) ==
  {<<INVALID_FACEID, "TimedOutInterests">>} \cup (e.in \X {"InTimedOut", "OutTimedOut"})

TimedOutInterests(e) ==
  {<<INVALID_FACEID, "TimedOutInterests">>} \cup (e.in \X {"InTimedOut"})
    \cup (e.out \X {"OutTimedOut"})

\* The trace sources of L3Protocol fire for these keys.
Trace(keys) ==
  \/ tracer.class = "L3RateTracer" /\ CountPackets(keys)
  \/ tracer.class = "L3HopDelayTracer" /\ PrintHops({k \in keys : k[2] \in PacketRows})
  \/ tracer.class \notin {"L3RateTracer", "L3HopDelayTracer"} /\ UNCHANGED rowVars

\* LastRetransmittedInterestDataDelay and FirstInterestDataDelay of a consumer.
TraceDelays(a) ==
  IF tracer.class = "AppDelayTracer" /\ a \in tracer.sources
  THEN printed' = Plus(printed, {<<a, "LastDelay">>, <<a, "FullDelay">>})
       /\ UNCHANGED <<m_stats, m_faceInfos>>
  ELSE UNCHANGED rowVars

\* The queue of device d drops a packet.
TraceDrop(d) ==
  IF tracer.class = "L2RateTracer" /\ d \in tracer.sources
  THEN m_stats' = Plus(m_stats, {<<INVALID_FACEID, "Drop">>}) /\ UNCHANGED <<m_faceInfos, printed>>
  ELSE UNCHANGED rowVars

Added(f, g) ==
  [k \in DOMAIN f \cup DOMAIN g |-> (IF k \in DOMAIN f THEN f[k] ELSE 0) +
                                    (IF k \in DOMAIN g THEN g[k] ELSE 0)]

\* Print and Reset, the same in the three classes that have them.
PrintRows == printed' = Added(printed, m_stats)
ResetRows == m_stats' = [k \in DOMAIN m_stats |-> 0]

\* Print, Reset and the next event.
PeriodicPrinter(time) ==
  /\ time \in printEvents
  /\ PrintRows /\ ResetRows
  /\ tracer' = [tracer EXCEPT !.reset = time]
  /\ printEvents' = (printEvents \ {time}) \cup {time + tracer.period}
  /\ UNCHANGED m_faceInfos

Total(k) == (IF k \in DOMAIN printed THEN printed[k] ELSE 0) +
            (IF k \in DOMAIN m_stats THEN m_stats[k] ELSE 0)
=============================================================================
