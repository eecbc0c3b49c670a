-------------------------- MODULE SockDiagTierProofs --------------------------
(***************************************************************************)
(* Proofs about Tier 1: its types, and the three safety properties of the  *)
(* filtered pcap, for any flows, owners and interleaving of the caller's   *)
(* thread, the snapshot thread and the target.                             *)
(***************************************************************************)
EXTENDS SockDiagTier, TLAPS

LEMMA FourSources == Len(PROC_NET_SOURCES) = 4
BY DEF PROC_NET_SOURCES

LEMMA NoWildcards ==
  ASSUME NEW flows
  PROVE  connection_endpoints(flows) \cap Wildcards = {}
<1> DEFINE all == UNION {{Row[f][1], Row[f][2]} : f \in flows}
<1>1. (all \ Wildcards) \cap Wildcards = {}
  <2> HIDE DEF all
  <2> QED
    OBVIOUS
<1> QED
  BY <1>1 DEF connection_endpoints

LEMMA TypeStep ==
  ASSUME SockDiagTierAssumption, TypeOK, [Next]_vars
  PROVE  TypeOK'
<1> USE FourSources DEF TypeOK, MainSteps, ThreadSteps, snapshot, recording, fetched, finalize, device
<1>1. CASE StartCapture
  BY <1>1 DEF StartCapture
<1>2. CASE StartThread
  BY <1>2 DEF StartThread
<1>3. CASE Stop
  BY <1>3 DEF Stop
<1>4. CASE Join
  BY <1>4 DEF Join
<1>5. CASE StopTcpdump
  BY <1>5 DEF StopTcpdump
<1>6. CASE PullPcap
  BY <1>6 DEF PullPcap
<1>7. CASE CopyWhole
  BY <1>7 DEF CopyWhole
<1>8. CASE BeginIteration
  BY <1>8 DEF BeginIteration
<1>9. CASE EndIteration
  <2>1. endpoints' \cap Wildcards = {}
    BY <1>9, NoWildcards DEF EndIteration
  <2> QED
    BY <1>9, <2>1 DEF EndIteration
<1>10. CASE FilterPcap
  BY <1>10 DEF FilterPcap
<1>11. CASE Report
  BY <1>11 DEF Report
<1>12. CASE TestEvent
  BY <1>12 DEF TestEvent
<1>13. CASE ReadSource
  <2>1. source' \in 1..4 /\ thread' \in {"reading", "merging"}
    BY <1>13 DEF ReadSource
  <2>2. found' \subseteq Flows /\ steady' \subseteq Flows
    BY <1>13 DEF ReadSource, Listed
  <2> QED
    BY <1>13, <2>1, <2>2 DEF ReadSource
<1>14. CASE ReadRaises
  BY <1>14 DEF ReadRaises
<1>15. CASE Merge
  BY <1>15 DEF Merge
<1>16. CASE Wake
  BY <1>16 DEF Wake
<1>17. ASSUME NEW f \in Flows, Open(f) PROVE TypeOK'
  BY <1>17 DEF Open
<1>18. ASSUME NEW f \in Flows, Close(f) PROVE TypeOK'
  BY <1>18 DEF Close
<1>19. ASSUME NEW f \in Flows, Send(f) PROVE TypeOK'
  <2>1. recorded' \subseteq Packets
    BY <1>19 DEF Send, Packets
  <2> QED
    BY <1>19, <2>1 DEF Send
<1>20. CASE UNCHANGED vars
  BY <1>20 DEF vars
<1> QED
  BY <1>1, <1>2, <1>3, <1>4, <1>5, <1>6, <1>7, <1>8, <1>9, <1>10, <1>11, <1>12,
     <1>13, <1>14, <1>15, <1>16, <1>17, <1>18, <1>19, <1>20 DEF Next, MainStep,
     ThreadStep

(* Every variable stays within its type.                                   *)
THEOREM TypeCorrect == Spec => []TypeOK
<1>1. Init => TypeOK
  <2> SUFFICES ASSUME Init PROVE TypeOK
    OBVIOUS
  <2>1. result \in [connections : SUBSET Flows, pcap : SUBSET Packets, complete : BOOLEAN]
    BY DEF Init, NoResult
  <2>2. source \in 1..Len(PROC_NET_SOURCES) /\ sock \in [Flows -> Owners \cup {NoOwner}]
    BY FourSources DEF Init
  <2>3. uids \in UidSets /\ main \in MainSteps /\ thread \in ThreadSteps /\ opens \in Nat
    BY DEF Init, MainSteps, ThreadSteps
  <2> QED
    BY <2>1, <2>2, <2>3 DEF Init, TypeOK
<1>2. TypeOK /\ [Next]_vars => TypeOK'
  BY TypeStep, SockDiagTierAssumption
<1> QED
  BY <1>1, <1>2, PTL DEF Spec

------------------------------------------------------------------------------
(* What the app's past ownership of flows bounds: what is found, what is   *)
(* merged, what the filter goes by and what it keeps.                      *)
Related(packets) == \A p \in packets : \E f \in owned : Identifies(f, p.flow)

OwnedInv ==
  /\ \A f \in Flows : sock[f] \in uids => f \in owned
  /\ found \subseteq owned /\ conns \subseteq owned /\ result.connections \subseteq owned
  /\ endpoints \subseteq connection_endpoints(owned)
  /\ uids # {} => Related(kept) /\ Related(result.pcap)

LEMMA EndpointsGrow ==
  ASSUME NEW F, NEW G, F \subseteq G
  PROVE  connection_endpoints(F) \subseteq connection_endpoints(G)
BY DEF connection_endpoints

LEMMA MatchIsRelated ==
  ASSUME NEW G, NEW p, packet_matches(connection_endpoints(G), p)
  PROVE  \E f \in G : Identifies(f, p.flow)
<1>1. PICK j \in {1, 2} : Ends[p.flow][j] \in connection_endpoints(G)
  BY DEF packet_matches
<1>2. PICK f \in G : \E i \in {1, 2} : Row[f][i] = Ends[p.flow][j]
  BY <1>1 DEF connection_endpoints
<1> QED
  BY <1>1, <1>2 DEF Identifies

LEMMA MatchIffIdentified ==
  ASSUME SockDiagTierAssumption, NEW F, NEW p \in Packets
  PROVE  packet_matches(connection_endpoints(F), p) <=> \E f \in F : Identifies(f, p.flow)
<1>1. ASSUME NEW f \in F, Identifies(f, p.flow)
      PROVE  packet_matches(connection_endpoints(F), p)
  <2>1. PICK i, j \in {1, 2} : Row[f][i] = Ends[p.flow][j]
    BY <1>1 DEF Identifies
  <2>2. Ends[p.flow][j] \notin Wildcards
    BY DEF SockDiagTierAssumption, Packets
  <2>3. Ends[p.flow][j] \in connection_endpoints(F)
    BY <2>1, <2>2 DEF connection_endpoints
  <2> QED
    BY <2>3 DEF packet_matches
<1> QED
  BY <1>1, MatchIsRelated

(* It holds of more flows when it holds of fewer. *)
LEMMA OwnedGrows ==
  ASSUME OwnedInv, owned \subseteq owned'
  PROVE  /\ endpoints \subseteq connection_endpoints(owned')
         /\ \A packets : Related(packets) => Related(packets)'
<1>1. connection_endpoints(owned) \subseteq connection_endpoints(owned')
  BY EndpointsGrow
<1> QED
  BY <1>1 DEF OwnedInv, Related

LEMMA OwnedInvStep ==
  ASSUME SockDiagTierAssumption, TypeOK, OwnedInv, [Next]_vars
  PROVE  OwnedInv'
<1> USE DEF TypeOK, OwnedInv, Related, snapshot, recording, fetched, finalize, device
<1>1. CASE StartCapture
  BY <1>1 DEF StartCapture
<1>2. CASE StartThread
  BY <1>2 DEF StartThread
<1>3. CASE Stop
  BY <1>3 DEF Stop
<1>4. CASE Join
  BY <1>4 DEF Join
<1>5. CASE StopTcpdump
  BY <1>5 DEF StopTcpdump
<1>6. CASE PullPcap
  BY <1>6 DEF PullPcap
<1>7. CASE CopyWhole
  BY <1>7 DEF CopyWhole
<1>8. CASE BeginIteration
  BY <1>8 DEF BeginIteration
<1>9. CASE EndIteration
  <2>1. endpoints' \subseteq connection_endpoints(owned)
    BY <1>9, EndpointsGrow DEF EndIteration
  <2> QED
    BY <1>9, <2>1 DEF EndIteration
<1>10. CASE FilterPcap
  <2>1. ASSUME NEW p \in kept' PROVE \E f \in owned : Identifies(f, p.flow)
    <3>1. packet_matches(endpoints, p)
      BY <1>10 DEF FilterPcap
    <3>2. packet_matches(connection_endpoints(owned), p)
      BY <3>1 DEF packet_matches
    <3> QED
      BY <3>2, MatchIsRelated
  <2> QED
    BY <1>10, <2>1 DEF FilterPcap
<1>11. CASE Report
  BY <1>11 DEF Report
<1>12. CASE TestEvent
  BY <1>12 DEF TestEvent
<1>13. CASE ReadSource
  <2>1. found' \subseteq owned
    BY <1>13 DEF ReadSource, Listed
  <2> QED
    BY <1>13, <2>1 DEF ReadSource
<1>14. CASE ReadRaises
  BY <1>14 DEF ReadRaises
<1>15. CASE Merge
  BY <1>15 DEF Merge
<1>16. CASE Wake
  BY <1>16 DEF Wake
<1>17. ASSUME NEW f \in Flows, Open(f) PROVE OwnedInv'
  <2>1. owned \subseteq owned' /\ uids' = uids
    BY <1>17 DEF Open
  <2>2. \A g \in Flows : sock'[g] \in uids => g \in owned'
    BY <1>17 DEF Open
  <2> QED
    BY <1>17, <2>1, <2>2, OwnedGrows DEF Open
<1>18. ASSUME NEW f \in Flows, Close(f) PROVE OwnedInv'
  <2>1. \A g \in Flows : sock'[g] \in uids => g \in owned
    BY <1>18 DEF Close, SockDiagTierAssumption
  <2> QED
    BY <1>18, <2>1 DEF Close
<1>19. ASSUME NEW f \in Flows, Send(f) PROVE OwnedInv'
  BY <1>19 DEF Send
<1>20. CASE UNCHANGED vars
  BY <1>20 DEF vars
<1> QED
  BY <1>1, <1>2, <1>3, <1>4, <1>5, <1>6, <1>7, <1>8, <1>9, <1>10, <1>11, <1>12,
     <1>13, <1>14, <1>15, <1>16, <1>17, <1>18, <1>19, <1>20 DEF Next, MainStep,
     ThreadStep

(* No connection is reported, and no packet kept, that is not related to   *)
(* what the app owned.                                                     *)
THEOREM NothingUnrelatedKept == Spec => []NothingUnrelated
<1>1. Init => OwnedInv
  BY SockDiagTierAssumption DEF Init, OwnedInv, Related, NoResult, SockDiagTierAssumption
<1>2. TypeOK /\ OwnedInv /\ [Next]_vars => OwnedInv'
  BY OwnedInvStep, SockDiagTierAssumption
<1>3. OwnedInv => NothingUnrelated
  BY DEF OwnedInv, Related, NothingUnrelated
<1> QED
  BY <1>1, <1>2, <1>3, TypeCorrect, PTL DEF Spec

------------------------------------------------------------------------------
(* The packets of F's flows that have come through so far are among those  *)
(* kept, unless the table shows nothing of their endpoints.                *)
Keeps(F, packets) == \A p \in pcap : p.flow \in F /\ Identifies(p.flow, p.flow) => p \in packets

(* The way of a connection that is steady through a snapshot: found before *)
(* the merge, in conns before the filter, in the endpoints it goes by.     *)
SampledInv ==
  /\ thread = "reading" =>
       \A f \in steady : sock[f] \in uids /\ (SourceOf[f] < source => f \in found)
  /\ thread = "merging" => steady \subseteq found
  /\ sampled \subseteq conns
  /\ main = "iterating" => uids # {} /\ sampled \subseteq seen
  /\ main = "filtering" => uids # {} /\ connection_endpoints(sampled) \subseteq endpoints
  /\ main \notin {"reporting", "done"} => ~readable
  /\ main # "done" => ~result.complete
  /\ main = "reporting" /\ readable =>
       IF uids = {} THEN pcap \subseteq kept ELSE Keeps(sampled, kept)
  /\ main = "done" /\ result.complete =>
       IF uids = {} THEN pcap \subseteq result.pcap ELSE Keeps(sampled, result.pcap)

LEMMA SampledInvStep ==
  ASSUME SockDiagTierAssumption, TypeOK, SampledInv, [Next]_vars
  PROVE  SampledInv'
<1> USE DEF TypeOK, SampledInv, Keeps, snapshot, recording, fetched, finalize, device
<1>1. CASE StartCapture
  BY <1>1 DEF StartCapture
<1>2. CASE StartThread
  BY <1>2 DEF StartThread
<1>3. CASE Stop
  BY <1>3 DEF Stop
<1>4. CASE Join
  BY <1>4 DEF Join
<1>5. CASE StopTcpdump
  BY <1>5 DEF StopTcpdump
<1>6. CASE PullPcap
  BY <1>6 DEF PullPcap
<1>7. CASE CopyWhole
  BY <1>7 DEF CopyWhole
<1>8. CASE BeginIteration
  BY <1>8 DEF BeginIteration
<1>9. CASE EndIteration
  <2>1. main' = "filtering" => connection_endpoints(sampled) \subseteq endpoints'
    BY <1>9, EndpointsGrow DEF EndIteration
  <2> QED
    BY <1>9, <2>1 DEF EndIteration
<1>10. CASE FilterPcap
  <2>1. ASSUME NEW p \in pcap, p.flow \in sampled, Identifies(p.flow, p.flow) PROVE p \in kept'
    <3>1. packet_matches(connection_endpoints(sampled), p)
      BY <2>1, MatchIffIdentified
    <3>2. packet_matches(endpoints, p)
      BY <1>10, <3>1 DEF FilterPcap, packet_matches
    <3> QED
      BY <1>10, <3>2 DEF FilterPcap
  <2> QED
    BY <1>10, <2>1 DEF FilterPcap
<1>11. CASE Report
  BY <1>11 DEF Report
<1>12. CASE TestEvent
  <2>1. thread' = "reading" =>
          \A f \in steady' : sock[f] \in uids /\ ~(SourceOf[f] < source')
    BY <1>12, FourSources DEF TestEvent, SockDiagTierAssumption
  <2> QED
    BY <1>12, <2>1 DEF TestEvent
<1>13. CASE ReadSource
  <2>1. \A f \in steady' :
          f \in steady /\ sock[f] \in uids /\ (SourceOf[f] <= source => f \in found')
    <3> SUFFICES ASSUME NEW f \in steady'
                 PROVE f \in steady /\ sock[f] \in uids /\ (SourceOf[f] <= source => f \in found')
      OBVIOUS
    <3>1. f \in steady /\ f \in Flows /\ sock[f] \in uids /\ (SourceOf[f] < source => f \in found)
      BY <1>13 DEF ReadSource
    <3>2. SourceOf[f] \in Nat /\ source \in Nat /\ found \subseteq found'
      BY <1>13, <3>1, FourSources DEF ReadSource, SockDiagTierAssumption
    <3>3. SourceOf[f] = source => f \in found'
      BY <1>13, <3>1 DEF ReadSource, Listed
    <3> QED
      BY <3>1, <3>2, <3>3
  <2>2. \A f \in Flows : SourceOf[f] \in 1..4
    BY FourSources DEF SockDiagTierAssumption
  <2>3. \/ thread' = "reading" /\ source' = source + 1
        \/ thread' = "merging" /\ source = 4
    BY <1>13, FourSources DEF ReadSource
  <2>4. source \in 1..4 /\ steady' \subseteq Flows
    BY <2>1, FourSources
  <2>5. thread' = "reading" =>
          \A f \in steady' : sock[f] \in uids /\ (SourceOf[f] < source' => f \in found')
    BY <2>1, <2>2, <2>3, <2>4
  <2>6. thread' = "merging" => steady' \subseteq found'
    BY <2>1, <2>2, <2>3, <2>4
  <2> QED
    BY <1>13, <2>5, <2>6 DEF ReadSource
<1>14. CASE ReadRaises
  BY <1>14 DEF ReadRaises
<1>15. CASE Merge
  <2>1. /\ sampled' \subseteq conns' /\ thread' \in {"merging", "waiting"}
        /\ main \notin BeforeFilter => sampled' = sampled
    BY <1>15 DEF Merge
  <2> QED
    BY <1>15, <2>1 DEF Merge, BeforeFilter
<1>16. CASE Wake
  BY <1>16 DEF Wake
<1>17. ASSUME NEW f \in Flows, Open(f) PROVE SampledInv'
  <2>1. thread = "reading" => f \notin steady
    BY <1>17 DEF Open, SockDiagTierAssumption
  <2>2. thread = "reading" => \A g \in steady : sock'[g] = sock[g]
    BY <1>17, <2>1 DEF Open
  <2> QED
    BY <1>17, <2>2 DEF Open
<1>18. ASSUME NEW f \in Flows, Close(f) PROVE SampledInv'
  BY <1>18 DEF Close
<1>19. ASSUME NEW f \in Flows, Send(f) PROVE SampledInv'
  BY <1>19 DEF Send
<1>20. CASE UNCHANGED vars
  BY <1>20 DEF vars
<1> QED
  BY <1>1, <1>2, <1>3, <1>4, <1>5, <1>6, <1>7, <1>8, <1>9, <1>10, <1>11, <1>12,
     <1>13, <1>14, <1>15, <1>16, <1>17, <1>18, <1>19, <1>20 DEF Next, MainStep,
     ThreadStep

(* A connection that is open throughout a snapshot does not lose a packet. *)
THEOREM SampledKept == Spec => []SampledIsKept
<1>1. Init => SampledInv
  BY DEF Init, SampledInv, NoResult
<1>2. TypeOK /\ SampledInv /\ [Next]_vars => SampledInv'
  BY SampledInvStep, SockDiagTierAssumption
<1>3. SampledInv => SampledIsKept
  BY DEF SampledInv, SampledIsKept, Keeps
<1> QED
  BY <1>1, <1>2, <1>3, TypeCorrect, PTL DEF Spec

------------------------------------------------------------------------------
(* The packets of the recording that belong to the connections F.          *)
PacketsOf(F) == {p \in pcap : \E f \in F : Identifies(f, p.flow)}

(* Endpoints of some of the connections keep packets of these only, and    *)
(* those of all keep all of them.                                          *)
LEMMA FilterKeeps ==
  ASSUME SockDiagTierAssumption, TypeOK, NEW F, NEW eps, eps \subseteq connection_endpoints(F)
  PROVE  LET matching == {p \in pcap : packet_matches(eps, p)}
         IN /\ matching \subseteq PacketsOf(F)
            /\ eps = connection_endpoints(F) => matching = PacketsOf(F)
<1> DEFINE matching == {p \in pcap : packet_matches(eps, p)}
<1>1. pcap \subseteq Packets
  BY DEF TypeOK
<1>2. ASSUME NEW p \in matching PROVE p \in PacketsOf(F)
  <2>1. packet_matches(connection_endpoints(F), p)
    BY DEF packet_matches
  <2> QED
    BY <1>1, <2>1, MatchIffIdentified DEF PacketsOf
<1>3. ASSUME eps = connection_endpoints(F), NEW p \in PacketsOf(F) PROVE p \in matching
  BY <1>1, <1>3, MatchIffIdentified DEF PacketsOf
<1> QED
  BY <1>2, <1>3

(* The filter goes by connections that will be reported; by all of them    *)
(* when the join did not time out, since the thread is then over.          *)
ReportInv ==
  /\ ~abandoned /\ main \in {"halting", "pulling", "finalizing", "iterating", "filtering",
                             "reporting", "done", "raised"} => thread = "ended"
  /\ main \notin {"reporting", "done"} => kept = {}
  /\ main = "iterating" => uids # {} /\ seen \subseteq conns /\ (~abandoned => seen = conns)
  /\ main = "filtering" =>
       /\ uids # {} /\ endpoints \subseteq connection_endpoints(conns)
       /\ ~abandoned => endpoints = connection_endpoints(conns)
  /\ main = "reporting" =>
       /\ uids = {} => kept = pcap
       /\ uids # {} => kept \subseteq PacketsOf(conns)
       /\ uids # {} /\ ~abandoned => kept = PacketsOf(conns)
       /\ pulled /\ (uids = {} \/ ~abandoned) => readable
  /\ ReportMatchesPcap

LEMMA ReportInvStep ==
  ASSUME SockDiagTierAssumption, TypeOK, ReportInv, [Next]_vars
  PROVE  ReportInv'
<1> USE DEF TypeOK, ReportInv, ReportMatchesPcap, OfReported, PacketsOf,
            snapshot, recording, fetched, finalize, device
<1>1. CASE StartCapture
  BY <1>1 DEF StartCapture
<1>2. CASE StartThread
  BY <1>2 DEF StartThread
<1>3. CASE Stop
  BY <1>3 DEF Stop
<1>4. CASE Join
  BY <1>4 DEF Join
<1>5. CASE StopTcpdump
  BY <1>5 DEF StopTcpdump
<1>6. CASE PullPcap
  BY <1>6 DEF PullPcap
<1>7. CASE CopyWhole
  BY <1>7 DEF CopyWhole
<1>8. CASE BeginIteration
  BY <1>8 DEF BeginIteration
<1>9. CASE EndIteration
  BY <1>9 DEF EndIteration
<1>10. CASE FilterPcap
  <2>1. /\ kept' \subseteq PacketsOf(conns)
        /\ ~abandoned => kept' = PacketsOf(conns)
    BY <1>10, FilterKeeps DEF FilterPcap
  <2>2. PacketsOf(conns)' = PacketsOf(conns)
    BY <1>10 DEF FilterPcap
  <2> QED
    BY <1>10, <2>1, <2>2 DEF FilterPcap
<1>11. CASE Report
  BY <1>11 DEF Report
<1>12. CASE TestEvent
  BY <1>12 DEF TestEvent
<1>13. CASE ReadSource
  BY <1>13 DEF ReadSource
<1>14. CASE ReadRaises
  BY <1>14 DEF ReadRaises
<1>15. CASE Merge
  <2>1. /\ thread = "merging" /\ conns \subseteq conns'
        /\ UNCHANGED <<uids, main, abandoned, recording, fetched, finalize, device>>
    BY <1>15 DEF Merge
  <2>2. connection_endpoints(conns) \subseteq connection_endpoints(conns')
    BY <2>1, EndpointsGrow
  <2>3. PacketsOf(conns) \subseteq PacketsOf(conns')
    BY <2>1
  <2>4. ~abandoned => main \notin {"halting", "pulling", "finalizing", "iterating",
                                  "filtering", "reporting", "done", "raised"}
    BY <2>1
  <2> QED
    BY <2>1, <2>2, <2>3, <2>4
<1>16. CASE Wake
  BY <1>16 DEF Wake
<1>17. ASSUME NEW f \in Flows, Open(f) PROVE ReportInv'
  BY <1>17 DEF Open
<1>18. ASSUME NEW f \in Flows, Close(f) PROVE ReportInv'
  BY <1>18 DEF Close
<1>19. ASSUME NEW f \in Flows, Send(f) PROVE ReportInv'
  BY <1>19 DEF Send
<1>20. CASE UNCHANGED vars
  BY <1>20 DEF vars
<1> QED
  BY <1>1, <1>2, <1>3, <1>4, <1>5, <1>6, <1>7, <1>8, <1>9, <1>10, <1>11, <1>12,
     <1>13, <1>14, <1>15, <1>16, <1>17, <1>18, <1>19, <1>20 DEF Next, MainStep,
     ThreadStep

(* The packets kept belong to the connections reported, and are all of     *)
(* theirs, unless stop() gave up on the thread.                            *)
THEOREM ReportsMatch == Spec => []ReportMatchesPcap
<1>1. Init => ReportInv
  BY DEF Init, ReportInv, ReportMatchesPcap
<1>2. TypeOK /\ ReportInv /\ [Next]_vars => ReportInv'
  BY ReportInvStep, SockDiagTierAssumption
<1>3. ReportInv => ReportMatchesPcap
  BY DEF ReportInv
<1> QED
  BY <1>1, <1>2, <1>3, TypeCorrect, PTL DEF Spec
==============================================================================
