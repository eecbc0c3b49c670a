---------------------------- MODULE SockDiagTier ----------------------------
(***************************************************************************)
(* Tier 1 (src/apptap/tiers/sockdiag.py with socket_table.py): tcpdump     *)
(* records everything, a daemon thread samples the kernel's socket tables, *)
(* and stop() filters the recording by what the thread has found.          *)
(*                                                                         *)
(*   uids       self.uids; {} captures the whole device                    *)
(*   main       where the caller's thread is in start() and stop()         *)
(*   thread     where the snapshot thread is in _snapshot_loop             *)
(*   source, found   the table it reads next, and what it read so far      *)
(*   stop_event, conns, abandoned   _stop_event, _conns, and whether       *)
(*              _thread was dropped while it ran                           *)
(*   tcpdump, recorded, pulled, pcap   whether it runs, the packets it     *)
(*              wrote, whether they reached the host's temp pcap, and      *)
(*              which did                                                  *)
(*   seen, endpoints, kept, readable, result   locals of _finalize         *)
(*   sock       the owner of each socket of the target                     *)
(*                                                                         *)
(* opens counts towards a bound.  owned, steady and sampled serve to state *)
(* properties: the flows that ever were the app's, those that have been    *)
(* since the current snapshot began (and could be read), and those that    *)
(* were throughout some snapshot that ended before the filter ran.         *)
(***************************************************************************)
EXTENDS Naturals, Sequences

CONSTANTS Owners, NoOwner,   \* the UIDs of the target's processes
          UidSets,           \* what a capture may be scoped to
          Flows,             \* the 5-tuples
          SourceOf,          \* the socket table each is listed in
          Row, Ends,         \* its <<local, remote>> endpoints in the table, on the wire
          Wildcards,         \* endpoints with a wildcard address or port 0
          Infra,             \* flows of the ports that are not recorded
          MaxOpens           \* bound: sockets opened

PROC_NET_SOURCES == <<"tcp", "tcp6", "udp", "udp6">>

ASSUME SockDiagTierAssumption ==
  /\ UidSets \subseteq SUBSET Owners /\ NoOwner \notin Owners
  /\ SourceOf \in [Flows -> 1..Len(PROC_NET_SOURCES)]
  /\ DOMAIN Row = Flows /\ DOMAIN Ends = Flows
  /\ \A f \in Flows, i \in {1, 2} : Ends[f][i] \notin Wildcards
  /\ MaxOpens \in Nat

VARIABLES uids, main, thread, source, found, stop_event, conns, abandoned,
          tcpdump, recorded, pulled, pcap, seen, endpoints, kept, readable, result,
          sock, opens, owned, steady, sampled

snapshot  == <<thread, source, found, steady>>
recording == <<tcpdump, recorded>>
fetched   == <<pulled, pcap>>
finalize  == <<seen, endpoints, kept, readable, result>>
device    == <<sock, opens, owned>>
vars == <<uids, main, snapshot, stop_event, conns, abandoned, recording, fetched,
          finalize, device, sampled>>

Packets == [flow : Flows, owner : Owners]
NoResult == [connections |-> {}, pcap |-> {}, complete |-> FALSE]

MainSteps == {"new", "launched", "running", "joining", "halting", "pulling",
              "finalizing", "iterating", "filtering", "reporting", "done", "raised"}
BeforeFilter == {"launched", "running", "joining", "halting", "pulling", "finalizing"}
ThreadSteps == {"none", "testing", "reading", "merging", "waiting", "ended"}

Init ==
  /\ uids \in UidSets
  /\ main = "new" /\ thread = "none" /\ source = 1 /\ found = {}
  /\ stop_event = FALSE /\ conns = {} /\ abandoned = FALSE
  /\ tcpdump = FALSE /\ recorded = {} /\ pulled = FALSE /\ pcap = {}
  /\ seen = {} /\ endpoints = {} /\ kept = {} /\ readable = FALSE /\ result = NoResult
  /\ sock = [f \in Flows |-> NoOwner]
  /\ opens = 0 /\ owned = {} /\ steady = {} /\ sampled = {}

------------------------------------------------------------------------------
(* connection_endpoints and packet_matches.                                *)

(* Mutant: wildcards are not skipped. *)
every_endpoint(flows) == UNION {{Row[f][1], Row[f][2]} : f \in flows}

connection_endpoints(flows) == (UNION {{Row[f][1], Row[f][2]} : f \in flows}) \ Wildcards

(* Mutant: both endpoints must match. *)
packet_matches_both(eps, p) == Ends[p.flow][1] \in eps /\ Ends[p.flow][2] \in eps

packet_matches(eps, p) == Ends[p.flow][1] \in eps \/ Ends[p.flow][2] \in eps

------------------------------------------------------------------------------
(* The caller's thread.                                                    *)

StartCapture ==
  /\ main = "new"
  /\ main' = "launched"
  /\ tcpdump' = TRUE
  /\ UNCHANGED <<uids, snapshot, stop_event, conns, abandoned, recorded, fetched,
                 finalize, device, sampled>>

StartThread ==
  /\ main = "launched"
  /\ main' = "running"
  /\ stop_event' = FALSE
  /\ thread' = "testing"
  /\ UNCHANGED <<uids, source, found, steady, conns, abandoned, recording, fetched,
                 finalize, device, sampled>>

(* Mutant: stop() does not signal the thread. *)
StopUnsignalled ==
  /\ main = "running"
  /\ main' = "joining"
  /\ UNCHANGED <<uids, snapshot, stop_event, conns, abandoned, recording, fetched,
                 finalize, device, sampled>>

Stop ==
  /\ main = "running"
  /\ main' = "joining"
  /\ stop_event' = TRUE
  /\ UNCHANGED <<uids, snapshot, conns, abandoned, recording, fetched, finalize,
                 device, sampled>>

(* Mutant: the thread is signalled and not waited for. *)
JoinAtOnce ==
  /\ main = "joining"
  /\ main' = "halting"
  /\ UNCHANGED <<uids, snapshot, stop_event, conns, abandoned, recording, fetched,
                 finalize, device, sampled>>

(* join(timeout=5.0): the event cuts the thread's wait short, so it is     *)
(* late only when it is held up in a read.                                 *)
Join ==
  /\ main = "joining"
  /\ \/ thread = "ended" /\ UNCHANGED abandoned
     \/ thread = "reading" /\ abandoned' = TRUE
  /\ main' = "halting"
  /\ UNCHANGED <<uids, snapshot, stop_event, conns, recording, fetched, finalize,
                 device, sampled>>

(* _stop_remote_tcpdump: that it failed goes unnoticed. *)
StopTcpdump ==
  /\ main = "halting"
  /\ main' = "pulling"
  /\ tcpdump' \in BOOLEAN
  /\ UNCHANGED <<uids, snapshot, stop_event, conns, abandoned, recorded, fetched,
                 finalize, device, sampled>>

(* The pcap reaches the host; or it does not, which goes unnoticed too; or *)
(* the executor raises, and so does stop().                                *)
PullPcap ==
  /\ main = "pulling"
  /\ \/ pulled' = TRUE /\ pcap' = recorded /\ main' = "finalizing"
     \/ UNCHANGED fetched /\ main' \in {"finalizing", "raised"}
  /\ UNCHANGED <<uids, snapshot, stop_event, conns, abandoned, recording, finalize,
                 device, sampled>>

(* _filter_pcap without UIDs. *)
CopyWhole ==
  /\ main = "finalizing" /\ uids = {}
  /\ main' = "reporting"
  /\ readable' = pulled
  /\ kept' = pcap
  /\ UNCHANGED <<uids, snapshot, stop_event, conns, abandoned, recording, fetched,
                 seen, endpoints, result, device, sampled>>

(* _filter_pcap with UIDs.  Python raises RuntimeError when the set has    *)
(* changed its size while connection_endpoints iterates over it.           *)
BeginIteration ==
  /\ main = "finalizing" /\ uids # {}
  /\ main' = "iterating"
  /\ seen' = conns
  /\ UNCHANGED <<uids, snapshot, stop_event, conns, abandoned, recording, fetched,
                 endpoints, kept, readable, result, device, sampled>>

EndIteration ==
  /\ main = "iterating"
  /\ \/ /\ conns = seen
        /\ endpoints' = connection_endpoints(conns)
        /\ main' = "filtering"
     \/ /\ conns # seen
        /\ main' = "reporting" /\ UNCHANGED endpoints
  /\ UNCHANGED <<uids, snapshot, stop_event, conns, abandoned, recording, fetched,
                 seen, kept, readable, result, device, sampled>>

FilterPcap ==
  /\ main = "filtering"
  /\ main' = "reporting"
  /\ readable' = pulled
  /\ kept' = {p \in pcap : packet_matches(endpoints, p)}
  /\ UNCHANGED <<uids, snapshot, stop_event, conns, abandoned, recording, fetched,
                 seen, endpoints, result, device, sampled>>

(* The result lists the connections as they are by now.  It has no pcap    *)
(* path when the filter raised.                                            *)
Report ==
  /\ main = "reporting"
  /\ main' = "done"
  /\ result' = [connections |-> conns, pcap |-> kept, complete |-> readable]
  /\ UNCHANGED <<uids, snapshot, stop_event, conns, abandoned, recording, fetched,
                 seen, endpoints, kept, readable, device, sampled>>

------------------------------------------------------------------------------
(* The snapshot thread.                                                    *)

TestEvent ==
  /\ thread = "testing"
  /\ \/ /\ stop_event /\ thread' = "ended"
        /\ UNCHANGED <<source, found, steady>>
     \/ /\ ~stop_event /\ thread' = "reading"
        /\ source' = 1 /\ found' = {}
        /\ steady' = {f \in Flows : sock[f] \in uids}
  /\ UNCHANGED <<uids, main, stop_event, conns, abandoned, recording, fetched,
                 finalize, device, sampled>>

Listed == {f \in Flows : SourceOf[f] = source}

(* Mutant: the rows are not filtered by UID. *)
ReadSourceUnfiltered ==
  /\ thread = "reading"
  /\ found' = found \cup {f \in Listed : sock[f] # NoOwner}
  /\ IF source < Len(PROC_NET_SOURCES)
     THEN source' = source + 1 /\ UNCHANGED thread
     ELSE thread' = "merging" /\ UNCHANGED source
  /\ UNCHANGED <<uids, main, steady, stop_event, conns, abandoned, recording,
                 fetched, finalize, device, sampled>>

(* connections_for_uids reads the tables one after the other and skips     *)
(* those it cannot read; if the executor raises, the snapshot is dropped.  *)
ReadSource ==
  /\ thread = "reading"
  /\ \/ /\ found' = found \cup {f \in Listed : sock[f] \in uids}
        /\ UNCHANGED steady
     \/ /\ steady' = steady \ Listed
        /\ UNCHANGED found
  /\ IF source < Len(PROC_NET_SOURCES)
     THEN source' = source + 1 /\ UNCHANGED thread
     ELSE thread' = "merging" /\ UNCHANGED source
  /\ UNCHANGED <<uids, main, stop_event, conns, abandoned, recording, fetched,
                 finalize, device, sampled>>

ReadRaises ==
  /\ thread = "reading"
  /\ thread' = "waiting"
  /\ UNCHANGED <<uids, main, source, found, steady, stop_event, conns, abandoned,
                 recording, fetched, finalize, device, sampled>>

(* Mutant: a snapshot replaces the one before. *)
MergeReplaces ==
  /\ thread = "merging"
  /\ thread' = "waiting"
  /\ conns' = found
  /\ sampled' = IF main \in BeforeFilter THEN sampled \cup steady ELSE sampled
  /\ UNCHANGED <<uids, main, source, found, steady, stop_event, abandoned,
                 recording, fetched, finalize, device>>

(* _conns |= ... takes them over one by one: comparing two equal ones runs *)
(* Python code (Connection is a dataclass), so another thread may run in   *)
(* between.                                                                *)
Merge ==
  /\ thread = "merging"
  /\ \/ /\ \E f \in found \ conns : conns' = conns \cup {f}
        /\ UNCHANGED <<thread, sampled>>
     \/ /\ found \subseteq conns /\ thread' = "waiting"
        /\ sampled' = IF main \in BeforeFilter THEN sampled \cup steady ELSE sampled
        /\ UNCHANGED conns
  /\ UNCHANGED <<uids, main, source, found, steady, stop_event, abandoned,
                 recording, fetched, finalize, device>>

(* The interval is over or the event is set. *)
Wake ==
  /\ thread = "waiting"
  /\ thread' = "testing"
  /\ UNCHANGED <<uids, main, source, found, steady, stop_event, conns, abandoned,
                 recording, fetched, finalize, device, sampled>>

------------------------------------------------------------------------------
(* The target.                                                             *)

Open(f) ==
  /\ sock[f] = NoOwner
  /\ opens < MaxOpens /\ opens' = opens + 1
  /\ \E owner \in Owners :
       /\ sock' = [sock EXCEPT ![f] = owner]
       /\ owned' = IF owner \in uids THEN owned \cup {f} ELSE owned
  /\ UNCHANGED <<uids, main, snapshot, stop_event, conns, abandoned, recording,
                 fetched, finalize, sampled>>

Close(f) ==
  /\ sock[f] # NoOwner
  /\ sock' = [sock EXCEPT ![f] = NoOwner]
  /\ steady' = steady \ {f}
  /\ UNCHANGED <<uids, main, thread, source, found, stop_event, conns, abandoned,
                 recording, fetched, finalize, opens, owned, sampled>>

Send(f) ==
  /\ sock[f] # NoOwner
  /\ tcpdump /\ f \notin Infra
  /\ recorded' = recorded \cup {[flow |-> f, owner |-> sock[f]]}
  /\ UNCHANGED <<uids, main, snapshot, stop_event, conns, abandoned, tcpdump,
                 fetched, finalize, device, sampled>>

------------------------------------------------------------------------------
MainStep ==
  \/ Join \/ StopTcpdump \/ PullPcap \/ CopyWhole
  \/ BeginIteration \/ EndIteration \/ FilterPcap \/ Report

ThreadStep == TestEvent \/ ReadSource \/ ReadRaises \/ Merge \/ Wake

Next ==
  \/ StartCapture \/ StartThread \/ Stop \/ MainStep \/ ThreadStep
  \/ \E f \in Flows : Open(f) \/ Close(f) \/ Send(f)

Spec == Init /\ [][Next]_vars

(* Both threads go on: join has a time-out and so does every read.         *)
FairSpec == Spec /\ WF_vars(MainStep) /\ WF_vars(ThreadStep)

------------------------------------------------------------------------------
TypeOK ==
  /\ uids \in UidSets
  /\ main \in MainSteps /\ thread \in ThreadSteps
  /\ source \in 1..Len(PROC_NET_SOURCES)
  /\ {found, conns, seen, owned, steady, sampled} \subseteq SUBSET Flows
  /\ {stop_event, abandoned, tcpdump, pulled, readable} \subseteq BOOLEAN
  /\ {recorded, pcap, kept} \subseteq SUBSET Packets
  /\ endpoints \cap Wildcards = {}
  /\ result \in [connections : SUBSET Flows, pcap : SUBSET Packets, complete : BOOLEAN]
  /\ sock \in [Flows -> Owners \cup {NoOwner}]
  /\ opens \in Nat

(* What the table shows of flow f names an endpoint of g's packets. *)
Identifies(f, g) == \E i, j \in {1, 2} : Row[f][i] = Ends[g][j]

(* sockdiag.py:4 "learn which 5-tuples belong to the app's UID(s)": no     *)
(* connection is reported that was not the app's at some time, and no      *)
(* packet kept that does not share an endpoint with one that was.  (One    *)
(* end is enough, so a packet of another app to the same server is kept.)  *)
NothingUnrelated ==
  main = "done" /\ uids # {} =>
    /\ result.connections \subseteq owned
    /\ \A p \in result.pcap : \E f \in owned : Identifies(f, p.flow)

(* A connection that was open throughout one snapshot the thread completed *)
(* before the filter ran does not lose a packet, even when another thread  *)
(* that stop() gave up waiting for still adds connections.                 *)
SampledIsKept ==
  main = "done" /\ result.complete =>
    \A p \in pcap :
      uids = {} \/ (p.flow \in sampled /\ Identifies(p.flow, p.flow)) => p \in result.pcap

(* sockdiag.py:5 "the raw pcap is filtered down to exactly the app's       *)
(* connections": every packet kept belongs to a connection that is         *)
(* reported, even when stop() gave up on the thread and it goes on adding  *)
(* connections.  When it did not, a recording that was read is not thrown  *)
(* away, and no packet of a reported connection is missing.  Without UIDs  *)
(* all of it is kept.                                                      *)
OfReported == {p \in pcap : \E f \in result.connections : Identifies(f, p.flow)}

ReportMatchesPcap ==
  main = "done" =>
    /\ uids = {} => result.pcap = pcap
    /\ uids # {} => result.pcap \subseteq OfReported
    /\ uids # {} /\ ~abandoned => result.pcap = OfReported
    /\ pulled /\ (uids = {} \/ ~abandoned) => result.complete

(* stop() comes to an end, and the thread with it or after it.             *)
StopEnds ==
  main = "joining" ~> (main \in {"done", "raised"} /\ thread = "ended")
==============================================================================
