# A verification development for AppTap

AppTap captures the network traffic of one application on a rooted Android
device or a Linux host. It finds the application's UIDs, picks one of two
capture mechanisms, runs `tcpdump`, and leaves the target as it was. These TLA+
modules model what it does to the target and to its own state, TLC checks them
on small instances, and TLAPS proves the main safety properties for every
instance. Paths below are relative to `src/apptap/` unless they start with
`src/`.

## The system

| part | state | operations | interacts with |
|---|---|---|---|
| capture session (`api.py`) | `_uids`, `_chosen`, `_impl`, `_warnings`, `_whole_device`, `_started`, `result` | `start`, `stop`, `teardown`, `__exit__`, `capture()`, `cleanup()` | UID resolution, probe, tcpdump provider, one tier object per `start` |
| Tier 2, NFLOG (`tiers/nflog.py`) | the tcpdump handle, warnings; on the target: chains, jumps, conntrack marks | heal, set-up, launch, collect, teardown | `netfilter.py` for the commands, the executor to run them |
| netfilter rule scripts (`netfilter.py`) | none (pure) | `build_setup`, `build_teardown`, `build_probe` | iptables, netd (same hooks) |
| Tier 1, SOCK_DIAG (`tiers/sockdiag.py`) | `_conns`, `_stop_event`, `_thread`, the recording | start, snapshot loop, stop, filter | `socket_table.py`, a daemon thread |
| shared tier helpers (`tiers/base.py`) | none | stop tcpdump, no-op teardown | executor |
| socket table (`socket_table.py`) | none | read four tables, filter by UID | executor |
| probe and selection (`capabilities.py`) | the chain `APPTAP_PROBE` on the target | `probe`, `select_tier` | executor |
| UID resolution (`uid.py`) | none | four strategies for the base UID, a scan for child processes | executor |
| executors (`executors/`) | cached elevation strategy | `shell`, `push_file`, `pull_file` | adb or the local system |
| tcpdump provider (`tcpdump.py`) | resolved path, a pushed binary | `resolve` | executor |
| command line (`cli.py`) | none | parse, call, print, exit code | session |

What is hard about it:

* *Shared state without a lock.* Chains, jumps and marks live in tables that
  netd and other AppTap processes change too, and a script is 8 to 10 separate
  commands per family. Nothing identifies whose chains they are.
* *Failure that is ignored on purpose.* Teardown ignores everything; set-up
  ignores return codes; a command that timed out may still run later.
* *Interrupted lifecycles.* Ctrl-C is the normal way to end a capture and may
  arrive in any step; a session can be used again after it failed or stopped.
* *A thread that can outlive `stop()`.* `join` gives up after five seconds.
* *State that outlives a capture*: connection marks, `_whole_device`, the probe
  chain, pcaps at fixed paths, a `tcpdump` nobody stopped.
* *Answers that are out of date when used*: a pid, a list of processes, a probe
  result, the way to root that was found once.

What makes each part correct:

* netfilter and Tier 2: a capture logs each packet of the app's connections
  once and nothing else; only UIDs that were captured are ever marked; the
  tables are as before when everyone has stopped, whatever went wrong.
* session: an unscoped result says so; one mishap does not leave rules behind;
  a capture ends with its session; a result describes its capture.
* Tier 1: what was sampled is not lost; what is kept is related to the app;
  report and pcap agree; `stop` ends, and so does the thread.
* probe: it reports only what is there; undisturbed, it misses nothing; its chain
  does not stay. Tier 2 is chosen only where it can deliver.
* UID resolution: the scope holds the app's UIDs and no other app's; an installed
  package is resolved; the DNS resolver alone is no scope.
* the files: a pcap holds the packets of its own capture; one that is empty is
  told of; nobody else's stop ends a capture, and its own does.

## Modules

| module | models |
|---|---|
| `Netfilter` | one mangle table as a function from chains to rules, each iptables command the scripts issue, the two scripts, and what a packet meets in the table |
| `NflogTier` | hosts that run those scripts command by command, and the device around them |
| `NetfilterTables` | what each line of the two scripts makes of a table nobody else touches meanwhile |
| `NflogTables`, `NflogFresh` | the inductive invariants about the tables of `NflogTier`: what is left to delete, and what an undisturbed capture has built |
| `Capabilities` | the facts a probe reports and the choice of a tier |
| `AppCapture` | abstract: what the caller of a session is promised |
| `CaptureSession` | one session object, its caller, and what it leaves on the target; implements `AppCapture` |
| `SockDiagTier` | Tier 1: the caller's thread, the snapshot thread, the recording, the sockets |
| `UidResolution` | `resolve_uids`, command by command, over a changing process table |
| `Probe` | how root is looked for and the probe's commands on the chain that all sessions share |
| `SharedTarget` | composes `Probe` with tier selection, the tcpdump provider, the files and the processes of sessions that share a target |
| `MCNflogTier`, `MCSockDiagTier`, `MCUidResolution`, `MCSharedTarget` | constants for TLC |
| `*Proofs` | lemmas, theorems and proofs about the module they are named after; `NetfilterProofs` also covers `NetfilterTables`, `NflogTablesProofs` also `NflogFresh` |

Each module looks at the capture from where its hazards are: `NflogTier` at the
rules, `SharedTarget` at the probe, files and processes, `CaptureSession` at the
object and its exceptions. Where one needs what another models in full, it takes
the outcomes only: in `CaptureSession` the UIDs, the capabilities and the removal
of rules are choices; in `SharedTarget` the rules and the UIDs are left out.

Definitions called *Mutant* in their comment are plausible bugs of the code in
the definition that follows them. They are used by no specification; exchanged
for that definition they make the named run fail, which is how we know that the
properties say something about the code.

### Netfilter and NflogTier

A command is a record such as `InsertRule("OUTPUT", 2, Jump(CHAIN_LOG))`, and
`Apply` is iptables: it changes the table when the command is acceptable (the
chain exists, is empty and unreferenced for `-X`, a match exists for `-D`, and so
on) and otherwise leaves it alone with a return code that AppTap ignores.
`build_setup` and `build_teardown` are the scripts in their order; `PerUid` is
the loop over the sorted UIDs.

A host is at line `step[h]` of the script of family `fam[h]`; `RunLine` is one
turn of `_run_argvs`. `Start`, `Launch`, `Stop`, `Collect`, `ExitTeardown` and
`Cleanup` are the points where the session enters and leaves the tier; a
teardown runs twice after a regular stop (`NflogTier.stop`, then the session's
`finally`), and up to three times when collecting raised in a `stop` of the `with`
body: that `stop`, the one of `__exit__`, and its `except` clause. `Shell` gives the three
outcomes of a command nobody looks at: it ran, it did not, it timed out and runs
later (`RunLate`). `SetupRaises` is an exception of the executor, fatal for IPv4
and a warning for IPv6. The two executors of the repository turn time-outs and
OS errors into return codes, so for them it is rare; `Executor` is an interface,
and the tests use executors that raise. `Crash` may happen between any two
commands. Every action that is a failure counts towards `MaxFaults`.

`Open`, `Send` and `Close` are connections of the device. A packet of a marked
connection keeps nothing but the mark, so a connection is its owner and its mark.
`inherited` says that the mark is from before the present capture.

### CaptureSession

`pc` is the step of `start`, `stop` or `__exit__` that runs next; each step that
can raise has an action for it, and `InterruptStart/Stop/Exit` are Ctrl-C at any
step. `Leaves` is an exception leaving a call: into the `with` body, out of
`capture()`, or through `__exit__`, which catches `Exception` but not
`KeyboardInterrupt`. `Unwinds` is the same inside `stop()`'s `try`. Rules are a
Boolean here, and the removal of rules succeeds unless Ctrl-C comes first: what
its single commands can do is the subject of `NflogTier`. `readers` are the tier
objects whose `tcpdump` runs on the target; on Android stopping is by name and
stops all of them, or none when `pkill` does not get through. That failure is
suppressed in `tiers/base.py`; `lost` are the objects whose last attempt ended like
that, and `CapturesAreStopped` says that, unless Ctrl-C cut the last call of the
session short, no other capture outlives it: a `stop` that is repeated makes up for
one whose signal was lost.

`AppCapture` is an idle session, a capture of a scope that is settled when it
begins, and a report about that scope. `CaptureSession` implements it with
`started` as the phase, the tier object as the scope and `result` as the report
(`ImplementsAppCapture`); a `start` or `stop` that fails is a stutter.

### SockDiagTier

The two threads interleave at each access to what they share. `_conns |= ...`
takes the connections over one by one, since comparing two of them calls the
`__eq__` of a frozen dataclass (`result.py:15`), which is Python code; the
iteration in `connection_endpoints` is two steps, and fails when the set changed in
between. `ReportMatchesPcap` has a part for each case: beside a thread that `stop`
gave up on, nothing is kept of a connection that is not reported; when it was
joined, the pcap is exactly what was recorded of the reported connections, and it
is not dropped. One endpoint in common is enough for a packet to be of a connection
(`sockdiag.py:53`), so a packet of another app to a server the app also talked to is
kept, though `src/README.md:31` speaks of 5-tuples. A flow has the endpoints its packets carry (`Ends`) and those its row of
the socket table shows (`Row`), which for an unconnected socket are wildcards.
Each table is read at one instant; the four reads are not.

### UidResolution

`pc` is the command that runs next: `/proc/<pid>/status` of `target.pid`, `pidof`,
the status of the first pid it lists, `dumpsys`, `stat`, the scan. Each may find
something, find nothing, or fail; `Raise` is an exception, which `api.py` turns
into the empty set. `StartProcess` and `EndProcess` come between any two commands
and may give a pid to another process.

The package is passed in literal quotes (`uid.py:87`, `95`, `149`). `AdbExecutor`
and `LocalExecutor` keep arguments apart, so `pidof` and `dumpsys` look for a name
with quotes in it and find nothing; with an adapter that joins the arguments, as
the docstring of `Executor` describes it, the shell takes the quotes away. This is
`KeepsQuotes`. `stat` has none, so an installed app is resolved with all of them.
The scan has a script in quotes of its own, and fails with all of them (`Scan`).

### Probe and SharedTarget

`probing` is the probe's next command; `Runs` gives the outcomes of one: it does
what iptables does, or fails, or times out having run or not, or times out and, as
only adb's end of it is killed, runs on the device at any later time (`Postpone`,
`RunLate`). A late command that finds what it needs disturbs the probes that are
under way, and a late `-N` or `-A` may leave the chain after the last of them; the
properties are about probes and times without that, and a late `-F` or `-X` breaks
none of them between probes. `SetupRaises` and
`ModulesRaise` are exceptions before and after the `finally` clause. `ways` are the
ways in which the target can be rooted, `strategy` is what `AdbExecutor` found,
for good; a wrong answer while it looks is never corrected. The features that a
probe only displays are left out.

`SharedTarget` takes each session from there to its result: tier, tcpdump, launch,
stop, retrieval. `file` says of each path which captures' packets it holds. On
Android the recordings are at two paths that all sessions share and `pkill -f`
goes by name, which also finds a bundled `tcpdump_arm64_android` when told `tcpdump`; on
Linux the recording is at the session's own path and `terminate` goes by handle,
which does not reach a `tcpdump` under `sudo`. A `pkill` that timed out may get
through later, too (`SignalLate`). `FinishSockDiag` is the filter, which fails for a
capture that is missing or torn, or when the thread changed the set it iterates
over. `LaunchInVain` is a `tcpdump` that
is gone at once, which nobody looks at. A session may capture again and again with
the same output; `Crash` ends one anywhere.

## Runs

| run | instance | shows |
|---|---|---|
| `nflog_scope` | one host, both families, UID sets {b} and {a,b}, one IPv6 connection, 1 fault, 1 late command, 2 starts | `FreshConnectionsScoped`: an undisturbed capture logs fresh connections of the app exactly once, both ways, and no others. `MarkedWereScoped`, `LoggedWereScoped`: under any fault, only captured UIDs are ever marked or logged. `FreshInv` is the inductive invariant behind the first |
| `nflog_faults` | one host, 2 faults (1 late) or crashes, 3 starts or cleanups, a device rule that may come before all others, fairness | `TidyWhenAllStopped`: after an undisturbed stop or cleanup nothing is left of whatever happened before. `JumpsBounded`: how many copies of a jump the faults account for. `LeftoversRemoved`: a teardown that nothing disturbs gets to its end, also over what a crash left |
| `nflog_two_hosts` | two hosts, 3 starts or cleanups, one lost or raising command or one crash | `TidyWhenAllStopped` for two hosts that interleave; `OwedInv`, why: each jump and chain has a host that still removes it |
| `session` | both callers, both platforms, every requested tier, all 32 capability sets, 2 tier objects, 2 exceptions, 2 Ctrl-Cs | `WholeDeviceFlagged`, `NoRulesAfterOneMishap` (but for a `capture()` whose `start` raised, and a Tier 2 object replaced by one of Tier 1), `CapturesAreStopped`; `ImplementsAppCapture`, the refinement |
| `sockdiag` | scoped and unscoped, 2 owners, 3 flows (connected, bound, neither), 2 sockets opened, fairness | `NothingUnrelated`, `SampledIsKept`, `ReportMatchesPcap`, `StopEnds` |
| `uids` | three pids; a main process, an isolated child and an app with a longer name; every target, breadth and executor; 2 processes start or end, 2 commands fail | `OnlyTheAppsUids` (a reused pid aside), `InstalledIsResolved` (when no command fails), `NeverDnsAlone` |
| `shared_target` | two sessions, Android and Linux, rooted in one way, by `sudo` or not, with and without a tcpdump of its own; a full kernel, one without `nfnetlink_log`, one without CONNMARK; 2 captures, one failure, crash or late command | the probe: `OnlyRealFeatures`, `CleanProbeIsExact`, `ProbeChainRemoved`, `TierTwoIsDelivered`; the files: `UndisturbedPcapIsOwn`; the processes: `RunsUntilStopped`, `StoppedCapturesEnd` |

Runs that show a disagreement between the code and what it says of itself:

| run | property | what happens |
|---|---|---|
| `nflog_stale_mark` | `AllConnectionsScoped` | a connection marked in an earlier capture keeps its mark and is logged into the next, for another app |
| `session_reuse` | `TierAsUsed` | after one unscoped capture a session reports all later ones as WHOLE_DEVICE |
| `session_teardown` | `TeardownUndoesStart` | a start cut short after the launch leaves `tcpdump` running |
| `shared_empty` | `EmptyCaptureIsTold` | a Tier 2 capture without a packet has a 24-byte header, so `_check_liveness` does not warn of it |
| `uid_isolated` | `ChildrenAreScoped` | the scan for child processes never runs as written, so isolated children are never in scope |

Smaller ones that the models contain and no run is about: a command of the IPv4
set-up that fails with a return code goes unnoticed, though `tiers/nflog.py:76`
calls it required; a rule that another program inserts between the two
`-I OUTPUT` puts LOG before MARK (`netfilter.py:135`); `LocalExecutor.is_rooted`
does not count `sudo`, so without uid 0 Linux never gets Tier 2, though
`executors/base.py:78` says "(or can elevate to)"; Tier 1 keeps another app's
packets to a server the app used, though `src/README.md:31` says "keep only packets
whose 5-tuple belongs to the target UID(s)"; and since pulls and launches are not
checked, a pcap of an earlier capture may be fetched for one whose `tcpdump` never
came up.

### Bounds

* `MaxFaults`, `MaxLate` in `nflog_faults`: the most for which
  `TidyWhenAllStopped` holds with one host (`TidyAfterFaults` proves it for
  `MaxFaults + MaxLate <= 3` and any other bounds). With one host, one family, no
  late command and four faults over four starts, or with one late command more
  than in the run, three copies of a jump accumulate; two passes of `-D` leave
  one, and the chain it names stays. That is the exact reach of the remark in
  `netfilter.py:153` that two passes clean duplicates up; raising the bounds in
  `NflogFaults.cfg` shows it.
* `MaxStarts`: 2 is the least that lets a capture meet an earlier one's leftovers;
  3 also lets a cleanup or a third script overlap two others.
* two hosts: the one fault of the run is one command that is lost or raises, or one
  crash; `OwedInvariant` sets no bound on them but its condition (see below). Without faults `TidyWithoutFaults`
  proves the tables tidy for any number of hosts. A third
  host does matter to a capture that follows: without any fault, three hosts that
  heal, install one after the other and give up leave three copies of a jump, and
  the next capture logs its packets twice. `FreshWithoutFaults` is for two.
* `MaxDeviceRules`, `DevicePrepends` in `nflog_scope`: other programs' rules that
  are appended change nothing (proved); one inserted between the two `-I OUTPUT`
  puts LOG before MARK, and `FreshConnectionsScoped` fails.
* `MaxErrors`, `MaxInterrupts` 2: `NoRulesAfterOneMishap` is about at most one in
  all, and the second of each lets the runs show that two are tolerated where the
  properties say so (exceptions) and are not vacuous where they do not.
* `MaxOpens` 2 with three flows: two apps with a socket each, or one socket that
  changes its owner.
* `MaxChurn` 2 gives a pid to another process (one end, one start); `MaxFaults` 2
  takes two of the strategies away.
* `MaxCaptures` 2: two that overlap, or one that finds what another left;
  `MaxProbeFaults` 1: with 2 the commands that are still to run late multiply
  the states beyond what can be searched in minutes; the theorems have no such bound
  for any of the run's properties. Two sessions are enough to share a chain, a path and a name; more are proved about. They are
  interchangeable, so the run uses symmetry (it has no liveness property).

### Fairness

`NflogTier`: a host goes on with a script it has begun (`RunLine`, `Launch`,
`Collect`) because every `shell` returns, if need be by its time-out. Nothing
makes a user start, stop or clean up, and nothing makes a late command run.
`SockDiagTier`: the operating system schedules both threads; reads and `join`
have time-outs. The other modules have no liveness property.

## Theorems

*NflogTierProofs.* `TypeCorrect` is inductive as stated. `MarkedWereScoped` is not:
a mark comes from a rule, a rule from a command, a command from a host's loop or
from one that timed out long ago. `ScopedInv` says of all of them that they are
for UIDs in `scoped`; `ScopedInvariant` proves it invariant, and `MarksAreScoped`
and `LogIsScoped` follow. `NetfilterProofs` has what they need of the tables:
`ApplyType` (a command leaves a table over the UIDs it was over), `CommandShapes`,
`VisitedRules`, `StampsOnlyFor` (only a `SetXmark(uid)` rule marks for `uid`) and
monotonicity in the UIDs. Assumptions: `UidsAssumption`; `NflogTierAssumption`,
which says besides the types of the constants that there are finitely many hosts,
that no family is in the loops twice, and that UID resolution returns a finite,
non-empty set.

*NflogTablesProofs: the tables are tidy in the end.* That all hosts have stopped
says nothing about the tables; what does is an account. `Owed(k, j)` are the
deletions of jump j that hosts still have before them: two in a heal, a teardown
or a cleanup that has not reached them, one in a set-up past the insertion, all
in a host that failed or died. `OwedInv` says that, while nothing failed since the
last undisturbed begin, no jump is there more often than it is owed, and every
chain there is has a host that will still flush it, or delete it and it is empty.
Each command keeps this: a `-D` pays one off and takes one away (or finds none),
an `-I` adds both, and a `-X` that is refused since the chain is still referred to
leaves a jump, hence somebody who owes its deletion and flushes and deletes the
chain after that (`OwedInvariant`). When all have stopped nobody owes anything:
`TidyUnlessCrowded`,
for any number of hosts, families, captures and faults, as long as a script that
begins undisturbed after a fault finds at most the two copies that its two passes
remove (`ResetsFindFewJumps`). Two theorems discharge this condition.
`TidyWithoutFaults`: no fault, any number of hosts. `TidyAfterFaults`: one host
and `MaxFaults + MaxLate <= 3`, or one fault of any kind. The latter rests on
`JumpsStayBounded`: with one host there are never more than 1 + `faults` copies
of a jump, nor more than 1 + (`faults` + `MaxLate`) / 2, because a further copy
costs two lost commands or one that is still to come. Its invariant `CopiesInv`
also counts the insertions that are outstanding.

*NflogTablesProofs: an undisturbed capture logs what it promises.* `FreshInv`
follows a capture that began with nobody else running and nothing outstanding.
After n lines of the heal each table is `Cleared(t, n)`: so many copies of each
jump left, the chains still there, flushed, or gone; after the last, nothing of
AppTap's is in it. After n lines of the set-up, and m turns of the loop over the
UIDs, it is `Built(t, n, us)`: exactly the rules of those lines, in their order,
with other programs' rules behind them. `ClearedLine`, `ClearedIsUnbuilt`,
`BuiltLine` and `BuiltTurn` (in `NetfilterProofs`) take one command each;
`BuiltLogs` says what a packet meets in the finished table: one copy if its
connection is marked or its owner is in `us`, none otherwise. Meanwhile
connections come and go; one that is marked during the heal was marked by an
earlier capture's rules, one that is marked later is the app's, since the marking
rules that are there are for its UIDs only (`BuiltMarks`). After a warning (IPv6
raised) the first family's table is complete. `FreshInvariant` proves it, and
`FreshUnlessCrowded` draws the conclusion, for any
number of hosts, families, UIDs, connections and captures and whatever happened
before, under two conditions: other programs append their rules
(`DevicePrepends = FALSE`), and a heal that begins undisturbed finds at most two
copies of each jump (`HealsFindFewJumps`). The second is discharged as before:
`FreshAfterFaults` for one host (it covers the run `nflog_scope`), and
`FreshWithoutFaults` for two hosts and no fault, where a jump is there at most
once for each host that has yet to delete it (`JumpsHeld`). None of the conditions
can be dropped: see the bounds above.

*CaptureSessionProofs.* Three properties, three invariants. `FlagInv` follows the
flag from the failed resolution through tier object and result, over any number of
captures: the point is that nothing ever clears it. `RulesInv` says where the rules
can be up while nothing has gone wrong yet; the first mishap then happens in one
of those states, and from there every way out of the session passes a teardown.
`ReadersInv` says that a capture that began and still runs is one whose stop is
still to come, or whose last signal was lost, or Ctrl-C is leaving the session's last
call; `CapturesEndWithSession` is what is
left of it at the end. `OneMishapLeavesNoRules` makes two exceptions, in which the
code does leave rules: `capture()` calls `start` outside its `try`, and a `start`
after one that raised may put a Tier 1 object, whose teardown does nothing, in the
place of the Tier 2 object. `SessionImplementsAppCapture` is
the refinement: `ScopeInv` keeps the scope of the tier object that of the capture
from its begin to its report, also through a `stop` that raised and is retried;
with it each step is a `Begin`, a `Report`, an `End` or a stutter of `AppCapture`.
Assumption: `CaptureSessionAssumption`.

*SockDiagTierProofs.* `TypeCorrect`, and from it, with invariants that say which
connections and packets each thread holds at which step, `NothingUnrelatedKept`,
`SampledKept` and `ReportsMatch`, for any flows, owners and sockets: the set only
grows, so what was iterated over is still there when it is reported, and when the
thread has ended it has not grown either. Assumption:
`SockDiagTierAssumption`.

*UidResolutionProofs.* The argument is about what each command can have read:
a status read of a pid that was not reused is the app's, since the pid came from
the caller or from `pidof`; a failed strategy leaves the set empty; `stat` always
answers for an installed package, so with no failure the search ends with its
appId. Assumption: `UidResolutionAssumption`.

*SharedTargetProofs* and *ProbeProofs* hold for any number of sessions, captures
and failures and every kernel.
`RealInv`: what has been found so far is there, and a way to root that was chosen
works; hence `ProbesReportTheReal` and, with the choice of the tier,
`TierTwoDelivers`. `NumberInv` (a capture's number is its own), `WritersInv` and
`Kept` (what a session left running is still to be stopped, or cannot be) give
`StopsReach`; `Running` gives `CapturesRunUntilStopped`. `RecordInv` and
`Undisturbed` follow a capture's packets from its recording through the pull and
the filter to its output, and show that nobody else writes one of those files
while `own` holds: `UndisturbedPcaps`. `ChainInv` says that, when nothing failed
since an undisturbed probe began, a chain that exists has somebody who will still
flush and delete it: a session before its flush, or before its delete with the
chain empty; whoever breaks that for one session (another's rule after its flush)
provides for it by the same step; a late `-F` or `-X` only empties or removes the
chain (`ChainLate`). `Exact` says what an undisturbed probe knows at each command. A
late command touches only the chain, or the tcpdumps of a name, and what says that
somebody was disturbed (`LateFrame`); that one is outstanding means that the target
is an Android device that can be rooted (`NumberInv`). Assumptions: `ProbeAssumption`, `SharedTargetAssumption`.

Left to TLC: liveness under fairness (`LeftoversRemoved`, `StopEnds`), which is
out of the prover's reach. All other properties of the passing runs are theorems;
`JumpsHeld` was model-checked with two hosts before it was proved.

## Plan

Done, in this order: Netfilter, NflogTier, their proofs; Capabilities,
CaptureSession, its proofs; SockDiagTier, its proofs; UidResolution, its proofs;
Probe, SharedTarget, their proofs; AppCapture and the refinement; the tables of
Tier 2, in the end (NflogTables) and during a capture (NflogFresh).

What could follow: an abstract Tier 2 (a scope, a set of marked connections) that
`NflogTier` implements while it is undisturbed, which `FreshInv` prepares; a
sharper condition than `HealsFindFewJumps` for one host with many faults, on what
is outstanding when the heal begins; and `NflogTier` with the two sessions of
`SharedTarget` on one device, whose state space is the product.

## Not modelled

`cli.py`: argument parsing and printing around `capture()` and `cleanup()`, which
are modelled; its exit code repeats whether the result names a pcap. Parsing of
command lines and of listings character by character, wording and logging; a
tcpdump path given by the caller and the choice of the bundled architecture; the
facts of a probe that are only displayed (ip6tables, backend); the content of
packets beyond owner, flow and mark; the IPv4/IPv6 decoding of addresses; SIGKILL
between two Python statements of a session (in `NflogTier` and `SharedTarget` it
is `Crash`); sessions on different devices, which share nothing.
