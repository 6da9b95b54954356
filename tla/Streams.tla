------------------------------ MODULE Streams ------------------------------
(***************************************************************************)
(* What the web does with the worker's events: the bridge from the ZeroMQ  *)
(* stream to the event bus and the log ring, the browsers that follow      *)
(* either, the request that waits on the bus for the worker's answer, and  *)
(* the cache of anchor timelines that is purged by events.                 *)
(*                                                                         *)
(* Every subscriber has a bounded queue; one that is full takes its        *)
(* subscriber off the bus, although the subscriber goes on waiting. The    *)
(* web runs on one event loop: a step ends where the code awaits. Lines of *)
(* the web's own log come from other threads.                              *)
(***************************************************************************)
EXTENDS Naturals, Sequences, Functions

CONSTANTS
    Insts,        \* instances that are not indexed, so that their timelines are cached
    Clients,      \* browsers on /api/events
    Threads,      \* threads of the web that log
    None,
    QueueCap,     \* maxsize of a queue of the bus (256)
    LogQueueCap,  \* _QUEUE_CAPACITY (512)
    RingCap,      \* _RING_CAPACITY (1000)
    MaxInputs     \* bound: backups, other messages, log lines, requests and faults, together

ASSUME StreamsAssumption ==
    /\ None \notin Insts \cup Nat /\ {"invalidator", "test"} \cap Clients = {}
    /\ {QueueCap, LogQueueCap, RingCap} \subseteq Nat \ {0}
    /\ MaxInputs \in Nat

VARIABLES
    backups,   \* successful backups of each instance
    owed,      \* the worker has committed a backup and has to publish it
    asked,     \* connectivity tests the worker has been sent
    wire,      \* the worker's stream, not yet received
    bus,       \* everything published on the bus so far
    sub,       \* subscriptions: whether on the bus, the queue, and from where
    seen,      \* what each browser received since it connected
    cache,     \* anchor_history_cache: how many backups the timeline covers
    walk,      \* a request that reads every backup
    test,      \* the request that waits for the worker
    ring,      \* LogRing._buf
    calls,     \* lines scheduled for the loop
    posting,   \* the line a thread has appended but not scheduled
    viewer,    \* the browser on /api/logs/ws
    excused,   \* instances whose timeline may be outdated for good
    lines,     \* lines logged so far
    inputs     \* so far

cacheVars == <<cache, walk, excused>>
logVars == <<ring, calls, posting, viewer, lines>>
busVars == <<bus, sub, seen, test>>
workerVars == <<backups, owed, asked>>
vars == <<workerVars, wire, busVars, cacheVars, logVars, inputs>>

Subscribers == {"invalidator", "test"} \cup Clients
Topics == {"finished", "failed", "heartbeat", "result", "log"}
Off == [at |-> "off", q |-> <<>>, from |-> 0]
NoViewer == [at |-> "off", snap |-> <<>>, q |-> <<>>, live |-> <<>>, from |-> 0]
Message(topic, of) == [topic |-> topic, of |-> of]

TypeOK ==
    /\ backups \in [Insts -> 0..MaxInputs] /\ owed \in [Insts -> 0..MaxInputs]
    /\ \A n \in DOMAIN wire : wire[n].topic \in Topics
    /\ \A n \in DOMAIN bus : bus[n].topic \in Topics \ {"log"}
    /\ \A s \in Subscribers : /\ sub[s].at \in {"off", "on", "dropped"}
                              /\ Len(sub[s].q) <= QueueCap
                              /\ sub[s].from <= Len(bus)
    /\ cache \in [Insts -> 0..MaxInputs \cup {None}]
    /\ walk = None \/ (walk.inst \in Insts /\ walk.covers <= backups[walk.inst] /\ walk.raced \in BOOLEAN)
    /\ test.at \in {"idle", "subscribed", "waiting"} /\ test.rid \in 0..MaxInputs
    /\ Len(ring) <= RingCap /\ Len(viewer.q) <= LogQueueCap
    /\ viewer.at \in {"off", "snapshot", "on", "dropped"}
    /\ excused \subseteq Insts
    /\ asked \subseteq 1..MaxInputs
    /\ lines \in Nat /\ inputs \in 0..MaxInputs

\* lifespan: nothing is carried over from an earlier process.
WebStarts ==
    /\ bus' = <<>> /\ sub' = [s \in Subscribers |-> Off] /\ seen' = [c \in Clients |-> <<>>]
    /\ cache' = [i \in Insts |-> None] /\ walk' = None /\ excused' = {}
    /\ test' = [test EXCEPT !.at = "idle"]
    /\ ring' = <<>> /\ calls' = <<>> /\ posting' = [t \in Threads |-> None] /\ viewer' = NoViewer
    /\ UNCHANGED lines

Init ==
    /\ backups = [i \in Insts |-> 0] /\ owed = [i \in Insts |-> 0] /\ asked = {}
    /\ wire = <<>>
    /\ bus = <<>> /\ sub = [s \in Subscribers |-> Off] /\ seen = [c \in Clients |-> <<>>]
    /\ cache = [i \in Insts |-> None] /\ walk = None /\ excused = {}
    /\ test = [at |-> "idle", rid |-> 0]
    /\ ring = <<>> /\ calls = <<>> /\ posting = [t \in Threads |-> None] /\ viewer = NoViewer
    /\ lines = 0 /\ inputs = 0

\* The invalidator subscribes before the first request is served.
Serving == sub["invalidator"].at # "off"
Input == inputs < MaxInputs /\ inputs' = inputs + 1
-----------------------------------------------------------------------------
(* The worker.                                                             *)

\* IpcPublisher.publish
Publish(m) == wire' = Append(wire, m)

\* backup_instance: the row is committed first, its event follows.
CommitBackup(i) ==
    /\ Input
    /\ backups' = [backups EXCEPT ![i] = @ + 1]
    /\ owed' = [owed EXCEPT ![i] = @ + 1]
    /\ UNCHANGED <<asked, wire, busVars, cacheVars, logVars>>

PublishFinished(i) ==
    /\ owed[i] > 0
    /\ owed' = [owed EXCEPT ![i] = @ - 1]
    /\ Publish(Message("finished", i))
    /\ UNCHANGED <<backups, asked, busVars, cacheVars, logVars, inputs>>

\* Heartbeats, backups that fail, and the worker's log (InProcessLogHandler).
PublishOther(m) ==
    /\ Input
    /\ Publish(m)
    /\ UNCHANGED <<workerVars, busVars, cacheVars, logVars>>

\* The worker answers a connectivity test.
Answer(rid) ==
    /\ rid \in asked
    /\ asked' = asked \ {rid}
    /\ Publish(Message("result", rid))
    /\ UNCHANGED <<backups, owed, busVars, cacheVars, logVars, inputs>>

\* A timeline read before an event that will not come.
Missed(S) ==
    /\ excused' = excused \cup S
    /\ walk' = IF walk # None /\ walk.inst \in S THEN [walk EXCEPT !.raced = TRUE] ELSE walk

\* import_backups: the web commits successful rows, and publishes nothing.
ImportBackups(i) ==
    /\ Serving /\ Input
    /\ backups' = [backups EXCEPT ![i] = @ + 1]
    /\ Missed({i})
    /\ UNCHANGED <<owed, asked, wire, busVars, cache, logVars>>

\* The worker dies between a commit and its event; requests sent to it are lost.
WorkerCrash ==
    /\ Input
    /\ owed' = [i \in Insts |-> 0] /\ asked' = {}
    /\ Missed({i \in Insts : owed[i] > 0})
    /\ UNCHANGED <<backups, wire, busVars, cache, logVars>>

\* PUB and SUB sockets drop what exceeds their high-water marks.
LoseMessage ==
    /\ Input /\ wire # <<>>
    /\ wire' = Tail(wire)
    /\ Missed(IF Head(wire).topic = "finished" THEN {Head(wire).of} ELSE {})
    /\ UNCHANGED <<workerVars, busVars, cache, logVars>>

\* The web process is started again; what was on its way is lost.
WebRestart ==
    /\ Input
    /\ wire' = <<>>
    /\ WebStarts
    /\ UNCHANGED workerVars
-----------------------------------------------------------------------------
(* The bridge, the bus and the ring.                                       *)

\* Mutant: a full queue loses the event and keeps its subscriber.
BugPut(s, m) ==
    IF s.at # "on" \/ Len(s.q) = QueueCap THEN s ELSE [s EXCEPT !.q = Append(@, m)]

\* EventBus.publish, for one subscriber.
Put(s, m) ==
    IF s.at # "on" THEN s
    ELSE IF Len(s.q) = QueueCap THEN [s EXCEPT !.at = "dropped"]
    ELSE [s EXCEPT !.q = Append(@, m)]

\* deque(maxlen)
Kept(s) == IF Len(s) > RingCap THEN Tail(s) ELSE s

\* IpcClient._bridge_loop: log frames go to the ring, the others to the bus.
BridgeLog ==
    /\ wire # <<>> /\ Head(wire).topic = "log"
    /\ wire' = Tail(wire)
    /\ lines' = lines + 1
    /\ ring' = Kept(Append(ring, lines'))
    /\ calls' = Append(calls, lines')
    /\ UNCHANGED <<workerVars, busVars, cacheVars, posting, viewer, inputs>>

BridgeEvent ==
    /\ wire # <<>> /\ Head(wire).topic # "log"
    /\ wire' = Tail(wire)
    /\ bus' = Append(bus, Head(wire))
    /\ sub' = [s \in Subscribers |-> Put(sub[s], Head(wire))]
    /\ UNCHANGED <<workerVars, seen, test, cacheVars, logVars, inputs>>

\* EventBus.subscribe
Subscribed == [at |-> "on", q |-> <<>>, from |-> Len(bus)]
-----------------------------------------------------------------------------
(* Browsers on /api/events.                                                *)

Connect(c) ==
    /\ Serving /\ Input /\ sub[c].at = "off"
    /\ sub' = [sub EXCEPT ![c] = Subscribed]
    /\ seen' = [seen EXCEPT ![c] = <<>>]
    /\ UNCHANGED <<workerVars, wire, bus, test, cacheVars, logVars>>

\* queue.get and send_text; also for a subscriber that is off the bus.
Deliver(c) ==
    /\ sub[c].q # <<>>
    /\ seen' = [seen EXCEPT ![c] = Append(@, Head(sub[c].q))]
    /\ sub' = [sub EXCEPT ![c].q = Tail(@)]
    /\ UNCHANGED <<workerVars, wire, bus, test, cacheVars, logVars, inputs>>

\* The browser has gone, which shows when something is sent to it.
Disconnect(c) ==
    /\ sub[c].q # <<>>
    /\ sub' = [sub EXCEPT ![c] = Off]
    /\ seen' = [seen EXCEPT ![c] = <<>>]
    /\ UNCHANGED <<workerVars, wire, bus, test, cacheVars, logVars, inputs>>
-----------------------------------------------------------------------------
(* test_replication.                                                       *)

TestSubscribe ==
    /\ Serving /\ Input /\ test.at = "idle"
    /\ test' = [at |-> "subscribed", rid |-> test.rid + 1]
    /\ sub' = [sub EXCEPT !["test"] = Subscribed]
    /\ UNCHANGED <<workerVars, wire, bus, seen, cacheVars, logVars>>

\* IpcClient.send
TestSend ==
    /\ test.at = "subscribed"
    /\ test' = [test EXCEPT !.at = "waiting"]
    /\ asked' = asked \cup {test.rid}
    /\ UNCHANGED <<backups, owed, wire, bus, sub, seen, cacheVars, logVars, inputs>>

\* An envelope that is the answer ends the request, another one does not.
TestReceive ==
    /\ test.at = "waiting" /\ sub["test"].q # <<>>
    /\ IF Head(sub["test"].q) = Message("result", test.rid)
       THEN test' = [test EXCEPT !.at = "idle"] /\ sub' = [sub EXCEPT !["test"] = Off]
       ELSE sub' = [sub EXCEPT !["test"].q = Tail(@)] /\ UNCHANGED test
    /\ UNCHANGED <<workerVars, wire, bus, seen, cacheVars, logVars, inputs>>

\* Twenty seconds: 504, and the answer that comes later is nobody's.
TestTimeout ==
    /\ test.at = "waiting"
    /\ test' = [test EXCEPT !.at = "idle"]
    /\ sub' = [sub EXCEPT !["test"] = Off]
    /\ UNCHANGED <<workerVars, wire, bus, seen, cacheVars, logVars, inputs>>
-----------------------------------------------------------------------------
(* The cache of timelines.                                                 *)

InvalidatorStarts ==
    /\ sub["invalidator"].at = "off"
    /\ sub' = [sub EXCEPT !["invalidator"] = Subscribed]
    /\ UNCHANGED <<workerVars, wire, bus, seen, test, cacheVars, logVars, inputs>>

\* Mutant: the condition on success is the wrong way round.
BugInvalidates(m) == m.topic = "failed"

\* backup.finished with success.
Invalidates(m) == m.topic = "finished"

\* _anchor_history_invalidator
Invalidate ==
    /\ sub["invalidator"].q # <<>>
    /\ LET m == Head(sub["invalidator"].q) IN
       IF Invalidates(m)
       THEN /\ cache' = [cache EXCEPT ![m.of] = None]
            /\ excused' = excused \ {m.of}
            /\ walk' = IF walk # None /\ walk.inst = m.of THEN [walk EXCEPT !.raced = TRUE] ELSE walk
       ELSE UNCHANGED cacheVars
    /\ sub' = [sub EXCEPT !["invalidator"].q = Tail(@)]
    /\ UNCHANGED <<workerVars, wire, bus, seen, test, logVars, inputs>>

\* instance_anchor_history lists the backups and closes its session ...
OpenHistory(i) ==
    /\ Serving /\ Input /\ walk = None
    /\ walk' = [inst |-> i, covers |-> backups[i], raced |-> FALSE, at |-> "listed"]
    /\ UNCHANGED <<workerVars, wire, busVars, cache, excused, logVars>>

\* ... answers from the cache, or leaves the reading to a thread ...
LookUp ==
    /\ walk # None /\ walk.at = "listed"
    /\ walk' = IF cache[walk.inst] # None THEN None ELSE [walk EXCEPT !.at = "reading"]
    /\ UNCHANGED <<workerVars, wire, busVars, cache, excused, logVars, inputs>>

\* ... and stores what was read.
StoreWalk ==
    /\ walk # None /\ walk.at = "reading"
    /\ cache' = [cache EXCEPT ![walk.inst] = walk.covers]
    /\ excused' = IF walk.raced THEN excused \cup {walk.inst} ELSE excused \ {walk.inst}
    /\ walk' = None
    /\ UNCHANGED <<workerVars, wire, busVars, logVars, inputs>>

\* A file cannot be read or parsed: the request fails.
AbortWalk ==
    /\ walk # None /\ walk.at = "reading"
    /\ walk' = None
    /\ UNCHANGED <<workerVars, wire, busVars, cache, excused, logVars, inputs>>
-----------------------------------------------------------------------------
(* The log viewer.                                                         *)

\* LogRing.post_threadsafe, on a thread of the web: the line is in the ring ...
Post(t) ==
    /\ Input /\ posting[t] = None
    /\ lines' = lines + 1
    /\ ring' = Kept(Append(ring, lines'))
    /\ posting' = [posting EXCEPT ![t] = lines']
    /\ UNCHANGED <<workerVars, wire, busVars, cacheVars, calls, viewer>>

\* ... before it is scheduled (call_soon_threadsafe).
Schedule(t) ==
    /\ posting[t] # None
    /\ calls' = Append(calls, posting[t])
    /\ posting' = [posting EXCEPT ![t] = None]
    /\ UNCHANGED <<workerVars, wire, busVars, cacheVars, ring, viewer, lines, inputs>>

\* Mutant: a full queue loses the line and keeps its viewer.
BugFanout(v, n) == IF v.at # "on" \/ Len(v.q) = LogQueueCap THEN v ELSE [v EXCEPT !.q = Append(@, n)]

\* LogRing._fanout, for one subscriber.
Fanout(v, n) ==
    IF v.at # "on" THEN v
    ELSE IF Len(v.q) = LogQueueCap THEN [v EXCEPT !.at = "dropped"]
    ELSE [v EXCEPT !.q = Append(@, n)]

RunCall ==
    /\ calls # <<>>
    /\ viewer' = Fanout(viewer, Head(calls))
    /\ calls' = Tail(calls)
    /\ UNCHANGED <<workerVars, wire, busVars, cacheVars, ring, posting, lines, inputs>>

\* logs_ws sends the snapshot, then subscribes.
OpenLogs ==
    /\ Serving /\ Input /\ viewer.at = "off"
    /\ viewer' = [NoViewer EXCEPT !.at = "snapshot", !.snap = ring]
    /\ UNCHANGED <<workerVars, wire, busVars, cacheVars, ring, calls, posting, lines>>

FollowLogs ==
    /\ viewer.at = "snapshot"
    /\ viewer' = [viewer EXCEPT !.at = "on", !.from = lines]
    /\ UNCHANGED <<workerVars, wire, busVars, cacheVars, ring, calls, posting, lines, inputs>>

DeliverLog ==
    /\ viewer.q # <<>>
    /\ viewer' = [viewer EXCEPT !.live = Append(@, Head(viewer.q)), !.q = Tail(@)]
    /\ UNCHANGED <<workerVars, wire, busVars, cacheVars, ring, calls, posting, lines, inputs>>

LeaveLogs ==
    /\ viewer.q # <<>>
    /\ viewer' = NoViewer
    /\ UNCHANGED <<workerVars, wire, busVars, cacheVars, ring, calls, posting, lines, inputs>>

Next ==
    \/ \E i \in Insts : CommitBackup(i) \/ ImportBackups(i) \/ PublishFinished(i) \/ OpenHistory(i)
                       \/ PublishOther(Message("failed", i))
    \/ PublishOther(Message("heartbeat", None)) \/ PublishOther(Message("log", None))
    \/ \E rid \in 1..MaxInputs : Answer(rid)
    \/ WorkerCrash \/ LoseMessage \/ WebRestart
    \/ BridgeLog \/ BridgeEvent
    \/ \E c \in Clients : Connect(c) \/ Deliver(c) \/ Disconnect(c)
    \/ TestSubscribe \/ TestSend \/ TestReceive \/ TestTimeout
    \/ InvalidatorStarts \/ Invalidate \/ LookUp \/ StoreWalk \/ AbortWalk
    \/ \E t \in Threads : Post(t) \/ Schedule(t)
    \/ RunCall \/ OpenLogs \/ FollowLogs \/ DeliverLog \/ LeaveLogs

Spec == Init /\ [][Next]_vars

\* The worker publishes what it has committed; the bridge and the invalidator are
\* tasks of a loop that runs every ready task in turn.
FairSpec ==
    /\ Spec
    /\ \A i \in Insts : WF_vars(PublishFinished(i))
    /\ WF_vars(BridgeEvent) /\ WF_vars(BridgeLog) /\ WF_vars(Invalidate)
-----------------------------------------------------------------------------
(* Properties.                                                             *)

\* A browser that is on the bus has received, or will, every event published since it
\* connected, in order; one that is too slow misses the end but never the middle
\* (EventBus.publish takes it off the bus instead of skipping an event).
StreamHasNoHoles ==
    \A c \in Clients :
        sub[c].at # "off" =>
            LET got == seen[c] \o sub[c].q IN
            /\ got = SubSeq(bus, sub[c].from + 1, sub[c].from + Len(got))
            /\ sub[c].at = "on" => sub[c].from + Len(got) = Len(bus)

\* The answer to a test is never missed for having come too early: once published on
\* the bus it is in the queue of the request that waits for it, unless that queue
\* overflowed (test_replication subscribes before it sends).
AnswerIsWaitedFor ==
    test.at = "waiting" /\ sub["test"].at = "on"
    /\ (\E n \in DOMAIN bus : bus[n] = Message("result", test.rid))
        => Message("result", test.rid) \in Range(sub["test"].q)

\* Every line logged after a viewer has subscribed reaches it or is on its way,
\* whatever the threads do between ring and loop, unless the viewer fell behind.
LinesReachViewer ==
    viewer.at = "on" =>
        \A n \in viewer.from + 1..lines :
            n \in Range(viewer.live) \cup Range(viewer.q) \cup Range(calls) \cup Range(posting)

\* An event of the instance has to be published, is on its way or in the queue.
Announced(i) ==
    owed[i] > 0 \/ Message("finished", i) \in Range(wire) \cup Range(sub["invalidator"].q)

\* A timeline that lacks a backup; one for whose backup no event comes (an import, a
\* lost frame), or whose rows were read before the event that purged it, counts only
\* while the event of a later backup is coming.
Outdated(i) ==
    /\ cache[i] \notin {None, backups[i]}
    /\ i \notin excused \/ Announced(i)
    /\ sub["invalidator"].at # "dropped"

\* A timeline that lacks a backup the worker announces does not stay in the cache,
\* and the next announced backup purges one that an import, a lost event or a walk
\* left outdated (_anchor_history_invalidator); except once its queue overflowed.
StaleTimelineGoes == \A i \in Insts : Outdated(i) ~> ~Outdated(i)
=============================================================================
