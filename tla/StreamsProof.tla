---------------------------- MODULE StreamsProof ----------------------------
(***************************************************************************)
(* What Streams promises those who follow a stream: browsers see no holes, *)
(* the answer to a test finds its request, log lines reach their viewer.   *)
(* For any number of instances, browsers, threads and inputs and any queue *)
(* sizes.                                                                  *)
(***************************************************************************)
EXTENDS Streams, SequenceTheorems, TLAPS

Msg == [topic: {"finished", "failed"}, of: Insts] \cup [topic: {"heartbeat", "log"}, of: {None}]
           \cup [topic: {"result"}, of: Nat]
Sub == [at: {"off", "on", "dropped"}, q: Seq(Msg), from: Nat]
Walk == [inst: Insts, covers: Nat, raced: BOOLEAN, at: {"listed", "reading"}]
Viewer == [at: {"off", "snapshot", "on", "dropped"}, snap: Seq(Nat), q: Seq(Nat), live: Seq(Nat), from: Nat]
Test == [at: {"idle", "subscribed", "waiting"}, rid: Nat]

\* The worker's side: nothing is counted that was not put in.
WorkerInv ==
    /\ inputs \in 0..MaxInputs
    /\ backups \in [Insts -> Nat] /\ owed \in [Insts -> Nat]
    /\ \A i \in Insts : backups[i] <= inputs /\ owed[i] <= inputs
    /\ test \in Test /\ test.rid <= inputs /\ (test.at # "idle" => test.rid # 0)
    /\ asked \subseteq 1..MaxInputs
    /\ wire \in Seq(Msg)

\* The bus: a subscriber that is off has nothing, and none has more than fits.
BusInv ==
    /\ bus \in Seq(Msg) /\ \A m \in Range(bus) : m.topic # "log"
    /\ sub \in [Subscribers -> Sub] /\ seen \in [Clients -> Seq(Msg)]
    /\ \A s \in Subscribers : /\ sub[s].at = "off" => sub[s].q = <<>>
                              /\ Len(sub[s].q) <= QueueCap /\ sub[s].from <= Len(bus)

CacheInv ==
    /\ cache \in [Insts -> 0..MaxInputs \cup {None}]
    /\ walk = None \/ (walk \in Walk /\ walk.covers <= backups[walk.inst])
    /\ excused \subseteq Insts

LogInv ==
    /\ ring \in Seq(Nat) /\ Len(ring) <= RingCap
    /\ calls \in Seq(Nat) /\ posting \in [Threads -> Nat \cup {None}]
    /\ viewer \in Viewer /\ Len(viewer.q) <= LogQueueCap
    /\ lines \in Nat

\* Request numbers are used once: while a request has only subscribed, nothing
\* answers it yet.
Used(rid) == rid <= test.rid /\ (test.at = "subscribed" => rid # test.rid)
RidInv ==
    /\ \A rid \in asked : Used(rid)
    /\ \A m \in Range(wire) \cup Range(bus) : m.topic = "result" => Used(m.of)

\* What a browser has and what waits for it are the bus from where it subscribed.
Tracks(b, f, g, q) ==
    /\ f + Len(g) + Len(q) <= Len(b)
    /\ \A j \in 1..Len(g) : g[j] = b[f + j]
    /\ \A j \in 1..Len(q) : q[j] = b[f + Len(g) + j]
Follows(c) ==
    /\ Tracks(bus, sub[c].from, seen[c], sub[c].q)
    /\ sub[c].at = "on" => sub[c].from + Len(seen[c]) + Len(sub[c].q) = Len(bus)
FollowInv == \A c \in Clients : sub[c].at # "off" => Follows(c)

StInv == WorkerInv /\ BusInv /\ CacheInv /\ LogInv /\ RidInv /\ FollowInv /\ AnswerIsWaitedFor /\ LinesReachViewer

-----------------------------------------------------------------------------
\* The sizes of the queues.
LEMMA Caps == QueueCap \in Nat /\ LogQueueCap \in Nat /\ RingCap \in Nat /\ QueueCap # 0
BY StreamsAssumption

(* Sequences.                                                              *)

\* What a sequence holds.
LEMMA RangeInSet == ASSUME NEW S, NEW s \in Seq(S) PROVE Range(s) \subseteq S
BY DEF Range

\* The empty sequence holds nothing.
LEMMA RangeEmpty == Range(<<>>) = {}
BY DEF Range

\* What is appended is held besides what was.
LEMMA RangeAppend == ASSUME NEW S, NEW s \in Seq(S), NEW x \in S PROVE Range(Append(s, x)) = Range(s) \cup {x}
<1>1. /\ Append(s, x) \in Seq(S) /\ Len(Append(s, x)) = Len(s) + 1 /\ Len(s) \in Nat
      /\ \A j \in 1..Len(s) : Append(s, x)[j] = s[j]
      /\ Append(s, x)[Len(s) + 1] = x
    OBVIOUS
<1>2. DOMAIN s = 1..Len(s) /\ DOMAIN Append(s, x) = 1..(Len(s) + 1)
    BY <1>1
<1>3. ASSUME NEW y \in Range(Append(s, x)) PROVE y \in Range(s) \cup {x}
    <2>1. PICK j \in 1..(Len(s) + 1) : y = Append(s, x)[j]
        BY <1>2 DEF Range
    <2> QED BY <1>1, <1>2, <2>1 DEF Range
<1>4. ASSUME NEW y \in Range(s) PROVE y \in Range(Append(s, x))
    <2>1. PICK j \in 1..Len(s) : y = s[j]
        BY <1>2 DEF Range
    <2>2. j \in DOMAIN Append(s, x) /\ y = Append(s, x)[j]
        BY <1>1, <1>2, <2>1
    <2> QED BY <2>2 DEF Range
<1>5. x \in Range(Append(s, x))
    <2>1. Len(s) + 1 \in DOMAIN Append(s, x)
        BY <1>1, <1>2
    <2> QED BY <1>1, <2>1 DEF Range
<1> QED BY <1>3, <1>4, <1>5

\* Taking the head leaves the others.
LEMMA RangeTail ==
    ASSUME NEW S, NEW s \in Seq(S), s # <<>>
    PROVE  Head(s) \in S /\ Tail(s) \in Seq(S) /\ Range(s) = Range(Tail(s)) \cup {Head(s)}
<1>1. /\ Head(s) = s[1] /\ Tail(s) \in Seq(S) /\ Len(Tail(s)) = Len(s) - 1
      /\ Len(s) \in Nat \ {0} /\ \A j \in 1..(Len(s) - 1) : Tail(s)[j] = s[j + 1]
    OBVIOUS
<1>2. DOMAIN s = 1..Len(s) /\ DOMAIN Tail(s) = 1..(Len(s) - 1)
    BY <1>1
<1>3. ASSUME NEW y \in Range(s) PROVE y \in Range(Tail(s)) \cup {Head(s)}
    <2>1. PICK j \in 1..Len(s) : y = s[j]
        BY <1>2 DEF Range
    <2>2. CASE j = 1
        BY <1>1, <2>1, <2>2
    <2>3. CASE j # 1
        <3>1. j - 1 \in DOMAIN Tail(s) /\ y = Tail(s)[j - 1]
            BY <1>1, <1>2, <2>1, <2>3
        <3> QED BY <3>1 DEF Range
    <2> QED BY <2>2, <2>3
<1>4. ASSUME NEW y \in Range(Tail(s)) PROVE y \in Range(s)
    <2>1. PICK j \in 1..(Len(s) - 1) : y = Tail(s)[j]
        BY <1>2 DEF Range
    <2>2. j + 1 \in DOMAIN s /\ y = s[j + 1]
        BY <1>1, <1>2, <2>1
    <2> QED BY <2>2 DEF Range
<1>5. Head(s) \in Range(s)
    <2>1. 1 \in DOMAIN s
        BY <1>1, <1>2
    <2> QED BY <1>1, <2>1 DEF Range
<1> QED BY <1>1, <1>3, <1>4, <1>5

\* A queue that has room takes a message, one that is full loses its subscriber.
LEMMA PutType ==
    ASSUME NEW s \in Sub, NEW m \in Msg, Len(s.q) <= QueueCap, s.at = "off" => s.q = <<>>
    PROVE  /\ Put(s, m) \in Sub /\ Put(s, m).from = s.from /\ Len(Put(s, m).q) <= QueueCap
           /\ Put(s, m).at = "off" => s.at = "off" /\ Put(s, m).q = <<>>
           /\ Put(s, m).at = "on" => s.at = "on" /\ Put(s, m).q = Append(s.q, m)
           /\ Put(s, m).at # "on" => Put(s, m).q = s.q
           /\ s.at = "off" => Put(s, m).at = "off"
<1> USE StreamsAssumption
<1>1. CASE s.at # "on"
    BY <1>1 DEF Put, Sub
<1>2. CASE s.at = "on" /\ Len(s.q) = QueueCap
    BY <1>2 DEF Put, Sub
<1>3. CASE s.at = "on" /\ Len(s.q) # QueueCap
    <2>1. Put(s, m) = [s EXCEPT !.q = Append(s.q, m)]
        BY <1>3 DEF Put
    <2>2. Append(s.q, m) \in Seq(Msg) /\ Len(Append(s.q, m)) = Len(s.q) + 1 /\ Len(s.q) \in Nat
        BY DEF Sub
    <2>3. Put(s, m) \in Sub /\ Put(s, m).q = Append(s.q, m) /\ Put(s, m).from = s.from /\ Put(s, m).at = "on"
        BY <1>3, <2>1, <2>2 DEF Sub
    <2> QED BY <1>3, <2>2, <2>3
<1> QED BY <1>1, <1>2, <1>3

\* Counting one further.
LEMMA NextSum == ASSUME NEW f \in Nat, NEW g \in Nat, NEW q \in Nat, NEW b \in Nat, f + g + q = b
                 PROVE  f + g + (q + 1) = b + 1
OBVIOUS

\* An event on the bus leaves what was there; a queue that takes it is in step.
LEMMA TracksAppend ==
    ASSUME NEW S, NEW b \in Seq(S), NEW g \in Seq(S), NEW q \in Seq(S), NEW f \in Nat, NEW m \in S, Tracks(b, f, g, q)
    PROVE  /\ Tracks(Append(b, m), f, g, q)
           /\ f + Len(g) + Len(q) = Len(b) =>
                  /\ Tracks(Append(b, m), f, g, Append(q, m))
                  /\ f + Len(g) + Len(Append(q, m)) = Len(Append(b, m))
<1> DEFINE d == Append(b, m)
           r == Append(q, m)
<1>1. Len(b) \in Nat /\ Len(g) \in Nat /\ Len(q) \in Nat
    OBVIOUS
<1>2. Len(d) = Len(b) + 1 /\ d[Len(b) + 1] = m /\ \A j \in 1..Len(b) : d[j] = b[j]
    OBVIOUS
<1>3. Len(r) = Len(q) + 1 /\ r[Len(q) + 1] = m /\ \A j \in 1..Len(q) : r[j] = q[j]
    OBVIOUS
<1> HIDE DEF d, r
<1>4. /\ f + Len(g) + Len(q) <= Len(b)
      /\ \A j \in 1..Len(g) : g[j] = b[f + j]
      /\ \A j \in 1..Len(q) : q[j] = b[f + Len(g) + j]
    BY DEF Tracks
<1>5. ASSUME NEW j \in 1..Len(g) PROVE g[j] = d[f + j]
    <2>1. f + j \in 1..Len(b)
        BY <1>1, <1>4
    <2> QED BY <1>2, <1>4, <2>1
<1>6. ASSUME NEW j \in 1..Len(q) PROVE q[j] = d[f + Len(g) + j]
    <2>1. f + Len(g) + j \in 1..Len(b)
        BY <1>1, <1>4
    <2> QED BY <1>2, <1>4, <2>1
<1>7. Tracks(d, f, g, q)
    BY <1>1, <1>2, <1>4, <1>5, <1>6 DEF Tracks
<1>8. ASSUME f + Len(g) + Len(q) = Len(b) PROVE Tracks(d, f, g, r) /\ f + Len(g) + Len(r) = Len(d)
    <2>1. f + Len(g) + Len(r) = Len(d)
        <3>1. f + Len(g) + (Len(q) + 1) = Len(b) + 1
            BY <1>1, <1>8, NextSum
        <3> QED BY <1>2, <1>3, <3>1
    <2>2. ASSUME NEW j \in 1..Len(r) PROVE r[j] = d[f + Len(g) + j]
        <3>1. CASE j = Len(q) + 1
            <4>1. f + Len(g) + j = Len(b) + 1
                BY <1>1, <1>8, <3>1, NextSum
            <4> QED BY <1>2, <1>3, <3>1, <4>1
        <3>2. CASE j # Len(q) + 1
            <4>1. j \in 1..Len(q)
                BY <1>1, <1>3, <3>2
            <4> QED BY <1>3, <1>6, <4>1
        <3> QED BY <3>1, <3>2
    <2>3. f + Len(g) + Len(r) <= Len(d)
        BY <1>1, <1>2, <1>3, <2>1
    <2> QED BY <1>5, <2>1, <2>2, <2>3 DEF Tracks
<1> QED BY <1>7, <1>8 DEF d, r

\* What is sent to a browser moves from its queue to what it has seen.
LEMMA TracksDeliver ==
    ASSUME NEW S, NEW b \in Seq(S), NEW g \in Seq(S), NEW q \in Seq(S), NEW f \in Nat, Tracks(b, f, g, q), q # <<>>
    PROVE  /\ Tracks(b, f, Append(g, Head(q)), Tail(q))
           /\ f + Len(Append(g, Head(q))) + Len(Tail(q)) = f + Len(g) + Len(q)
<1> DEFINE h == Append(g, Head(q))
           r == Tail(q)
<1>1. Len(b) \in Nat /\ Len(g) \in Nat /\ Len(q) \in Nat \ {0} /\ Head(q) = q[1] /\ Head(q) \in S
    OBVIOUS
<1>2. Len(h) = Len(g) + 1 /\ h[Len(g) + 1] = q[1] /\ \A j \in 1..Len(g) : h[j] = g[j]
    BY <1>1
<1>3. Len(r) = Len(q) - 1 /\ \A j \in 1..(Len(q) - 1) : r[j] = q[j + 1]
    BY <1>1
<1> HIDE DEF h, r
<1>4. /\ f + Len(g) + Len(q) <= Len(b)
      /\ \A j \in 1..Len(g) : g[j] = b[f + j]
      /\ \A j \in 1..Len(q) : q[j] = b[f + Len(g) + j]
    BY DEF Tracks
<1>5. ASSUME NEW j \in 1..Len(h) PROVE h[j] = b[f + j]
    <2>1. CASE j = Len(g) + 1
        <3>1. f + j = f + Len(g) + 1 /\ 1 \in 1..Len(q)
            BY <1>1, <2>1
        <3> QED BY <1>2, <1>4, <2>1, <3>1
    <2>2. CASE j # Len(g) + 1
        <3>1. j \in 1..Len(g)
            BY <1>1, <1>2, <2>2
        <3> QED BY <1>2, <1>4, <3>1
    <2> QED BY <2>1, <2>2
<1>6. ASSUME NEW j \in 1..Len(r) PROVE r[j] = b[f + Len(h) + j]
    <2>1. /\ j + 1 \in 1..Len(q) /\ j \in 1..(Len(q) - 1)
          /\ f + Len(g) + (j + 1) = f + Len(h) + j
        BY <1>1, <1>2, <1>3
    <2>2. q[j + 1] = b[f + Len(g) + (j + 1)]
        BY <1>4, <2>1
    <2> QED BY <1>3, <2>1, <2>2
<1>7. f + Len(h) + Len(r) = f + Len(g) + Len(q)
    BY <1>1, <1>2, <1>3
<1> QED BY <1>1, <1>4, <1>5, <1>6, <1>7 DEF Tracks, h, r

\* A viewer that is given a snapshot.
LEMMA ViewerType ==
    ASSUME NEW s \in Seq(Nat), NEW e \in Seq(Nat)
    PROVE  [at |-> "snapshot", snap |-> s, q |-> e, live |-> e, from |-> 0] \in Viewer
BY DEF Viewer

\* A full queue of the log loses its viewer, too.
LEMMA FanoutType ==
    ASSUME NEW v \in Viewer, NEW n \in Nat, Len(v.q) <= LogQueueCap
    PROVE  /\ Fanout(v, n) \in Viewer /\ Len(Fanout(v, n).q) <= LogQueueCap
           /\ Fanout(v, n).from = v.from /\ Fanout(v, n).live = v.live
           /\ Fanout(v, n).at = "on" => v.at = "on" /\ Fanout(v, n).q = Append(v.q, n)
<1> USE StreamsAssumption
<1>1. CASE v.at # "on"
    BY <1>1 DEF Fanout, Viewer
<1>2. CASE v.at = "on" /\ Len(v.q) = LogQueueCap
    BY <1>2 DEF Fanout, Viewer
<1>3. CASE v.at = "on" /\ Len(v.q) # LogQueueCap
    <2>1. Fanout(v, n) = [v EXCEPT !.q = Append(v.q, n)]
        BY <1>3 DEF Fanout
    <2>2. Append(v.q, n) \in Seq(Nat) /\ Len(Append(v.q, n)) = Len(v.q) + 1 /\ Len(v.q) \in Nat
        BY DEF Viewer
    <2>3. /\ Fanout(v, n) \in Viewer /\ Fanout(v, n).q = Append(v.q, n) /\ Fanout(v, n).from = v.from
          /\ Fanout(v, n).live = v.live
        BY <2>1, <2>2 DEF Viewer
    <2> QED BY <1>3, <2>2, <2>3
<1> QED BY <1>1, <1>2, <1>3

\* The deque keeps its length.
LEMMA KeptType ==
    ASSUME NEW s \in Seq(Nat), NEW x \in Nat, Len(s) <= RingCap
    PROVE  Kept(Append(s, x)) \in Seq(Nat) /\ Len(Kept(Append(s, x))) <= RingCap
BY StreamsAssumption DEF Kept
-----------------------------------------------------------------------------
(* Types, one group of variables at a time.                                *)

\* What the worker and the request put in.
LEMMA WorkerStep == ASSUME StInv, Next PROVE WorkerInv'
<1> USE StreamsAssumption DEF StInv
<1> USE DEF workerVars, busVars, cacheVars, logVars
<1>1. CASE UNCHANGED <<inputs, workerVars, test, wire>>
    BY <1>1 DEF WorkerInv
<1>2. ASSUME NEW i \in Insts, CommitBackup(i) \/ ImportBackups(i) PROVE WorkerInv'
    <2>1. UNCHANGED <<asked, wire, test>> /\ inputs' = inputs + 1 /\ inputs < MaxInputs
        BY <1>2 DEF CommitBackup, ImportBackups, Input
    <2>2. backups' \in [Insts -> Nat] /\ owed' \in [Insts -> Nat]
          /\ \A j \in Insts : backups'[j] <= inputs + 1 /\ owed'[j] <= inputs + 1
        <3>1. backups \in [Insts -> Nat] /\ owed \in [Insts -> Nat] /\ inputs \in Nat
              /\ \A j \in Insts : backups[j] <= inputs /\ owed[j] <= inputs
            BY DEF WorkerInv
        <3>2. backups' = [backups EXCEPT ![i] = @ + 1]
            BY <1>2 DEF CommitBackup, ImportBackups
        <3>3. owed' = [owed EXCEPT ![i] = @ + 1] \/ owed' = owed
            BY <1>2 DEF CommitBackup, ImportBackups
        <3>4. backups' \in [Insts -> Nat] /\ \A j \in Insts : backups'[j] <= inputs + 1
            BY <3>1, <3>2
        <3>5. owed' \in [Insts -> Nat] /\ \A j \in Insts : owed'[j] <= inputs + 1
            BY <3>1, <3>3
        <3> QED BY <3>4, <3>5
    <2> QED BY <2>1, <2>2 DEF WorkerInv, Test
<1>3. ASSUME NEW i \in Insts, PublishFinished(i) PROVE WorkerInv'
    <2>1. Message("finished", i) \in Msg
        BY DEF Message, Msg
    <2>2. wire' \in Seq(Msg)
        BY <1>3, <2>1 DEF PublishFinished, Publish, WorkerInv
    <2>3. owed' \in [Insts -> Nat] /\ \A j \in Insts : owed'[j] <= inputs
        BY <1>3 DEF PublishFinished, WorkerInv
    <2> QED BY <1>3, <2>2, <2>3 DEF PublishFinished, WorkerInv
<1>4. ASSUME NEW m \in Msg, PublishOther(m) PROVE WorkerInv'
    <2>1. UNCHANGED <<workerVars, test>> /\ inputs' = inputs + 1 /\ inputs < MaxInputs
        BY <1>4 DEF PublishOther, Input
    <2>2. wire' \in Seq(Msg)
        BY <1>4 DEF PublishOther, Publish, WorkerInv
    <2> QED BY <2>1, <2>2 DEF WorkerInv, Test
<1>5. ASSUME NEW rid \in 1..MaxInputs, Answer(rid) PROVE WorkerInv'
    <2>1. Message("result", rid) \in Msg
        BY DEF Message, Msg
    <2>2. wire' \in Seq(Msg)
        BY <1>5, <2>1 DEF Answer, Publish, WorkerInv
    <2> QED BY <1>5, <2>2 DEF Answer, WorkerInv
<1>6. CASE WorkerCrash
    BY <1>6 DEF WorkerCrash, Input, WorkerInv, Test
<1>7. CASE LoseMessage
    <2>1. wire' \in Seq(Msg)
        BY <1>7, RangeTail DEF LoseMessage, WorkerInv
    <2> QED BY <1>7, <2>1 DEF LoseMessage, Input, WorkerInv, Test
<1>8. CASE WebRestart
    <2>1. wire' \in Seq(Msg) /\ inputs' = inputs + 1 /\ inputs < MaxInputs
        BY <1>8 DEF WebRestart, Input
    <2>2. test' \in Test /\ test'.rid = test.rid /\ test'.at = "idle"
        BY <1>8 DEF WebRestart, WebStarts, WorkerInv, Test
    <2> QED BY <1>8, <2>1, <2>2 DEF WebRestart, WorkerInv, Test
<1>9. CASE BridgeLog \/ BridgeEvent
    <2>1. wire # <<>> /\ wire' = Tail(wire) /\ wire \in Seq(Msg)
        BY <1>9 DEF BridgeLog, BridgeEvent, WorkerInv
    <2>2. wire' \in Seq(Msg)
        BY <2>1, RangeTail
    <2> QED BY <1>9, <2>2 DEF BridgeLog, BridgeEvent, WorkerInv
<1>10. CASE TestSubscribe
    <2>1. test' \in Test /\ test'.rid = test.rid + 1
        BY <1>10 DEF TestSubscribe, WorkerInv, Test
    <2> QED BY <1>10, <2>1 DEF TestSubscribe, Input, WorkerInv, Test
<1>11. CASE TestSend
    <2>1. test' \in Test /\ test'.rid = test.rid /\ test.at = "subscribed" /\ asked' = asked \cup {test.rid}
        BY <1>11 DEF TestSend, WorkerInv, Test
    <2>2. test.rid \in 1..MaxInputs
        BY <2>1 DEF WorkerInv, Test
    <2> QED BY <1>11, <2>1, <2>2 DEF TestSend, WorkerInv
<1>12. CASE TestReceive \/ TestTimeout
    <2>1. test' \in Test /\ test'.rid = test.rid /\ (test'.at # "idle" => test.at # "idle")
        BY <1>12 DEF TestReceive, TestTimeout, WorkerInv, Test
    <2> QED BY <1>12, <2>1 DEF TestReceive, TestTimeout, WorkerInv
<1>13. CASE UNCHANGED <<workerVars, test, wire>> /\ Input
    BY <1>13 DEF Input, WorkerInv, Test
<1>14. ASSUME NEW i \in Insts, OpenHistory(i) PROVE WorkerInv'
    BY <1>13, <1>14 DEF OpenHistory
<1>15. \A i \in Insts : Message("failed", i) \in Msg
    BY DEF Message, Msg
<1>16. Message("heartbeat", None) \in Msg /\ Message("log", None) \in Msg
    BY DEF Message, Msg
<1>17. ASSUME NEW c \in Clients, Connect(c) \/ Deliver(c) \/ Disconnect(c) PROVE WorkerInv'
    BY <1>1, <1>13, <1>17 DEF Connect, Deliver, Disconnect
<1>18. ASSUME NEW t \in Threads, Post(t) \/ Schedule(t) PROVE WorkerInv'
    BY <1>1, <1>13, <1>18 DEF Post, Schedule
<1>19. CASE InvalidatorStarts \/ Invalidate \/ LookUp \/ StoreWalk \/ AbortWalk
    BY <1>1, <1>19 DEF InvalidatorStarts, Invalidate, LookUp, StoreWalk, AbortWalk
<1>20. CASE RunCall \/ OpenLogs \/ FollowLogs \/ DeliverLog \/ LeaveLogs
    BY <1>1, <1>13, <1>20 DEF RunCall, OpenLogs, FollowLogs, DeliverLog, LeaveLogs
<1> QED BY <1>2, <1>3, <1>4, <1>5, <1>6, <1>7, <1>8, <1>9, <1>10, <1>11, <1>12, <1>14, <1>15, <1>16, <1>17,
           <1>18, <1>19, <1>20 DEF Next

\* The timelines.
LEMMA CacheStep == ASSUME StInv, Next PROVE CacheInv'
<1> USE StreamsAssumption DEF StInv
<1> USE DEF workerVars, busVars, cacheVars, logVars
<1>1. ASSUME UNCHANGED cacheVars, \A i \in Insts : backups'[i] >= backups[i] PROVE CacheInv'
    <2>1. CASE walk = None
        BY <1>1, <2>1 DEF CacheInv
    <2>2. CASE walk # None
        <3>1. walk.inst \in Insts /\ walk.covers \in Nat /\ walk.covers <= backups[walk.inst]
            BY <2>2 DEF CacheInv, Walk
        <3>2. backups[walk.inst] \in Nat /\ backups'[walk.inst] \in Nat
            BY <3>1, WorkerStep DEF WorkerInv
        <3>3. walk.covers <= backups'[walk.inst]
            BY <1>1, <3>1, <3>2
        <3> QED BY <1>1, <3>3 DEF CacheInv
    <2> QED BY <2>1, <2>2
<1>2. CASE UNCHANGED <<backups, cacheVars>>
    BY <1>2 DEF CacheInv
<1>3. ASSUME NEW i \in Insts, CommitBackup(i) PROVE CacheInv'
    <2>1. UNCHANGED cacheVars /\ \A j \in Insts : backups'[j] >= backups[j]
        BY <1>3 DEF CommitBackup, WorkerInv
    <2> QED BY <1>1, <2>1
<1>4. ASSUME NEW S \in SUBSET Insts, Missed(S), UNCHANGED cache, \A i \in Insts : backups'[i] >= backups[i]
      PROVE  CacheInv'
    <2>1. walk' = None \/ (walk' \in Walk /\ walk # None /\ walk'.inst = walk.inst /\ walk'.covers = walk.covers)
        BY <1>4 DEF Missed, CacheInv, Walk
    <2>2. CASE walk' = None
        BY <1>4, <2>2 DEF Missed, CacheInv
    <2>3. CASE walk' # None
        <3>1. walk.inst \in Insts /\ walk.covers \in Nat /\ walk.covers <= backups[walk.inst]
            BY <2>1, <2>3 DEF CacheInv, Walk
        <3>2. backups[walk.inst] \in Nat /\ backups'[walk.inst] \in Nat
            BY <3>1, WorkerStep DEF WorkerInv
        <3>3. walk.covers <= backups'[walk.inst]
            BY <1>4, <3>1, <3>2
        <3> QED BY <1>4, <2>1, <2>3, <3>3 DEF Missed, CacheInv
    <2> QED BY <2>2, <2>3
<1>0. \A i \in Insts : backups[i] >= backups[i]
    BY DEF WorkerInv
<1>5. CASE WorkerCrash
    BY <1>0, <1>4, <1>5 DEF WorkerCrash
<1>14. ASSUME NEW i \in Insts, ImportBackups(i) PROVE CacheInv'
    <2>1. \A j \in Insts : backups'[j] >= backups[j]
        BY <1>14 DEF ImportBackups, WorkerInv
    <2> QED BY <1>4, <1>14, <2>1 DEF ImportBackups
<1>6. CASE LoseMessage
    <2>1. Head(wire) \in Msg
        BY <1>6, RangeTail DEF LoseMessage, WorkerInv
    <2>2. (IF Head(wire).topic = "finished" THEN {Head(wire).of} ELSE {}) \in SUBSET Insts
        BY <2>1 DEF Msg
    <2> QED BY <1>0, <1>4, <1>6, <2>2 DEF LoseMessage
<1>7. CASE WebRestart
    BY <1>7 DEF WebRestart, WebStarts, CacheInv
<1>8. CASE Invalidate
    <2> DEFINE m == Head(sub["invalidator"].q)
    <2>1. CASE Invalidates(m)
        <3>1. walk' = None \/ (walk' \in Walk /\ walk # None /\ walk'.inst = walk.inst /\ walk'.covers = walk.covers)
            BY <1>8, <2>1 DEF Invalidate, CacheInv, Walk
        <3>2. cache' = [cache EXCEPT ![m.of] = None] /\ excused' = excused \ {m.of} /\ UNCHANGED backups
            BY <1>8, <2>1 DEF Invalidate
        <3>3. cache' \in [Insts -> 0..MaxInputs \cup {None}]
            BY <3>2 DEF CacheInv
        <3> QED BY <3>1, <3>2, <3>3 DEF CacheInv
    <2>2. CASE ~Invalidates(m)
        BY <1>2, <1>8, <2>2 DEF Invalidate
    <2> QED BY <2>1, <2>2
<1>9. ASSUME NEW i \in Insts, OpenHistory(i) PROVE CacheInv'
    <2>1. walk' \in Walk /\ walk'.inst = i /\ walk'.covers = backups[i] /\ backups[i] \in Nat
        BY <1>9 DEF OpenHistory, Walk, WorkerInv
    <2> QED BY <1>9, <2>1 DEF OpenHistory, CacheInv
<1>10. CASE LookUp
    <2>1. walk' = None \/ (walk' \in Walk /\ walk # None /\ walk'.inst = walk.inst /\ walk'.covers = walk.covers)
        BY <1>10 DEF LookUp, CacheInv, Walk
    <2> QED BY <1>10, <2>1 DEF LookUp, CacheInv
<1>11. CASE StoreWalk
    <2>1. walk \in Walk /\ walk.covers <= backups[walk.inst]
        BY <1>11 DEF StoreWalk, CacheInv
    <2>2. walk.inst \in Insts /\ walk.covers \in 0..MaxInputs
        BY <2>1 DEF Walk, WorkerInv
    <2> QED BY <1>11, <2>2 DEF StoreWalk, CacheInv
<1>12. CASE AbortWalk
    BY <1>12 DEF AbortWalk, CacheInv
<1>13. \/ UNCHANGED <<backups, cacheVars>> \/ WorkerCrash \/ LoseMessage \/ WebRestart \/ Invalidate
       \/ LookUp \/ StoreWalk \/ AbortWalk \/ \E i \in Insts : CommitBackup(i) \/ ImportBackups(i) \/ OpenHistory(i)
    BY DEF Next, PublishFinished, PublishOther, Answer, BridgeLog, BridgeEvent, Connect, Deliver, Disconnect,
           TestSubscribe, TestSend, TestReceive, TestTimeout, InvalidatorStarts, Post, Schedule, RunCall, OpenLogs,
           FollowLogs, DeliverLog, LeaveLogs
<1> QED BY <1>2, <1>3, <1>5, <1>6, <1>7, <1>8, <1>9, <1>10, <1>11, <1>12, <1>13, <1>14

\* The bus.
LEMMA BusStep == ASSUME StInv, Next PROVE BusInv'
<1> USE StreamsAssumption DEF StInv
<1> USE DEF workerVars, busVars, cacheVars, logVars
<1>1. CASE UNCHANGED <<bus, sub, seen>>
    BY <1>1 DEF BusInv
<1>2. /\ bus \in Seq(Msg) /\ Len(bus) \in Nat /\ sub \in [Subscribers -> Sub] /\ seen \in [Clients -> Seq(Msg)]
      /\ Clients \subseteq Subscribers /\ "test" \in Subscribers /\ "invalidator" \in Subscribers
    BY DEF BusInv, Subscribers
<1>3. /\ Off \in Sub /\ Off.at = "off" /\ Off.q = <<>> /\ Len(Off.q) = 0 /\ Off.from = 0
      /\ Subscribed \in Sub /\ Subscribed.at = "on" /\ Subscribed.q = <<>> /\ Len(Subscribed.q) = 0
      /\ Subscribed.from = Len(bus)
    BY <1>2 DEF Off, Sub, Subscribed
<1>4. ASSUME NEW s \in Subscribers, UNCHANGED bus, seen' \in [Clients -> Seq(Msg)],
             sub' = [sub EXCEPT ![s] = Off] \/ sub' = [sub EXCEPT ![s] = Subscribed]
      PROVE  BusInv'
    <2>1. CASE sub' = [sub EXCEPT ![s] = Off]
        BY <1>3, <1>4, <2>1 DEF BusInv
    <2>2. CASE sub' = [sub EXCEPT ![s] = Subscribed]
        <3>1. \A u \in Subscribers : sub'[u] = IF u = s THEN Subscribed ELSE sub[u]
            BY <1>2, <2>2, Zenon
        <3>2. sub' \in [Subscribers -> Sub]
            BY <1>2, <1>3, <2>2
        <3>3. ASSUME NEW u \in Subscribers
              PROVE  /\ sub'[u].at = "off" => sub'[u].q = <<>>
                     /\ Len(sub'[u].q) <= QueueCap /\ sub'[u].from <= Len(bus)
            <4>1. CASE u = s
                BY <1>2, <1>3, <3>1, <4>1, Caps
            <4>2. CASE u # s
                BY <3>1, <4>2 DEF BusInv
            <4> QED BY <4>1, <4>2
        <3> QED BY <1>2, <1>4, <3>2, <3>3 DEF BusInv
    <2> QED BY <1>4, <2>1, <2>2
<1>5. CASE WebRestart
    <2>1. bus' = <<>> /\ bus' \in Seq(Msg) /\ Range(bus') = {} /\ Len(bus') = 0
        BY <1>5, RangeEmpty DEF WebRestart, WebStarts
    <2>2. sub' = [s \in Subscribers |-> Off] /\ seen' \in [Clients -> Seq(Msg)]
        BY <1>5 DEF WebRestart, WebStarts
    <2> QED BY <1>3, <2>1, <2>2 DEF BusInv
<1>6. CASE BridgeEvent
    <2> DEFINE m == Head(wire)
    <2>1. m \in Msg /\ m.topic # "log" /\ bus' = Append(bus, m) /\ UNCHANGED seen
          /\ sub' = [s \in Subscribers |-> Put(sub[s], m)]
        BY <1>6, RangeTail DEF BridgeEvent, WorkerInv
    <2> HIDE DEF m
    <2>2. bus' \in Seq(Msg) /\ Len(bus') = Len(bus) + 1 /\ \A x \in Range(bus') : x.topic # "log"
        BY <1>2, <2>1, RangeAppend DEF BusInv
    <2>3. ASSUME NEW s \in Subscribers
          PROVE  /\ sub'[s] \in Sub /\ (sub'[s].at = "off" => sub'[s].q = <<>>)
                 /\ Len(sub'[s].q) <= QueueCap /\ sub'[s].from <= Len(bus')
        <3>1. sub[s] \in Sub /\ Len(sub[s].q) <= QueueCap /\ (sub[s].at = "off" => sub[s].q = <<>>)
              /\ sub[s].from <= Len(bus) /\ sub[s].from \in Nat /\ sub'[s] = Put(sub[s], m)
            BY <1>2, <2>1 DEF BusInv, Sub
        <3> QED BY <1>2, <2>1, <2>2, <3>1, PutType
    <2>4. sub' \in [Subscribers -> Sub]
        BY <2>1, <2>3
    <2> QED BY <1>2, <2>1, <2>2, <2>3, <2>4 DEF BusInv
<1>7. ASSUME NEW c \in Clients, Connect(c) PROVE BusInv'
    <2>1. seen' \in [Clients -> Seq(Msg)]
        BY <1>2, <1>7 DEF Connect
    <2> QED BY <1>2, <1>4, <1>7, <2>1 DEF Connect
<1>8. ASSUME NEW c \in Clients, Disconnect(c) PROVE BusInv'
    <2>1. seen' \in [Clients -> Seq(Msg)]
        BY <1>2, <1>8 DEF Disconnect
    <2> QED BY <1>2, <1>4, <1>8, <2>1 DEF Disconnect
<1>9. ASSUME NEW s \in Subscribers, sub[s].q # <<>>, UNCHANGED bus, sub' = [sub EXCEPT ![s].q = Tail(@)],
             seen' \in [Clients -> Seq(Msg)]
      PROVE  BusInv'
    <2> DEFINE x == [sub[s] EXCEPT !.q = Tail(@)]
    <2>1. sub[s] \in Sub /\ sub[s].at # "off" /\ Len(sub[s].q) <= QueueCap /\ sub[s].from <= Len(bus)
        BY <1>2, <1>9 DEF BusInv
    <2>2. Tail(sub[s].q) \in Seq(Msg) /\ Len(Tail(sub[s].q)) = Len(sub[s].q) - 1 /\ Len(sub[s].q) \in Nat
        BY <1>9, <2>1 DEF Sub
    <2>3. x \in Sub /\ x.at = sub[s].at /\ x.q = Tail(sub[s].q) /\ x.from = sub[s].from
        BY <2>1, <2>2 DEF Sub
    <2>4. sub' = [sub EXCEPT ![s] = x]
        BY <1>9
    <2> HIDE DEF x
    <2>5. sub' \in [Subscribers -> Sub] /\ \A u \in Subscribers : sub'[u] = IF u = s THEN x ELSE sub[u]
        BY <1>2, <2>3, <2>4
    <2> QED BY <1>2, <1>9, <2>1, <2>2, <2>3, <2>5 DEF BusInv
<1>10. ASSUME NEW c \in Clients, Deliver(c) PROVE BusInv'
    <2>1. c \in Subscribers /\ sub[c] \in Sub /\ sub[c].q \in Seq(Msg) /\ sub[c].q # <<>>
        BY <1>2, <1>10 DEF Deliver, Sub
    <2>2. Head(sub[c].q) \in Msg
        BY <2>1, RangeTail
    <2>3. seen' \in [Clients -> Seq(Msg)]
        BY <1>2, <1>10, <2>2 DEF Deliver
    <2> QED BY <1>9, <1>10, <2>1, <2>3 DEF Deliver
<1>11. CASE TestSubscribe
    BY <1>2, <1>4, <1>11 DEF TestSubscribe
<1>12. CASE TestReceive
    <2>1. CASE Head(sub["test"].q) = Message("result", test.rid)
        BY <1>2, <1>4, <1>12, <2>1 DEF TestReceive
    <2>2. CASE Head(sub["test"].q) # Message("result", test.rid)
        BY <1>2, <1>9, <1>12, <2>2 DEF TestReceive
    <2> QED BY <2>1, <2>2
<1>13. CASE TestTimeout
    BY <1>2, <1>4, <1>13 DEF TestTimeout
<1>14. CASE InvalidatorStarts
    BY <1>2, <1>4, <1>14 DEF InvalidatorStarts
<1>15. CASE Invalidate
    BY <1>2, <1>9, <1>15 DEF Invalidate
<1>16. \/ UNCHANGED <<bus, sub, seen>> \/ WebRestart \/ BridgeEvent \/ TestSubscribe \/ TestReceive \/ TestTimeout
       \/ InvalidatorStarts \/ Invalidate \/ \E c \in Clients : Connect(c) \/ Deliver(c) \/ Disconnect(c)
    BY DEF Next, CommitBackup, ImportBackups, PublishFinished, PublishOther, Answer, WorkerCrash, LoseMessage, BridgeLog, TestSend,
           OpenHistory, LookUp, StoreWalk, AbortWalk, Post, Schedule, RunCall, OpenLogs, FollowLogs, DeliverLog,
           LeaveLogs
<1> QED BY <1>1, <1>5, <1>6, <1>7, <1>8, <1>10, <1>11, <1>12, <1>13, <1>14, <1>15, <1>16

\* The log.
LEMMA LogStep == ASSUME StInv, Next PROVE LogInv'
<1> USE StreamsAssumption DEF StInv
<1> USE DEF workerVars, busVars, cacheVars, logVars
<1>1. CASE UNCHANGED logVars
    BY <1>1 DEF LogInv
<1>2. NoViewer \in Viewer /\ Len(NoViewer.q) = 0
    BY DEF NoViewer, Viewer
<1>3. lines + 1 \in Nat /\ Kept(Append(ring, lines + 1)) \in Seq(Nat) /\ Len(Kept(Append(ring, lines + 1))) <= RingCap
    BY KeptType DEF LogInv
<1>4. CASE WebRestart
    <2>1. ring' \in Seq(Nat) /\ Len(ring') <= RingCap /\ calls' \in Seq(Nat)
        BY <1>4 DEF WebRestart, WebStarts
    <2> QED BY <1>2, <1>4, <2>1 DEF WebRestart, WebStarts, LogInv
<1>5. CASE BridgeLog
    <2>1. calls' \in Seq(Nat)
        BY <1>3, <1>5 DEF BridgeLog, LogInv
    <2> QED BY <1>3, <1>5, <2>1 DEF BridgeLog, LogInv
<1>6. ASSUME NEW t \in Threads, Post(t) PROVE LogInv'
    BY <1>3, <1>6 DEF Post, LogInv
<1>7. ASSUME NEW t \in Threads, Schedule(t) PROVE LogInv'
    <2>1. posting[t] \in Nat
        BY <1>7 DEF Schedule, LogInv
    <2>2. calls' \in Seq(Nat)
        BY <1>7, <2>1 DEF Schedule, LogInv
    <2> QED BY <1>7, <2>2 DEF Schedule, LogInv
<1>8. CASE RunCall
    <2>1. Head(calls) \in Nat /\ calls' \in Seq(Nat)
        BY <1>8, RangeTail DEF RunCall, LogInv
    <2>2. Fanout(viewer, Head(calls)) \in Viewer /\ Len(Fanout(viewer, Head(calls)).q) <= LogQueueCap
        BY <2>1, FanoutType DEF LogInv
    <2> QED BY <1>8, <2>1, <2>2 DEF RunCall, LogInv
<1>9. CASE OpenLogs
    <2>1. viewer' \in Viewer /\ Len(viewer'.q) <= LogQueueCap
        <3>1. viewer' = [NoViewer EXCEPT !.at = "snapshot", !.snap = ring] /\ ring \in Seq(Nat)
            BY <1>9 DEF OpenLogs, LogInv
        <3>2. viewer' = [at |-> "snapshot", snap |-> ring, q |-> <<>>, live |-> <<>>, from |-> 0]
            BY <3>1 DEF NoViewer
        <3>3. viewer'.q = <<>> /\ Len(<<>>) = 0 /\ <<>> \in Seq(Nat)
            BY <3>2
        <3>4. viewer' \in Viewer
            BY <3>1, <3>2, <3>3, ViewerType
        <3> QED BY <3>3, <3>4, Caps
    <2> QED BY <1>9, <2>1 DEF OpenLogs, LogInv
<1>10. CASE FollowLogs
    <2>1. viewer' \in Viewer /\ Len(viewer'.q) <= LogQueueCap
        BY <1>10 DEF FollowLogs, LogInv, Viewer
    <2> QED BY <1>10, <2>1 DEF FollowLogs, LogInv
<1>11. CASE DeliverLog
    <2>1. viewer.q \in Seq(Nat) /\ viewer.q # <<>> /\ Len(viewer.q) <= LogQueueCap /\ viewer.live \in Seq(Nat)
        BY <1>11 DEF DeliverLog, LogInv, Viewer
    <2>2. Head(viewer.q) \in Nat /\ Tail(viewer.q) \in Seq(Nat) /\ Len(Tail(viewer.q)) <= LogQueueCap
          /\ Append(viewer.live, Head(viewer.q)) \in Seq(Nat)
        BY <2>1
    <2>3. viewer' \in Viewer /\ viewer'.q = Tail(viewer.q)
        BY <1>11, <2>2 DEF DeliverLog, LogInv, Viewer
    <2> QED BY <1>11, <2>2, <2>3 DEF DeliverLog, LogInv
<1>12. CASE LeaveLogs
    BY <1>2, <1>12 DEF LeaveLogs, LogInv
<1>13. \/ UNCHANGED logVars \/ WebRestart \/ BridgeLog \/ RunCall \/ OpenLogs \/ FollowLogs \/ DeliverLog \/ LeaveLogs
       \/ \E t \in Threads : Post(t) \/ Schedule(t)
    BY DEF Next, CommitBackup, ImportBackups, PublishFinished, PublishOther, Answer, WorkerCrash, LoseMessage, BridgeEvent, Connect,
           Deliver, Disconnect, TestSubscribe, TestSend, TestReceive, TestTimeout, InvalidatorStarts, Invalidate,
           OpenHistory, LookUp, StoreWalk, AbortWalk
<1> QED BY <1>1, <1>4, <1>5, <1>6, <1>7, <1>8, <1>9, <1>10, <1>11, <1>12, <1>13

-----------------------------------------------------------------------------
(* The promises.                                                           *)

\* Request numbers.
LEMMA RidStep == ASSUME StInv, Next PROVE RidInv'
<1> USE StreamsAssumption DEF StInv
<1> USE DEF workerVars, busVars, cacheVars, logVars
<1>1. /\ wire \in Seq(Msg) /\ bus \in Seq(Msg) /\ test \in Test /\ asked \subseteq Nat
      /\ \A rid \in asked : Used(rid)
      /\ \A m \in Range(wire) \cup Range(bus) : m.topic = "result" => Used(m.of)
    BY DEF WorkerInv, BusInv, RidInv
<1>2. ASSUME \A rid \in Nat : Used(rid) => Used(rid)', asked' \subseteq asked,
             Range(wire') \cup Range(bus') \subseteq Range(wire) \cup Range(bus)
      PROVE  RidInv'
    <2>1. \A m \in Range(wire) \cup Range(bus) : m \in Msg
        BY <1>1, RangeInSet
    <2>2. \A m \in Range(wire) \cup Range(bus) : m.topic = "result" => m.of \in Nat
        BY <2>1 DEF Msg
    <2> QED BY <1>1, <1>2, <2>2 DEF RidInv
<1>3. CASE UNCHANGED <<wire, bus, test, asked>>
    BY <1>3 DEF RidInv, Used
<1>4. ASSUME NEW m \in Msg, Publish(m), UNCHANGED <<bus, test>>, asked' \subseteq asked,
             m.topic = "result" => m.of \in asked
      PROVE  RidInv'
    <2>1. Range(wire') = Range(wire) \cup {m}
        BY <1>1, <1>4, RangeAppend DEF Publish
    <2>2. \A rid : Used(rid)' <=> Used(rid)
        BY <1>4 DEF Used
    <2> QED BY <1>1, <1>4, <2>1, <2>2 DEF RidInv
<1>5. ASSUME NEW i \in Insts, PublishFinished(i) \/ PublishOther(Message("failed", i)) PROVE RidInv'
    <2>1. /\ Message("finished", i) \in Msg /\ Message("finished", i).topic # "result"
          /\ Message("failed", i) \in Msg /\ Message("failed", i).topic # "result"
        BY DEF Message, Msg
    <2> QED BY <1>4, <1>5, <2>1 DEF PublishFinished, PublishOther
<1>6. CASE PublishOther(Message("heartbeat", None)) \/ PublishOther(Message("log", None))
    <2>1. /\ Message("heartbeat", None) \in Msg /\ Message("heartbeat", None).topic # "result"
          /\ Message("log", None) \in Msg /\ Message("log", None).topic # "result"
        BY DEF Message, Msg
    <2> QED BY <1>4, <1>6, <2>1 DEF PublishOther
<1>7. ASSUME NEW rid \in 1..MaxInputs, Answer(rid) PROVE RidInv'
    <2>1. Message("result", rid) \in Msg /\ Message("result", rid).of = rid
        BY DEF Message, Msg
    <2> QED BY <1>4, <1>7, <2>1 DEF Answer
<1>8. CASE WorkerCrash
    <2>1. \A rid : Used(rid)' <=> Used(rid)
        BY <1>8 DEF WorkerCrash, Used
    <2> QED BY <1>2, <1>8, <2>1 DEF WorkerCrash
<1>9. CASE LoseMessage \/ BridgeLog
    <2>1. wire # <<>> /\ wire' = Tail(wire) /\ UNCHANGED <<bus, test, asked>>
        BY <1>9 DEF LoseMessage, BridgeLog
    <2>2. Range(wire') \subseteq Range(wire)
        BY <1>1, <2>1, RangeTail
    <2>3. \A rid : Used(rid)' <=> Used(rid)
        BY <2>1 DEF Used
    <2> QED BY <1>2, <2>1, <2>2, <2>3
<1>10. CASE BridgeEvent
    <2>1. wire # <<>> /\ wire' = Tail(wire) /\ bus' = Append(bus, Head(wire)) /\ UNCHANGED <<test, asked>>
        BY <1>10 DEF BridgeEvent
    <2>2. Head(wire) \in Msg /\ Range(wire) = Range(wire') \cup {Head(wire)}
        BY <1>1, <2>1, RangeTail
    <2>3. Range(bus') = Range(bus) \cup {Head(wire)}
        BY <1>1, <2>1, <2>2, RangeAppend
    <2>4. \A rid : Used(rid)' <=> Used(rid)
        BY <2>1 DEF Used
    <2> QED BY <1>2, <2>1, <2>2, <2>3, <2>4
<1>11. CASE WebRestart
    <2>1. wire' = <<>> /\ bus' = <<>> /\ asked' = asked /\ test' = [test EXCEPT !.at = "idle"]
        BY <1>11 DEF WebRestart, WebStarts
    <2>2. test'.rid = test.rid /\ test'.at = "idle"
        BY <1>1, <2>1 DEF Test
    <2>3. \A rid \in Nat : Used(rid) => Used(rid)'
        BY <2>2 DEF Used
    <2>4. Range(wire') = {} /\ Range(bus') = {}
        BY <2>1, RangeEmpty
    <2> QED BY <1>2, <2>1, <2>3, <2>4
<1>12. CASE TestSubscribe
    <2>1. test' = [at |-> "subscribed", rid |-> test.rid + 1] /\ UNCHANGED <<wire, bus, asked>> /\ test.rid \in Nat
        BY <1>1, <1>12 DEF TestSubscribe, Test
    <2>2. \A rid \in Nat : Used(rid) => Used(rid)'
        BY <2>1 DEF Used
    <2> QED BY <1>2, <2>1, <2>2
<1>13. CASE TestSend
    <2>1. test' = [test EXCEPT !.at = "waiting"] /\ UNCHANGED <<wire, bus>> /\ asked' = asked \cup {test.rid}
        BY <1>13 DEF TestSend
    <2>2. test'.at = "waiting" /\ test'.rid = test.rid /\ test.rid \in Nat
        BY <1>1, <2>1 DEF Test
    <2>3. \A rid : Used(rid) => Used(rid)'
        BY <2>2 DEF Used
    <2>4. Used(test.rid)'
        BY <2>2 DEF Used
    <2> QED BY <1>1, <2>1, <2>2, <2>3, <2>4 DEF RidInv, Used
<1>14. CASE TestReceive \/ TestTimeout
    <2>1. test'.rid = test.rid /\ (test'.at = "subscribed" => test.at = "subscribed") /\ UNCHANGED <<wire, bus, asked>>
        BY <1>1, <1>14 DEF TestReceive, TestTimeout, Test
    <2>2. \A rid \in Nat : Used(rid) => Used(rid)'
        BY <2>1 DEF Used
    <2> QED BY <1>2, <2>1, <2>2
<1>15. \/ UNCHANGED <<wire, bus, test, asked>> \/ WorkerCrash \/ LoseMessage \/ BridgeLog \/ BridgeEvent \/ WebRestart
       \/ TestSubscribe \/ TestSend \/ TestReceive \/ TestTimeout
       \/ PublishOther(Message("heartbeat", None)) \/ PublishOther(Message("log", None))
       \/ \E i \in Insts : PublishFinished(i) \/ PublishOther(Message("failed", i))
       \/ \E rid \in 1..MaxInputs : Answer(rid)
    BY DEF Next, CommitBackup, ImportBackups, OpenHistory, Connect, Deliver, Disconnect, InvalidatorStarts, Invalidate, LookUp,
           StoreWalk, AbortWalk, Post, Schedule, RunCall, OpenLogs, FollowLogs, DeliverLog, LeaveLogs
<1> QED BY <1>3, <1>5, <1>6, <1>7, <1>8, <1>9, <1>10, <1>11, <1>12, <1>13, <1>14, <1>15

\* The answer to the request that waits.
LEMMA AnswerStep == ASSUME StInv, Next PROVE AnswerIsWaitedFor'
<1> USE StreamsAssumption DEF StInv
<1> USE DEF workerVars, busVars, cacheVars, logVars
<1> DEFINE a == Message("result", test.rid)
<1>1. /\ bus \in Seq(Msg) /\ test \in Test /\ sub \in [Subscribers -> Sub] /\ sub["test"].q \in Seq(Msg)
      /\ "test" \in Subscribers /\ "invalidator" \in Subscribers /\ Clients \subseteq Subscribers
      /\ "test" \notin Clients
    BY DEF WorkerInv, BusInv, Subscribers, Sub
<1>2. AnswerIsWaitedFor <=>
          (test.at = "waiting" /\ sub["test"].at = "on" /\ a \in Range(bus) => a \in Range(sub["test"].q))
    BY DEF AnswerIsWaitedFor, Range
<1>3. AnswerIsWaitedFor' <=>
          (test'.at = "waiting" /\ sub'["test"].at = "on" /\ a' \in Range(bus') => a' \in Range(sub'["test"].q))
    BY DEF AnswerIsWaitedFor, Range
<1>4. test'.rid = test.rid => a' = a
    BY DEF Message
<1>5. CASE UNCHANGED <<bus, test>> /\ sub'["test"] = sub["test"]
    BY <1>2, <1>3, <1>4, <1>5
<1>6. CASE test'.at # "waiting"
    BY <1>3, <1>6
<1>7. CASE BridgeEvent
    <2> DEFINE m == Head(wire)
    <2>1. m \in Msg /\ bus' = Append(bus, m) /\ UNCHANGED test /\ sub' = [s \in Subscribers |-> Put(sub[s], m)]
        BY <1>7, RangeTail DEF BridgeEvent, WorkerInv
    <2> HIDE DEF m
    <2>2. Range(bus') = Range(bus) \cup {m}
        BY <1>1, <2>1, RangeAppend
    <2>3. /\ sub["test"] \in Sub /\ Len(sub["test"].q) <= QueueCap /\ (sub["test"].at = "off" => sub["test"].q = <<>>)
          /\ sub'["test"] = Put(sub["test"], m)
        BY <1>1, <2>1 DEF BusInv
    <2>4. sub'["test"].at = "on" => sub["test"].at = "on" /\ sub'["test"].q = Append(sub["test"].q, m)
        <3> DEFINE s == sub["test"]
        <3>1. s \in Sub /\ Len(s.q) <= QueueCap /\ (s.at = "off" => s.q = <<>>) /\ sub'["test"] = Put(s, m)
            BY <2>3
        <3> HIDE DEF s
        <3>2. Put(s, m).at = "on" => s.at = "on" /\ Put(s, m).q = Append(s.q, m)
            BY <2>1, <3>1, PutType
        <3> QED BY <3>1, <3>2 DEF s
    <2>5. Range(Append(sub["test"].q, m)) = Range(sub["test"].q) \cup {m}
        BY <1>1, <2>1, RangeAppend
    <2> QED BY <1>2, <1>3, <1>4, <2>1, <2>2, <2>4, <2>5
<1>8. CASE TestReceive
    <2>1. CASE Head(sub["test"].q) = a
        BY <1>1, <1>6, <1>8, <2>1 DEF TestReceive, Test
    <2>2. CASE Head(sub["test"].q) # a
        <3>1. sub["test"].q # <<>> /\ UNCHANGED <<bus, test>> /\ sub' = [sub EXCEPT !["test"].q = Tail(@)]
            BY <1>8, <2>2 DEF TestReceive
        <3>2. Range(sub["test"].q) = Range(Tail(sub["test"].q)) \cup {Head(sub["test"].q)}
            BY <1>1, <3>1, RangeTail
        <3>3. sub'["test"].q = Tail(sub["test"].q) /\ sub'["test"].at = sub["test"].at
            BY <1>1, <3>1 DEF Sub
        <3> QED BY <1>2, <1>3, <1>4, <2>2, <3>1, <3>2, <3>3
    <2> QED BY <2>1, <2>2
<1>9. CASE TestSend
    <2>1. UNCHANGED <<bus, sub>> /\ test.at = "subscribed" /\ test' = [test EXCEPT !.at = "waiting"]
        BY <1>9 DEF TestSend
    <2>2. test'.rid = test.rid
        BY <1>1, <2>1 DEF Test
    <2>3. a \notin Range(bus)
        <3>1. ASSUME a \in Range(bus) PROVE FALSE
            <4>1. a.topic = "result" /\ a.of = test.rid
                BY DEF Message
            <4>2. Used(a.of)
                BY <3>1, <4>1 DEF RidInv
            <4> QED BY <2>1, <4>1, <4>2 DEF Used
        <3> QED BY <3>1
    <2> QED BY <1>3, <1>4, <2>1, <2>2, <2>3
<1>10. CASE WebRestart \/ TestSubscribe \/ TestTimeout
    <2>1. test'.at # "waiting"
        BY <1>1, <1>10 DEF WebRestart, WebStarts, TestSubscribe, TestTimeout, Test
    <2> QED BY <1>6, <2>1
<1>11. ASSUME NEW c \in Clients, Connect(c) \/ Deliver(c) \/ Disconnect(c) PROVE AnswerIsWaitedFor'
    <2>1. UNCHANGED <<bus, test>> /\ sub'["test"] = sub["test"]
        BY <1>1, <1>11 DEF Connect, Deliver, Disconnect
    <2> QED BY <1>5, <2>1
<1>12. CASE InvalidatorStarts \/ Invalidate
    <2>1. UNCHANGED <<bus, test>> /\ sub'["test"] = sub["test"]
        BY <1>1, <1>12 DEF InvalidatorStarts, Invalidate
    <2> QED BY <1>5, <2>1
<1>13. \/ UNCHANGED <<bus, test, sub>> \/ BridgeEvent \/ TestReceive \/ TestSend \/ WebRestart \/ TestSubscribe
       \/ TestTimeout \/ InvalidatorStarts \/ Invalidate
       \/ \E c \in Clients : Connect(c) \/ Deliver(c) \/ Disconnect(c)
    BY DEF Next, CommitBackup, ImportBackups, PublishFinished, PublishOther, Answer, WorkerCrash, LoseMessage, BridgeLog,
           OpenHistory, LookUp, StoreWalk, AbortWalk, Post, Schedule, RunCall, OpenLogs, FollowLogs, DeliverLog,
           LeaveLogs
<1> QED BY <1>5, <1>7, <1>8, <1>9, <1>10, <1>11, <1>12, <1>13

\* Browsers follow the bus.
LEMMA FollowStep == ASSUME StInv, Next PROVE FollowInv'
<1> USE StreamsAssumption DEF StInv
<1> USE DEF workerVars, busVars, cacheVars, logVars
<1>1. /\ bus \in Seq(Msg) /\ sub \in [Subscribers -> Sub] /\ seen \in [Clients -> Seq(Msg)]
      /\ "test" \in Subscribers /\ "invalidator" \in Subscribers /\ Clients \subseteq Subscribers
      /\ "test" \notin Clients /\ "invalidator" \notin Clients
    BY DEF BusInv, Subscribers
<1>2. SUFFICES ASSUME NEW c \in Clients, sub'[c].at # "off" PROVE Follows(c)'
    BY DEF FollowInv
<1>3. /\ sub[c] \in Sub /\ seen[c] \in Seq(Msg) /\ sub[c].q \in Seq(Msg) /\ sub[c].from \in Nat
      /\ Len(bus) \in Nat /\ Len(seen[c]) \in Nat /\ Len(sub[c].q) \in Nat
      /\ (sub[c].at # "off" => Follows(c))
      /\ (sub[c].at = "off" => sub[c].q = <<>>) /\ Len(sub[c].q) <= QueueCap
    BY <1>1 DEF Sub, FollowInv, BusInv
<1>4. CASE UNCHANGED bus /\ sub'[c] = sub[c] /\ seen'[c] = seen[c]
    BY <1>2, <1>3, <1>4 DEF Follows
<1>5. CASE WebRestart
    BY <1>1, <1>2, <1>5 DEF WebRestart, WebStarts, Off
<1>6. CASE BridgeEvent
    <2> DEFINE m == Head(wire)
               s == sub[c]
               p == Put(s, m)
    <2>1. m \in Msg /\ bus' = Append(bus, m) /\ UNCHANGED seen /\ sub' = [t \in Subscribers |-> Put(sub[t], m)]
        BY <1>6, RangeTail DEF BridgeEvent, WorkerInv
    <2>2. sub'[c] = p
        BY <1>1, <2>1
    <2>3. s \in Sub /\ s.q \in Seq(Msg) /\ Len(s.q) <= QueueCap /\ (s.at = "off" => s.q = <<>>)
        BY <1>3
    <2> HIDE DEF m
    <2>4. /\ p.from = s.from /\ (p.at = "on" => s.at = "on" /\ p.q = Append(s.q, m))
          /\ (p.at # "on" => p.q = s.q) /\ (s.at = "off" => p.at = "off")
        <3> HIDE DEF s
        <3> QED BY <2>1, <2>3, PutType
    <2>5. s.at # "off" /\ Follows(c)
        BY <1>2, <1>3, <2>2, <2>4
    <2> HIDE DEF p
    <2>6. /\ Tracks(Append(bus, m), s.from, seen[c], s.q)
          /\ s.from + Len(seen[c]) + Len(s.q) = Len(bus) =>
                 /\ Tracks(Append(bus, m), s.from, seen[c], Append(s.q, m))
                 /\ s.from + Len(seen[c]) + Len(Append(s.q, m)) = Len(Append(bus, m))
        <3> DEFINE f == s.from
                   g == seen[c]
                   q == s.q
        <3>1. f \in Nat /\ g \in Seq(Msg) /\ q \in Seq(Msg) /\ Tracks(bus, f, g, q)
            BY <1>3, <2>5 DEF Follows
        <3> HIDE DEF f, g, q
        <3>2. /\ Tracks(Append(bus, m), f, g, q)
              /\ f + Len(g) + Len(q) = Len(bus) =>
                     /\ Tracks(Append(bus, m), f, g, Append(q, m))
                     /\ f + Len(g) + Len(Append(q, m)) = Len(Append(bus, m))
            BY <1>1, <2>1, <3>1, TracksAppend
        <3> QED BY <3>2 DEF f, g, q
    <2>7. s.at = "on" => s.from + Len(seen[c]) + Len(s.q) = Len(bus)
        BY <2>5 DEF Follows
    <2>8. Tracks(bus', p.from, seen[c], p.q) /\ (p.at = "on" => p.from + Len(seen[c]) + Len(p.q) = Len(bus'))
        <3> HIDE DEF s
        <3>1. CASE p.at = "on"
            BY <2>1, <2>4, <2>6, <2>7, <3>1
        <3>2. CASE p.at # "on"
            BY <2>1, <2>4, <2>6, <3>2
        <3> QED BY <3>1, <3>2
    <2> QED BY <2>1, <2>2, <2>8 DEF Follows
<1>7. ASSUME NEW d \in Clients, Connect(d) PROVE Follows(c)'
    <2>1. CASE d # c
        BY <1>1, <1>4, <1>7, <2>1 DEF Connect
    <2>2. CASE d = c
        <3>1. sub'[c] = [at |-> "on", q |-> <<>>, from |-> Len(bus)] /\ seen'[c] = <<>> /\ UNCHANGED bus
            BY <1>1, <1>7, <2>2 DEF Connect, Subscribed
        <3>2. sub'[c].q = <<>> /\ sub'[c].from = Len(bus) /\ Len(<<>>) = 0
            BY <3>1
        <3>3. Tracks(bus, Len(bus), <<>>, <<>>) /\ Len(bus) + 0 + 0 = Len(bus)
            BY <1>3, <3>2 DEF Tracks
        <3> QED BY <3>1, <3>2, <3>3 DEF Follows
    <2> QED BY <2>1, <2>2
<1>8. ASSUME NEW d \in Clients, Deliver(d) PROVE Follows(c)'
    <2>1. CASE d # c
        BY <1>1, <1>4, <1>8, <2>1 DEF Deliver
    <2>2. CASE d = c
        <3> DEFINE q == sub[c].q
                   g == seen[c]
        <3>1. q # <<>> /\ UNCHANGED bus /\ seen'[c] = Append(g, Head(q)) /\ sub'[c] = [sub[c] EXCEPT !.q = Tail(q)]
            BY <1>1, <1>8, <2>2 DEF Deliver
        <3>2. sub'[c].q = Tail(q) /\ sub'[c].from = sub[c].from /\ sub'[c].at = sub[c].at
            BY <1>3, <3>1 DEF Sub
        <3>3. Tracks(bus, sub[c].from, g, q) /\ (sub[c].at = "on" => sub[c].from + Len(g) + Len(q) = Len(bus))
            BY <1>2, <1>3, <3>2 DEF Follows
        <3>4. /\ Tracks(bus, sub[c].from, Append(g, Head(q)), Tail(q))
              /\ sub[c].from + Len(Append(g, Head(q))) + Len(Tail(q)) = sub[c].from + Len(g) + Len(q)
            <4> DEFINE f == sub[c].from
            <4>1. f \in Nat /\ g \in Seq(Msg) /\ q \in Seq(Msg) /\ Tracks(bus, f, g, q) /\ q # <<>>
                BY <1>3, <3>1, <3>3
            <4> HIDE DEF f, g, q
            <4>2. /\ Tracks(bus, f, Append(g, Head(q)), Tail(q))
                  /\ f + Len(Append(g, Head(q))) + Len(Tail(q)) = f + Len(g) + Len(q)
                BY <1>1, <4>1, TracksDeliver
            <4> QED BY <4>2 DEF f
        <3> QED BY <3>1, <3>2, <3>3, <3>4 DEF Follows
    <2> QED BY <2>1, <2>2
<1>9. ASSUME NEW d \in Clients, Disconnect(d) PROVE Follows(c)'
    <2>1. CASE d # c
        BY <1>1, <1>4, <1>9, <2>1 DEF Disconnect
    <2>2. CASE d = c
        BY <1>1, <1>2, <1>9, <2>2 DEF Disconnect, Off
    <2> QED BY <2>1, <2>2
<1>10. CASE TestSubscribe \/ TestReceive \/ TestTimeout \/ InvalidatorStarts \/ Invalidate
    <2>1. UNCHANGED <<bus, seen>> /\ sub'[c] = sub[c]
        BY <1>1, <1>10 DEF TestSubscribe, TestReceive, TestTimeout, InvalidatorStarts, Invalidate
    <2> QED BY <1>4, <2>1
<1>11. \/ UNCHANGED <<bus, sub, seen>> \/ WebRestart \/ BridgeEvent \/ TestSubscribe \/ TestReceive \/ TestTimeout
       \/ InvalidatorStarts \/ Invalidate \/ \E d \in Clients : Connect(d) \/ Deliver(d) \/ Disconnect(d)
    BY DEF Next, CommitBackup, ImportBackups, PublishFinished, PublishOther, Answer, WorkerCrash, LoseMessage, BridgeLog, TestSend,
           OpenHistory, LookUp, StoreWalk, AbortWalk, Post, Schedule, RunCall, OpenLogs, FollowLogs, DeliverLog,
           LeaveLogs
<1> QED BY <1>4, <1>5, <1>6, <1>7, <1>8, <1>9, <1>10, <1>11

\* Where a line is on its way to the viewer.
Carried == Range(viewer.live) \cup Range(viewer.q) \cup Range(calls) \cup Range(posting)

\* Lines reach the viewer.
LEMMA LinesStep == ASSUME StInv, Next PROVE LinesReachViewer'
<1> USE StreamsAssumption DEF StInv
<1> USE DEF workerVars, busVars, cacheVars, logVars
<1>1. /\ calls \in Seq(Nat) /\ posting \in [Threads -> Nat \cup {None}] /\ viewer \in Viewer /\ lines \in Nat
      /\ viewer.live \in Seq(Nat) /\ viewer.q \in Seq(Nat) /\ viewer.from \in Nat /\ Len(viewer.q) <= LogQueueCap
    BY DEF LogInv, Viewer
<1>2. viewer.at = "on" => \A n \in viewer.from + 1..lines : n \in Carried
    BY DEF LinesReachViewer, Carried
<1>3. (viewer'.at = "on" => \A n \in viewer'.from + 1..lines' : n \in Carried') => LinesReachViewer'
    BY DEF LinesReachViewer, Carried
<1>4. CASE viewer'.at # "on"
    BY <1>3, <1>4
<1>5. ASSUME viewer'.at = "on" => viewer.at = "on" /\ viewer'.from = viewer.from, lines' = lines,
             viewer'.at = "on" => \A n \in Nat : n \in Carried => n \in Carried'
      PROVE  LinesReachViewer'
    <2> SUFFICES ASSUME viewer'.at = "on", NEW n \in viewer'.from + 1..lines' PROVE n \in Carried'
        BY <1>3
    <2>1. n \in Nat /\ n \in viewer.from + 1..lines
        BY <1>1, <1>5
    <2> QED BY <1>2, <1>5, <2>1
<1>6. ASSUME UNCHANGED viewer, lines' = lines + 1, lines + 1 \in Carried',
             \A n \in Nat : n \in Carried => n \in Carried'
      PROVE  LinesReachViewer'
    <2> SUFFICES ASSUME viewer'.at = "on", NEW n \in viewer'.from + 1..lines' PROVE n \in Carried'
        BY <1>3
    <2>1. CASE n = lines + 1
        BY <1>6, <2>1
    <2>2. CASE n # lines + 1
        <3>1. n \in Nat /\ n \in viewer.from + 1..lines
            BY <1>1, <1>6, <2>2
        <3> QED BY <1>2, <1>6, <3>1
    <2> QED BY <2>1, <2>2
<1>7. ASSUME NEW t \in Threads, NEW x \in Nat \cup {None}, posting' = [posting EXCEPT ![t] = x]
      PROVE  x \in Range(posting') /\ \A n : n \in Range(posting) /\ n # posting[t] => n \in Range(posting')
    <2>1. DOMAIN posting' = Threads /\ DOMAIN posting = Threads /\ posting'[t] = x
          /\ \A u \in Threads : u # t => posting'[u] = posting[u]
        BY <1>1, <1>7
    <2>2. ASSUME NEW n \in Range(posting), n # posting[t] PROVE n \in Range(posting')
        <3>1. PICK u \in Threads : n = posting[u]
            BY <2>1 DEF Range
        <3> QED BY <2>1, <2>2, <3>1 DEF Range
    <2> QED BY <2>1, <2>2 DEF Range
<1>8. ASSUME NEW t \in Threads, Post(t) PROVE LinesReachViewer'
    <2>1. /\ posting[t] = None /\ lines' = lines + 1 /\ posting' = [posting EXCEPT ![t] = lines + 1]
          /\ UNCHANGED <<calls, viewer>> /\ lines + 1 \in Nat
        BY <1>1, <1>8 DEF Post
    <2>2. lines + 1 \in Range(posting') /\ \A n : n \in Range(posting) /\ n # None => n \in Range(posting')
        BY <1>7, <2>1
    <2>3. lines + 1 \in Carried' /\ \A n \in Nat : n \in Carried => n \in Carried'
        BY <2>1, <2>2 DEF Carried
    <2> QED BY <1>6, <2>1, <2>3
<1>9. ASSUME NEW t \in Threads, Schedule(t) PROVE LinesReachViewer'
    <2>1. /\ posting[t] # None /\ calls' = Append(calls, posting[t]) /\ posting' = [posting EXCEPT ![t] = None]
          /\ UNCHANGED <<viewer, lines>>
        BY <1>9 DEF Schedule
    <2>2. posting[t] \in Nat
        BY <1>1, <2>1
    <2>3. Range(calls') = Range(calls) \cup {posting[t]}
        BY <1>1, <2>1, <2>2, RangeAppend
    <2>4. \A n : n \in Range(posting) /\ n # posting[t] => n \in Range(posting')
        BY <1>7, <2>1
    <2>5. \A n \in Nat : n \in Carried => n \in Carried'
        BY <2>1, <2>3, <2>4 DEF Carried
    <2> QED BY <1>5, <2>1, <2>5
<1>10. CASE BridgeLog
    <2>1. lines' = lines + 1 /\ calls' = Append(calls, lines + 1) /\ UNCHANGED <<posting, viewer>> /\ lines + 1 \in Nat
        BY <1>1, <1>10 DEF BridgeLog
    <2>2. Range(calls') = Range(calls) \cup {lines + 1}
        BY <1>1, <2>1, RangeAppend
    <2>3. lines + 1 \in Carried' /\ \A n \in Nat : n \in Carried => n \in Carried'
        BY <2>1, <2>2 DEF Carried
    <2> QED BY <1>6, <2>1, <2>3
<1>11. CASE RunCall
    <2> DEFINE x == Head(calls)
    <2>1. calls # <<>> /\ viewer' = Fanout(viewer, x) /\ calls' = Tail(calls) /\ UNCHANGED <<posting, lines>>
        BY <1>11 DEF RunCall
    <2>2. x \in Nat /\ Range(calls) = Range(calls') \cup {x}
        BY <1>1, <2>1, RangeTail
    <2> HIDE DEF x
    <2>3. /\ viewer'.from = viewer.from /\ viewer'.live = viewer.live
          /\ viewer'.at = "on" => viewer.at = "on" /\ viewer'.q = Append(viewer.q, x)
        BY <1>1, <2>1, <2>2, FanoutType
    <2>4. Range(Append(viewer.q, x)) = Range(viewer.q) \cup {x}
        <3> DEFINE q == viewer.q
        <3>1. q \in Seq(Nat)
            BY <1>1
        <3> HIDE DEF q
        <3>2. Range(Append(q, x)) = Range(q) \cup {x}
            BY <2>2, <3>1, RangeAppend
        <3> QED BY <3>2 DEF q
    <2>5. viewer'.at = "on" => \A n \in Nat : n \in Carried => n \in Carried'
        BY <2>1, <2>2, <2>3, <2>4 DEF Carried
    <2> QED BY <1>5, <2>1, <2>3, <2>5
<1>12. CASE FollowLogs
    <2>1. viewer'.from = lines /\ lines' = lines
        BY <1>1, <1>12 DEF FollowLogs, Viewer
    <2>2. viewer'.from + 1..lines' = {}
        BY <1>1, <2>1
    <2> QED BY <1>3, <2>2
<1>13. CASE DeliverLog
    <2> DEFINE q == viewer.q
    <2>1. q # <<>> /\ UNCHANGED <<calls, posting, lines>> /\ q \in Seq(Nat)
        BY <1>1, <1>13 DEF DeliverLog
    <2>2. viewer'.live = Append(viewer.live, Head(q)) /\ viewer'.q = Tail(q) /\ viewer'.at = viewer.at
          /\ viewer'.from = viewer.from
        BY <1>1, <1>13 DEF DeliverLog, Viewer
    <2> HIDE DEF q
    <2>3. Head(q) \in Nat /\ Range(q) = Range(Tail(q)) \cup {Head(q)}
        BY <2>1, RangeTail
    <2>4. Range(Append(viewer.live, Head(q))) = Range(viewer.live) \cup {Head(q)}
        <3> DEFINE l == viewer.live
        <3>1. l \in Seq(Nat)
            BY <1>1
        <3> HIDE DEF l
        <3>2. Range(Append(l, Head(q))) = Range(l) \cup {Head(q)}
            BY <2>3, <3>1, RangeAppend
        <3> QED BY <3>2 DEF l
    <2>5. \A n \in Nat : n \in Carried => n \in Carried'
        BY <2>1, <2>2, <2>3, <2>4 DEF Carried, q
    <2> QED BY <1>5, <2>1, <2>2, <2>5
<1>14. CASE WebRestart \/ OpenLogs \/ LeaveLogs
    <2>1. viewer'.at # "on"
        <3>1. CASE WebRestart \/ LeaveLogs
            BY <3>1 DEF WebRestart, WebStarts, LeaveLogs, NoViewer
        <3>2. CASE OpenLogs
            <4>1. viewer' = [at |-> "snapshot", snap |-> ring, q |-> <<>>, live |-> <<>>, from |-> 0]
                BY <3>2 DEF OpenLogs, NoViewer
            <4> QED BY <4>1
        <3> QED BY <1>14, <3>1, <3>2
    <2> QED BY <1>4, <2>1
<1>15. CASE UNCHANGED logVars
    BY <1>15 DEF LinesReachViewer
<1>16. \/ UNCHANGED logVars \/ WebRestart \/ BridgeLog \/ RunCall \/ OpenLogs \/ FollowLogs \/ DeliverLog \/ LeaveLogs
       \/ \E t \in Threads : Post(t) \/ Schedule(t)
    BY DEF Next, CommitBackup, ImportBackups, PublishFinished, PublishOther, Answer, WorkerCrash, LoseMessage, BridgeEvent, Connect,
           Deliver, Disconnect, TestSubscribe, TestSend, TestReceive, TestTimeout, InvalidatorStarts, Invalidate,
           OpenHistory, LookUp, StoreWalk, AbortWalk
<1> QED BY <1>8, <1>9, <1>10, <1>11, <1>12, <1>13, <1>14, <1>15, <1>16

-----------------------------------------------------------------------------
(* The invariant and what follows from it.                                 *)

\* It holds when the web starts.
LEMMA StInit == Init => StInv
<1> SUFFICES ASSUME Init PROVE StInv
    OBVIOUS
<1> USE StreamsAssumption DEF Init
<1>1. WorkerInv
    BY DEF WorkerInv, Test
<1>2. BusInv
    <2>1. Off \in Sub /\ Off.q = <<>> /\ Off.from = 0 /\ Len(<<>>) = 0 /\ <<>> \in Seq(Msg)
        BY DEF Off, Sub
    <2>2. sub \in [Subscribers -> Sub] /\ \A s \in Subscribers : sub[s] = Off
        BY <2>1
    <2>3. \A s \in Subscribers : Len(sub[s].q) <= QueueCap /\ sub[s].from <= Len(bus) /\ sub[s].q = <<>>
        BY <2>1, <2>2, Caps
    <2> QED BY <2>1, <2>2, <2>3, RangeEmpty DEF BusInv
<1>3. CacheInv
    BY DEF CacheInv
<1>4. LogInv
    <2>1. NoViewer \in Viewer /\ NoViewer.q = <<>> /\ Len(<<>>) = 0 /\ <<>> \in Seq(Nat)
        BY DEF NoViewer, Viewer
    <2> QED BY <2>1, Caps DEF LogInv
<1>5. RidInv
    BY RangeEmpty DEF RidInv
<1>6. FollowInv
    BY DEF FollowInv, Off, Subscribers
<1>7. AnswerIsWaitedFor
    BY DEF AnswerIsWaitedFor
<1>8. LinesReachViewer
    BY DEF LinesReachViewer, NoViewer
<1> QED BY <1>1, <1>2, <1>3, <1>4, <1>5, <1>6, <1>7, <1>8 DEF StInv

\* Every step keeps it.
LEMMA StInductive == StInv /\ [Next]_vars => StInv'
<1> SUFFICES ASSUME StInv, [Next]_vars PROVE StInv'
    OBVIOUS
<1>1. CASE Next
    BY <1>1, WorkerStep, BusStep, CacheStep, LogStep, RidStep, FollowStep, AnswerStep, LinesStep DEF StInv
<1>2. CASE UNCHANGED vars
    <2> USE DEF vars, workerVars, busVars, cacheVars, logVars
    <2>1. WorkerInv' /\ BusInv' /\ CacheInv' /\ LogInv'
        BY <1>2 DEF StInv, WorkerInv, BusInv, CacheInv, LogInv
    <2>2. RidInv' /\ FollowInv'
        BY <1>2 DEF StInv, RidInv, Used, FollowInv, Follows
    <2>3. AnswerIsWaitedFor' /\ LinesReachViewer'
        BY <1>2 DEF StInv, AnswerIsWaitedFor, LinesReachViewer
    <2> QED BY <2>1, <2>2, <2>3 DEF StInv
<1> QED BY <1>1, <1>2

\* The inductive invariant holds throughout.
LEMMA StInvariant == Spec => []StInv
BY StInit, StInductive, PTL DEF Spec

\* The types hold: no queue is longer than its size, no timeline covers more backups
\* than there are, and a request number is at most the number of inputs.
THEOREM StreamsTyped == Spec => []TypeOK
<1>1. ASSUME StInv PROVE TypeOK
    <2> USE StreamsAssumption DEF StInv
    <2>1. backups \in [Insts -> 0..MaxInputs] /\ owed \in [Insts -> 0..MaxInputs]
        BY <1>1 DEF WorkerInv
    <2>2. \A m \in Msg : m.topic \in Topics
        BY DEF Msg, Topics
    <2>3. \A n \in DOMAIN wire : wire[n].topic \in Topics
        BY <1>1, <2>2 DEF WorkerInv
    <2>4. \A n \in DOMAIN bus : bus[n].topic \in Topics \ {"log"}
        BY <1>1, <2>2 DEF BusInv, Range
    <2>5. \A s \in Subscribers : /\ sub[s].at \in {"off", "on", "dropped"}
                                 /\ Len(sub[s].q) <= QueueCap /\ sub[s].from <= Len(bus)
        BY <1>1 DEF BusInv, Sub
    <2>6. /\ cache \in [Insts -> 0..MaxInputs \cup {None}] /\ excused \subseteq Insts
          /\ walk = None \/ (walk.inst \in Insts /\ walk.covers <= backups[walk.inst] /\ walk.raced \in BOOLEAN)
        BY <1>1 DEF CacheInv, Walk
    <2>7. /\ test.at \in {"idle", "subscribed", "waiting"} /\ test.rid \in 0..MaxInputs
          /\ asked \subseteq 1..MaxInputs /\ inputs \in 0..MaxInputs
        BY <1>1 DEF WorkerInv, Test
    <2>8. /\ Len(ring) <= RingCap /\ Len(viewer.q) <= LogQueueCap /\ lines \in Nat
          /\ viewer.at \in {"off", "snapshot", "on", "dropped"}
        BY <1>1 DEF LogInv, Viewer
    <2> QED BY <2>1, <2>3, <2>4, <2>5, <2>6, <2>7, <2>8 DEF TypeOK
<1> QED BY <1>1, StInvariant, PTL

\* What is seen and what waits, one after the other, are a piece of the bus.
LEMMA TracksPiece ==
    ASSUME NEW S, NEW b \in Seq(S), NEW g \in Seq(S), NEW q \in Seq(S), NEW f \in Nat, Tracks(b, f, g, q)
    PROVE  g \o q = SubSeq(b, f + 1, f + Len(g \o q)) /\ f + Len(g \o q) = f + Len(g) + Len(q)
<1> DEFINE k == g \o q
           p == SubSeq(b, f + 1, f + Len(k))
<1>1. Len(b) \in Nat /\ Len(g) \in Nat /\ Len(q) \in Nat
    OBVIOUS
<1>2. /\ f + Len(g) + Len(q) <= Len(b)
      /\ \A j \in 1..Len(g) : g[j] = b[f + j]
      /\ \A j \in 1..Len(q) : q[j] = b[f + Len(g) + j]
    BY DEF Tracks
<1>3. k \in Seq(S) /\ Len(k) = Len(g) + Len(q)
      /\ \A j \in 1..(Len(g) + Len(q)) : k[j] = IF j <= Len(g) THEN g[j] ELSE q[j - Len(g)]
    BY ConcatProperties
<1> HIDE DEF k
<1>4. ASSUME NEW j \in 1..Len(k) PROVE k[j] = b[f + j]
    <2>1. CASE j <= Len(g)
        <3>1. j \in 1..Len(g) /\ k[j] = g[j]
            BY <1>1, <1>3, <2>1
        <3> QED BY <1>2, <3>1
    <2>2. CASE ~(j <= Len(g))
        <3>1. j - Len(g) \in 1..Len(q) /\ f + Len(g) + (j - Len(g)) = f + j
            BY <1>1, <1>3, <2>2
        <3>2. q[j - Len(g)] = b[f + Len(g) + (j - Len(g))]
            BY <1>2, <3>1
        <3> QED BY <1>3, <2>2, <3>1, <3>2
    <2> QED BY <2>1, <2>2
<1>5. f + Len(k) <= Len(b) /\ Len(k) \in Nat
    BY <1>1, <1>2, <1>3
<1>6. /\ p \in Seq(S) /\ Len(p) = Len(k) /\ \A j \in 1..Len(k) : p[j] = b[f + j]
    <2>1. \A i \in (f + 1)..(f + Len(k)) : b[i] \in S
        BY <1>1, <1>5
    <2> QED BY <1>1, <1>5, <2>1
<1> HIDE DEF p
<1>7. k = p
    BY <1>3, <1>4, <1>5, <1>6, SeqEqual
<1>8. f + Len(k) = f + Len(g) + Len(q)
    BY <1>1, <1>3
<1> QED BY <1>7, <1>8 DEF k, p

\* Browsers see every event since they connected, in order and without holes, unless
\* they fell behind (EventBus.publish): for any number of browsers and any queue size.
THEOREM NoHoles == Spec => []StreamHasNoHoles
<1>1. ASSUME StInv PROVE StreamHasNoHoles
    <2> SUFFICES ASSUME NEW c \in Clients, sub[c].at # "off"
                 PROVE  LET got == seen[c] \o sub[c].q IN
                        /\ got = SubSeq(bus, sub[c].from + 1, sub[c].from + Len(got))
                        /\ sub[c].at = "on" => sub[c].from + Len(got) = Len(bus)
        BY DEF StreamHasNoHoles
    <2> DEFINE f == sub[c].from
               g == seen[c]
               q == sub[c].q
    <2>1. bus \in Seq(Msg) /\ f \in Nat /\ g \in Seq(Msg) /\ q \in Seq(Msg)
        BY <1>1 DEF StInv, BusInv, Sub, Subscribers
    <2>2. Tracks(bus, f, g, q) /\ (sub[c].at = "on" => f + Len(g) + Len(q) = Len(bus))
        BY <1>1 DEF StInv, FollowInv, Follows
    <2> HIDE DEF f, g, q
    <2>3. g \o q = SubSeq(bus, f + 1, f + Len(g \o q)) /\ f + Len(g \o q) = f + Len(g) + Len(q)
        BY <2>1, <2>2, TracksPiece
    <2> QED BY <2>2, <2>3 DEF f, g, q
<1> QED BY <1>1, StInvariant, PTL

\* An answer never comes before its request listens (test_replication): the request
\* number is used once, and its answer is published after the subscription.
THEOREM AnswersAwaited == Spec => []AnswerIsWaitedFor
<1>1. StInv => AnswerIsWaitedFor
    BY DEF StInv
<1> QED BY <1>1, StInvariant, PTL

\* No line logged after a viewer has subscribed gets lost between a thread, the loop
\* and the viewer (LogRing.post_threadsafe, _fanout), for any number of threads.
THEOREM LinesArrive == Spec => []LinesReachViewer
<1>1. StInv => LinesReachViewer
    BY DEF StInv
<1> QED BY <1>1, StInvariant, PTL

=============================================================================
