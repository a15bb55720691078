---------------------------- MODULE TabLinkProofs ----------------------------
(***************************************************************************)
(* Proofs about TabLink, for any rooms, runtimes, back-off and bounds: one *)
(* live socket per tab, one JOIN on it, and a popup and an icon that tell  *)
(* how it stands.                                                          *)
(*                                                                         *)
(* The first two rest on one fact about the runtime objects: the one that  *)
(* is not terminated is the one in the pool, whatever sockets, timers and  *)
(* storage calls of the others are still to be heard of (LinkInv).  What   *)
(* is shown also depends on the order of the clears in the queue (IconInv),*)
(* and the types on how far the back-off has come (TabInv).                *)
(***************************************************************************)
EXTENDS TabLink, SequenceTheorems, TLAPS

\* A WsRuntime, with whatever credentials, id and attempts it has.
Shape(w) ==
  w \in [creds : {w.creds}, cid : {w.cid}, attempt : {w.attempt},
         sock : {"none", "connecting", "open", "closing"},
         terminated : BOOLEAN, ticking : BOOLEAN, deadline : BOOLEAN,
         first : BOOLEAN, ident : BOOLEAN, catalog : BOOLEAN, retry : BOOLEAN,
         joins : {0, 1}, welcomed : BOOLEAN]

\* Timers go with the state of the socket, and a socket starts without a JOIN.
TimersFit(w) ==
  /\ w.sock \in {"none", "connecting"} => ~w.deadline
  /\ w.retry => w.sock = "none"
  /\ w.sock = "connecting" => w.joins = 0 /\ ~w.terminated
  /\ w.deadline => w.joins = 0
  /\ w.sock = "open" /\ ~w.terminated => (w.deadline <=> w.joins = 0)

RuntimeOK(w) == Shape(w) /\ TimersFit(w)

LinkInv ==
  /\ pool \in Runtimes \cup {None}
  /\ rt = [r \in Runtimes |-> rt[r]]
  /\ \A r \in Runtimes : RuntimeOK(rt[r]) /\ (~rt[r].terminated <=> r = pool)

LEMMA LinkInvImplies == LinkInv => OneLink /\ OneJoinPerSocket
BY LinkAssumption DEF LinkInv, RuntimeOK, Shape, TimersFit, OneLink, OneJoinPerSocket

----------------------------------------------------------------------------
(* The transforms of a runtime.                                            *)

LEMMA GoneOK == RuntimeOK(Gone) /\ Gone.terminated
BY DEF Gone, RuntimeOK, Shape, TimersFit

LEMMA FreshOK ==
  ASSUME NEW c
  PROVE  /\ RuntimeOK(OpenSocket(Fresh(c))) /\ ~OpenSocket(Fresh(c)).terminated
         /\ RuntimeOK(Terminate(Fresh(c))) /\ Terminate(Fresh(c)).terminated
BY DEF Fresh, Gone, OpenSocket, Terminate, RuntimeOK, Shape, TimersFit

\* One JOIN is counted, and nothing else of a runtime changes.
LEMMA JoinSent ==
  ASSUME NEW w, Shape(w), w.joins = 0
  PROVE  SendJoin(w) = [w EXCEPT !.joins = 1] /\ Shape(SendJoin(w))
BY DEF SendJoin, Shape

LEMMA JoinOnReconnect ==
  ASSUME NEW w, Shape(w), w.sock = "open", w.joins = 0,
         ~w.deadline, ~w.retry, ~w.terminated
  PROVE  RuntimeOK(SendJoin(w)) /\ ~SendJoin(w).terminated
<1> DEFINE u == [w EXCEPT !.joins = 1]
<1>1. SendJoin(w) = u /\ Shape(u)
  BY JoinSent
<1>2. u.joins = 1 /\ u.sock = "open" /\ ~u.deadline /\ ~u.retry /\ ~u.terminated
  BY DEF Shape
<1> HIDE DEF u
<1> QED BY <1>1, <1>2 DEF RuntimeOK, TimersFit

\* Reports and the deadline send the JOIN at most once.
LEMMA FlushOK ==
  ASSUME NEW w, RuntimeOK(w)
  PROVE  /\ w.deadline => RuntimeOK(FlushJoin(w))
         /\ RuntimeOK(MaybeFlushJoin(w))
         /\ FlushJoin(w).terminated = w.terminated
         /\ MaybeFlushJoin(w).terminated = w.terminated
<1>1. CASE w.deadline
  <2> DEFINE u == [w EXCEPT !.joins = 1]
             v == [u EXCEPT !.deadline = FALSE, !.first = TRUE,
                            !.ident = FALSE, !.catalog = FALSE]
  <2>1. SendJoin(w) = u
    BY <1>1, JoinSent DEF RuntimeOK, TimersFit
  <2>2. FlushJoin(w) = v
    BY <1>1, <2>1 DEF FlushJoin
  <2>3. /\ Shape(u) /\ u.sock = w.sock /\ u.retry = w.retry
        /\ u.joins = 1 /\ u.terminated = w.terminated
    BY DEF RuntimeOK, Shape
  <2>4. /\ Shape(v) /\ v.sock = w.sock /\ v.retry = w.retry
        /\ v.joins = 1 /\ v.terminated = w.terminated /\ ~v.deadline
    BY <2>3 DEF Shape
  <2>5. RuntimeOK(v)
    BY <1>1, <2>4 DEF RuntimeOK, TimersFit
  <2> HIDE DEF v
  <2> QED BY <2>2, <2>4, <2>5 DEF MaybeFlushJoin
<1>2. CASE ~w.deadline
  BY <1>2 DEF FlushJoin, SendJoin, MaybeFlushJoin, RuntimeOK, Shape, TimersFit
<1> QED BY <1>1, <1>2

\* disconnect leaves a runtime that can only hear its socket close.
LEMMA DisconnectedOK ==
  ASSUME NEW w, RuntimeOK(w)
  PROVE  LET v == [Terminate(Closed(w)) EXCEPT !.ticking = FALSE, !.deadline = FALSE]
         IN  RuntimeOK(v) /\ v.terminated
BY DEF Terminate, Closed, RuntimeOK, Shape, TimersFit

\* onClose, whatever comes of it.
LEMMA ClosedOK ==
  ASSUME NEW w, RuntimeOK(w)
  PROVE  LET v == [w EXCEPT !.sock = "none", !.ticking = FALSE, !.deadline = FALSE]
             d == [v EXCEPT !.attempt = @ + 1, !.retry = TRUE]
         IN  /\ RuntimeOK(v) /\ v.terminated = w.terminated
             /\ RuntimeOK(Terminate(v)) /\ Terminate(v).terminated
             /\ RuntimeOK(d) /\ d.terminated = w.terminated
BY DEF Terminate, RuntimeOK, Shape, TimersFit

\* The back-off timer dials anew, or finds the runtime terminated.
LEMMA RetriedOK ==
  ASSUME NEW w, RuntimeOK(w), w.retry
  PROVE  LET v == [w EXCEPT !.retry = FALSE]
         IN  /\ RuntimeOK(v) /\ v.terminated = w.terminated
             /\ ~w.terminated => RuntimeOK(OpenSocket(v)) /\ ~OpenSocket(v).terminated
BY DEF OpenSocket, RuntimeOK, Shape, TimersFit

\* onOpen sends the JOIN of a reconnect, or arms the deadline of the first.
LEMMA OpenedOK ==
  ASSUME NEW w, RuntimeOK(w), w.sock = "connecting"
  PROVE  LET v == [w EXCEPT !.sock = "open", !.attempt = 0, !.ticking = TRUE]
             o == IF v.first THEN SendJoin(v) ELSE MaybeFlushJoin([v EXCEPT !.deadline = TRUE])
         IN  RuntimeOK(o) /\ ~o.terminated
<1> DEFINE v == [w EXCEPT !.sock = "open", !.attempt = 0, !.ticking = TRUE]
<1>1. CASE w.first
  <2>1. Shape(v) /\ v.sock = "open" /\ v.joins = 0 /\ ~v.deadline /\ ~v.retry /\ ~v.terminated
    BY DEF RuntimeOK, Shape, TimersFit
  <2>2. v.first
    BY <1>1 DEF RuntimeOK, Shape
  <2> HIDE DEF v
  <2>3. RuntimeOK(SendJoin(v)) /\ ~SendJoin(v).terminated
    BY <2>1, JoinOnReconnect
  <2> QED BY <2>2, <2>3 DEF v
<1>2. CASE ~w.first
  <2>1. /\ RuntimeOK([v EXCEPT !.deadline = TRUE])
        /\ ~[v EXCEPT !.deadline = TRUE].terminated
    BY <1>2 DEF RuntimeOK, Shape, TimersFit
  <2>2. ~v.first
    BY <1>2 DEF RuntimeOK, Shape
  <2> QED BY <2>1, <2>2, FlushOK
<1> QED BY <1>1, <1>2

----------------------------------------------------------------------------
(* The pool.                                                               *)

\* Become forgets only what is terminated: the pooled runtime stays.
LEMMA BecomeKeeps ==
  ASSUME NEW objs, NEW p \in Runtimes \cup {None}, NEW s, NEW m,
         \A r \in Runtimes : RuntimeOK(objs[r]) /\ (~objs[r].terminated <=> r = p),
         Become(objs, p, s, m)
  PROVE  LinkInv'
<1>1. pool' = p /\ rt' = Collect(objs, p, s)
  BY DEF Become
<1>2. rt' = [r \in Runtimes |-> rt'[r]]
  BY <1>1 DEF Collect
<1>3. ASSUME NEW r \in Runtimes
      PROVE  RuntimeOK(rt'[r]) /\ (~rt'[r].terminated <=> r = p)
  <2>1. rt'[r] = objs[r] \/ (rt'[r] = Gone /\ r # p)
    BY <1>1 DEF Collect
  <2> QED BY <2>1, GoneOK
<1> QED BY <1>1, <1>2, <1>3 DEF LinkInv

\* The same for one runtime that changed, with the pool as it was or emptied.
LEMMA BecomeOne ==
  ASSUME LinkInv, NEW r \in Runtimes, NEW w, RuntimeOK(w),
         NEW p \in Runtimes \cup {None}, NEW s, NEW m,
         Become([rt EXCEPT ![r] = w], p, s, m),
         \/ p = pool /\ w.terminated = rt[r].terminated
         \/ p = None /\ w.terminated /\ (pool = r \/ pool = None)
         \/ p = r /\ ~w.terminated /\ pool = None
  PROVE  LinkInv'
<1> DEFINE objs == [rt EXCEPT ![r] = w]
<1>1. None \notin Runtimes
  BY LinkAssumption
<1>2. /\ RuntimeOK(objs[r]) /\ objs[r] = w
      /\ \A q \in Runtimes \ {r} : objs[q] = rt[q]
  BY DEF LinkInv
<1>3. ASSUME NEW q \in Runtimes
      PROVE  RuntimeOK(objs[q]) /\ (~objs[q].terminated <=> q = p)
  <2>1. RuntimeOK(rt[q]) /\ (~rt[q].terminated <=> q = pool)
    BY DEF LinkInv
  <2>2. CASE q = r
    BY <1>1, <1>2, <2>1, <2>2
  <2>3. CASE q # r
    BY <1>1, <1>2, <2>1, <2>3
  <2> QED BY <2>2, <2>3
<1> HIDE DEF objs
<1> QED BY <1>3, BecomeKeeps DEF objs

\* Every disconnect empties the pool and terminates what was in it.
LEMMA DisconnectKeeps ==
  ASSUME LinkInv, NEW s, NEW m, Disconnect(s, m)
  PROVE  LinkInv'
<1>1. CASE pool = None
  BY <1>1, BecomeKeeps DEF Disconnect, LinkInv
<1>2. CASE pool # None
  <2> DEFINE w == [Terminate(Closed(rt[pool])) EXCEPT !.ticking = FALSE, !.deadline = FALSE]
  <2>1. pool \in Runtimes /\ RuntimeOK(rt[pool])
    BY <1>2 DEF LinkInv
  <2>2. RuntimeOK(w) /\ w.terminated
    BY <2>1, DisconnectedOK
  <2>3. Become([rt EXCEPT ![pool] = w], None, s, m)
    BY <1>2 DEF Disconnect
  <2> HIDE DEF w
  <2> QED BY <2>1, <2>2, <2>3, BecomeOne
<1> QED BY <1>1, <1>2

\* connect makes a runtime only when there is none.
LEMMA ConnectKeeps ==
  ASSUME LinkInv, NEW c, NEW q, EnsureConnectedWithCreds(c, q)
  PROVE  LinkInv'
<1>1. CASE pool # None
  BY <1>1 DEF EnsureConnectedWithCreds, LinkInv
<1>2. CASE pool = None
  <2>1. PICK r \in Runtimes :
          \/ Become([rt EXCEPT ![r] = Terminate(Fresh(c))], None, r, NotifyConnecting)
          \/ Become([rt EXCEPT ![r] = OpenSocket(Fresh(c))], r, r, NotifyConnecting)
    BY <1>2 DEF EnsureConnectedWithCreds
  <2> QED BY <1>2, <2>1, FreshOK, BecomeOne
<1> QED BY <1>1, <1>2

----------------------------------------------------------------------------
LEMMA LinkInit == Init => LinkInv
BY GoneOK, LinkAssumption DEF Init, LinkInv

LEMMA LinkUnmoved == LinkInv /\ UNCHANGED <<rt, pool>> => LinkInv'
BY DEF LinkInv

\* A step that changes one runtime in place and keeps it terminated or not.
LEMMA OneInPlace ==
  ASSUME LinkInv, NEW r \in Runtimes, NEW w, RuntimeOK(w),
         w.terminated = rt[r].terminated,
         rt' = [rt EXCEPT ![r] = w], pool' = pool
  PROVE  LinkInv'
<1>1. rt' = [q \in Runtimes |-> IF q = r THEN w ELSE rt[q]]
  BY DEF LinkInv
<1>2. ASSUME NEW q \in Runtimes
      PROVE  RuntimeOK(rt'[q]) /\ (~rt'[q].terminated <=> q = pool')
  <2>1. RuntimeOK(rt[q]) /\ (~rt[q].terminated <=> q = pool)
    BY DEF LinkInv
  <2> QED BY <1>1, <2>1
<1> QED BY <1>1, <1>2 DEF LinkInv

LEMMA LinkKeptByMessages ==
  ASSUME LinkInv,
         \/ \E room \in Rooms : Credentials(room)
         \/ EnsureConnected \/ ReportIdentity \/ ReportCatalog
         \/ LeaveRoom \/ Fail \/ OnRemoved \/ Subscribe \/ ClosePopup
  PROVE  LinkInv'
<1>1. CASE (\E room \in Rooms : Credentials(room)) \/ EnsureConnected \/ Subscribe \/ ClosePopup
  BY <1>1, LinkUnmoved DEF Credentials, EnsureConnected, Subscribe, ClosePopup
<1>2. CASE ReportIdentity
  <2> DEFINE v == [rt[pool] EXCEPT !.ident = TRUE]
  <2>1. pool \in Runtimes /\ RuntimeOK(rt[pool])
    BY <1>2 DEF ReportIdentity, LinkInv
  <2>2. RuntimeOK(v) /\ v.terminated = rt[pool].terminated
    BY <2>1 DEF RuntimeOK, Shape, TimersFit
  <2>3. rt' = [rt EXCEPT ![pool] = MaybeFlushJoin(v)] /\ pool' = pool
    BY <1>2 DEF ReportIdentity
  <2> HIDE DEF v
  <2> QED BY <2>1, <2>2, <2>3, FlushOK, OneInPlace
<1>3. CASE ReportCatalog
  <2> DEFINE v == [rt[pool] EXCEPT !.catalog = TRUE]
  <2>1. pool \in Runtimes /\ RuntimeOK(rt[pool])
    BY <1>3 DEF ReportCatalog, LinkInv
  <2>2. RuntimeOK(v) /\ v.terminated = rt[pool].terminated
    BY <2>1 DEF RuntimeOK, Shape, TimersFit
  <2>3. rt' = [rt EXCEPT ![pool] = MaybeFlushJoin(v)] /\ pool' = pool
    BY <1>3 DEF ReportCatalog
  <2> HIDE DEF v
  <2> QED BY <2>1, <2>2, <2>3, FlushOK, OneInPlace
<1>4. CASE LeaveRoom
  BY <1>4, DisconnectKeeps DEF LeaveRoom
<1>5. CASE Fail
  BY <1>5, DisconnectKeeps DEF Fail
<1>6. CASE OnRemoved
  BY <1>6, DisconnectKeeps DEF OnRemoved
<1> QED BY <1>1, <1>2, <1>3, <1>4, <1>5, <1>6

LEMMA LinkKeptByStorage ==
  ASSUME LinkInv, Storage \/ TabProbed
  PROVE  LinkInv'
<1>1. CASE LoadCreds
  <2>1. UNCHANGED <<rt, pool>> \/ EnsureConnectedWithCreds(slot, Rest)
    BY <1>1 DEF LoadCreds
  <2> QED BY <2>1, LinkUnmoved, ConnectKeeps
<1>2. CASE SaveCreds
  BY <1>2, ConnectKeeps DEF SaveCreds
<1>3. CASE TearDownTab
  BY <1>3, BecomeKeeps DEF TearDownTab, LinkInv
<1>4. CASE FailCleared
  BY <1>4, BecomeKeeps DEF FailCleared, LinkInv
<1>5. CASE ClearCreds \/ ReadForClientId \/ WriteClientId \/ WipeIfFresh \/ LoadAllCreds
  BY <1>5, LinkUnmoved
     DEF ClearCreds, ReadForClientId, WriteClientId, WipeIfFresh, LoadAllCreds
<1>6. CASE TabProbed
  <2>1. UNCHANGED <<rt, pool>> \/ EnsureConnectedWithCreds(probe, calls)
    BY <1>6 DEF TabProbed
  <2> QED BY <2>1, LinkUnmoved, ConnectKeeps
<1> QED BY <1>1, <1>2, <1>3, <1>4, <1>5, <1>6 DEF Storage

LEMMA LinkKeptBySocket ==
  ASSUME LinkInv, NEW r \in Runtimes,
         \/ Resolve(r) \/ JoinDeadline(r) \/ TerminalError(r) \/ Retry(r)
         \/ \E id \in Ids : RoomState(r, id)
  PROVE  LinkInv'
<1>1. /\ RuntimeOK(rt[r]) /\ (~rt[r].terminated <=> r = pool)
      /\ pool \in Runtimes \cup {None}
  BY DEF LinkInv
<1>2. CASE OnOpen(r)
  <2> DEFINE v == [rt[r] EXCEPT !.sock = "open", !.attempt = 0, !.ticking = TRUE]
             o == IF v.first THEN SendJoin(v)
                  ELSE MaybeFlushJoin([v EXCEPT !.deadline = TRUE])
  <2>1. rt[r].sock = "connecting" /\ Become([rt EXCEPT ![r] = o], pool, sess, NotifyOpen(mirror))
    BY <1>2 DEF OnOpen
  <2>2. RuntimeOK(o) /\ ~o.terminated
    BY <1>1, <2>1, OpenedOK
  <2>3. ~rt[r].terminated
    BY <1>1, <2>1 DEF RuntimeOK, TimersFit
  <2>4. o.terminated = rt[r].terminated
    <3>1. o.terminated \in BOOLEAN /\ rt[r].terminated \in BOOLEAN
      BY <1>1, <2>2 DEF RuntimeOK, Shape
    <3> QED BY <2>2, <2>3, <3>1
  <2> HIDE DEF o
  <2> QED BY <1>1, <2>1, <2>2, <2>4, BecomeOne
<1>3. CASE OnClose(r)
  <2> DEFINE w == [rt[r] EXCEPT !.sock = "none", !.ticking = FALSE, !.deadline = FALSE]
             d == [w EXCEPT !.attempt = @ + 1, !.retry = TRUE]
             m == NotifyDisconnected(mirror)
  <2>1. /\ RuntimeOK(w) /\ w.terminated = rt[r].terminated
        /\ RuntimeOK(Terminate(w)) /\ Terminate(w).terminated
        /\ RuntimeOK(d) /\ d.terminated = rt[r].terminated
    BY <1>1, ClosedOK
  <2>2. \/ Become([rt EXCEPT ![r] = w], pool, sess, m)
        \/ ~w.terminated /\ Become([rt EXCEPT ![r] = Terminate(w)], None, sess, m)
        \/ Become([rt EXCEPT ![r] = d], pool, sess, m)
    BY <1>3 DEF OnClose, ScheduleReconnect
  <2> HIDE DEF w, d, m
  <2> QED BY <1>1, <2>1, <2>2, BecomeOne
<1>4. CASE JoinDeadline(r)
  BY <1>1, <1>4, FlushOK, OneInPlace DEF JoinDeadline
<1>5. CASE TerminalError(r)
  <2>1. RuntimeOK(Terminate(rt[r])) /\ Terminate(rt[r]).terminated
    BY <1>1, <1>5 DEF TerminalError, Terminate, RuntimeOK, Shape, TimersFit
  <2>2. Become([rt EXCEPT ![r] = Terminate(rt[r])], None, sess, mirror) /\ r = pool
    BY <1>1, <1>5 DEF TerminalError
  <2> QED BY <2>1, <2>2, BecomeOne
<1>6. CASE Retry(r)
  <2> DEFINE w == [rt[r] EXCEPT !.retry = FALSE]
             o == OpenSocket(w)
  <2>1. /\ RuntimeOK(w) /\ w.terminated = rt[r].terminated
        /\ ~rt[r].terminated => RuntimeOK(o) /\ ~o.terminated
    BY <1>1, <1>6, RetriedOK DEF Retry
  <2>2. \/ Become([rt EXCEPT ![r] = w], pool, sess, mirror)
        \/ ~w.terminated /\ Become([rt EXCEPT ![r] = o], pool, sess, NotifyConnecting)
    BY <1>6 DEF Retry
  <2>3. ~rt[r].terminated => o.terminated = rt[r].terminated
    BY <1>1, <2>1 DEF RuntimeOK, Shape
  <2> HIDE DEF w, o
  <2> QED BY <1>1, <2>1, <2>2, <2>3, BecomeOne
<1>7. CASE \E id \in Ids : RoomState(r, id)
  <2>1. PICK id \in Ids : RoomState(r, id)
    BY <1>7
  <2> DEFINE w == [rt[r] EXCEPT !.cid = id, !.welcomed = TRUE]
  <2>2. RuntimeOK(w) /\ w.terminated = rt[r].terminated
    BY <1>1 DEF RuntimeOK, Shape, TimersFit
  <2>3. rt' = [rt EXCEPT ![r] = w] /\ pool' = pool
    BY <2>1 DEF RoomState, LinkInv
  <2> HIDE DEF w
  <2> QED BY <2>2, <2>3, OneInPlace
<1> QED BY <1>2, <1>3, <1>4, <1>5, <1>6, <1>7 DEF Resolve

LEMMA LinkKeptByReboot ==
  ASSUME LinkInv, WorkerStops \/ BrowserRestarts
  PROVE  LinkInv'
BY GoneOK, LinkAssumption DEF WorkerStops, BrowserRestarts, Reboot, LinkInv

LEMMA LinkStep == LinkInv /\ [Next]_vars => LinkInv'
<1> SUFFICES ASSUME LinkInv, [Next]_vars PROVE LinkInv'
  OBVIOUS
<1>1. CASE UNCHANGED vars
  BY <1>1, LinkUnmoved DEF vars
<1>2. CASE Next
  BY <1>2, LinkKeptByMessages, LinkKeptByStorage, LinkKeptBySocket, LinkKeptByReboot
     DEF Next
<1> QED BY <1>1, <1>2

LEMMA LinkAlways == Spec => []LinkInv
BY LinkInit, LinkStep, PTL DEF Spec

\* A runtime that was replaced or torn down never dials again: the only live
\* socket of a tab is the pooled one (ws.ts, connect and disconnect).
THEOREM TabHasOneLink == Spec => []OneLink
BY LinkAlways, LinkInvImplies, PTL

\* Every open socket of the pool carries one JOIN or has its deadline still to
\* come (ws.ts, onOpen, flushJoin and maybeFlushJoin).
THEOREM SocketsJoinOnce == Spec => []OneJoinPerSocket
BY LinkAlways, LinkInvImplies, PTL

----------------------------------------------------------------------------
(* The icon and the popup.  Neither is told of everything: a `fail' in the *)
(* queue drops the session without a broadcast, and only a clear that is   *)
(* still queued takes the colour away after a terminal ERROR.  So what is  *)
(* kept relates the display to the queue of storage calls.                 *)

Posts ==
  [kind : {"save", "writeId"}, arg : Creds] \cup [kind : {"readId"}, arg : Ids]
    \cup [kind : Kinds \ {"save", "writeId", "readId"}, arg : {None}]

LinkTypes ==
  /\ slot \in Creds \cup {None} /\ probe \in Creds \cup {None}
  /\ calls \in Seq(Posts)
  /\ sess \in Runtimes \cup {None}
  /\ mirror \in [sock : {"absent", "none", "connecting", "open", "disconnected"},
                 creds : BOOLEAN]

\* A clear that takes the colour off the icon is queued, none that leaves the
\* mirror alone is, and one that empties the mirror comes before any of those.
Greying(q) == \E i \in DOMAIN q : q[i].kind \in {"tearDown", "fail"}
NoFail(q)  == \A i \in DOMAIN q : q[i].kind # "fail"
Doomed(q)  == \E i \in DOMAIN q :
                q[i].kind = "tearDown" /\ \A j \in 1 .. i : q[j].kind # "fail"

PoolOpen(objs, p) == p # None /\ objs[p].sock = "open"

\* The session is the pool's; an open mirror has the pool's open socket behind
\* it or is about to be emptied; a coloured icon a joined room, or is about to
\* be greyed; the popup shows the status.
Told(q, objs, p, s, m, col, sh) ==
  /\ p # None => s \in {p, None}
  /\ m.sock = "open" => (PoolOpen(objs, p) /\ NoFail(q)) \/ Doomed(q)
  /\ col => (PoolOpen(objs, p) /\ objs[p].cid # None) \/ Greying(q)
  /\ sh # None => sh = Status(m, s, objs)

ToldNow == Told(calls, rt, pool, sess, mirror, colored, shown)

IconInv == LinkTypes /\ ToldNow

LEMMA IconInvImplies == IconInv => ColoredMeansJoined /\ PopupCurrent
BY DEF IconInv, ToldNow, Told, PoolOpen, Greying, ColoredMeansJoined, Clearing, PopupCurrent

----------------------------------------------------------------------------
(* The queue.                                                              *)

\* What a longer or shorter queue must still say.
QueueKeeps(q, n) ==
  /\ NoFail(q) => NoFail(n)
  /\ Doomed(q) => Doomed(n)
  /\ Greying(q) => Greying(n)

LEMMA QueueGrows ==
  ASSUME NEW T, NEW q \in Seq(T), NEW k, NEW x
  PROVE  /\ k # "fail" => QueueKeeps(q, Posted(q, k, x))
         /\ Doomed(q) => Doomed(Posted(q, k, x))
         /\ NoFail(q) /\ k = "tearDown" => Doomed(Posted(q, k, x))
         /\ k \in {"tearDown", "fail"} => Greying(Posted(q, k, x))
<1> DEFINE n == Posted(q, k, x)
<1>1. /\ Len(q) \in Nat /\ DOMAIN q = 1 .. Len(q) /\ DOMAIN n = 1 .. Len(q) + 1
      /\ n[Len(q) + 1].kind = k
      /\ \A i \in 1 .. Len(q) : n[i] = q[i]
  BY DEF Posted, Call
<1> HIDE DEF n
<1>2. NoFail(q) /\ k # "fail" => NoFail(n)
  BY <1>1 DEF NoFail
<1>3. ASSUME Doomed(q) PROVE Doomed(n)
  <2>1. PICK i \in 1 .. Len(q) :
          q[i].kind = "tearDown" /\ \A j \in 1 .. i : q[j].kind # "fail"
    BY <1>1, <1>3 DEF Doomed
  <2>2. i \in DOMAIN n /\ \A j \in 1 .. i : j \in 1 .. Len(q)
    BY <1>1
  <2>3. n[i].kind = "tearDown" /\ \A j \in 1 .. i : n[j].kind # "fail"
    BY <1>1, <2>1, <2>2
  <2> QED BY <2>2, <2>3 DEF Doomed
<1>4. Greying(q) => Greying(n)
  BY <1>1 DEF Greying
<1>5. ASSUME NoFail(q), k = "tearDown" PROVE Doomed(n)
  <2>1. Len(q) + 1 \in DOMAIN n /\ n[Len(q) + 1].kind = "tearDown"
    BY <1>1, <1>5
  <2>2. \A j \in 1 .. Len(q) + 1 : n[j].kind # "fail"
    BY <1>1, <1>2, <1>5 DEF NoFail
  <2> QED BY <2>1, <2>2 DEF Doomed
<1>6. k \in {"tearDown", "fail"} => Greying(n)
  BY <1>1 DEF Greying
<1> QED BY <1>2, <1>3, <1>4, <1>5, <1>6 DEF QueueKeeps, n

\* The answer of a call that is no clear takes no clear off the queue.
LEMMA QueueServed ==
  ASSUME NEW T, NEW q \in Seq(T), q # <<>>
  PROVE  /\ Head(q).kind \notin {"tearDown", "fail"} => QueueKeeps(q, Tail(q))
         /\ Head(q).kind = "fail" => ~NoFail(q) /\ ~Doomed(q)
<1> DEFINE n == Tail(q)
<1>1. /\ Len(q) \in Nat \ {0} /\ DOMAIN q = 1 .. Len(q) /\ DOMAIN n = 1 .. Len(q) - 1
      /\ Head(q) = q[1]
      /\ \A i \in 1 .. Len(q) - 1 : n[i] = q[i + 1]
  OBVIOUS
<1> HIDE DEF n
<1>2. NoFail(q) => NoFail(n)
  BY <1>1 DEF NoFail
<1>3. ASSUME Head(q).kind # "tearDown", Doomed(q) PROVE Doomed(n)
  <2>1. PICK i \in 1 .. Len(q) :
          q[i].kind = "tearDown" /\ \A j \in 1 .. i : q[j].kind # "fail"
    BY <1>1, <1>3 DEF Doomed
  <2>2. i # 1
    BY <1>1, <1>3, <2>1
  <2>3. i - 1 \in DOMAIN n /\ n[i - 1] = q[i]
    BY <1>1, <2>2
  <2>4. \A j \in 1 .. i - 1 : n[j] = q[j + 1] /\ j + 1 \in 1 .. i
    BY <1>1
  <2> QED BY <2>1, <2>3, <2>4 DEF Doomed
<1>4. ASSUME Head(q).kind \notin {"tearDown", "fail"}, Greying(q) PROVE Greying(n)
  <2>1. PICK i \in 1 .. Len(q) : q[i].kind \in {"tearDown", "fail"}
    BY <1>1, <1>4 DEF Greying
  <2>2. i # 1
    BY <1>1, <1>4, <2>1
  <2>3. i - 1 \in DOMAIN n /\ n[i - 1] = q[i]
    BY <1>1, <2>2
  <2> QED BY <2>1, <2>3 DEF Greying
<1>5. Head(q).kind = "fail" => ~NoFail(q) /\ ~Doomed(q)
  BY <1>1 DEF NoFail, Doomed
<1> QED BY <1>2, <1>3, <1>4, <1>5 DEF QueueKeeps, n

LEMMA QueueSteps ==
  /\ \A q : QueueKeeps(q, q)
  /\ \A q, n, m : QueueKeeps(q, n) /\ QueueKeeps(n, m) => QueueKeeps(q, m)
BY DEF QueueKeeps

----------------------------------------------------------------------------
(* The status.                                                             *)

\* It reads of the runtimes only the session's client id, and that only under
\* an open mirror.
LEMMA StatusReads ==
  ASSUME NEW m, NEW s, NEW o, NEW t, NEW u
  PROVE  /\ (s # None => u[s].cid = o[s].cid) => Status(m, s, u) = Status(m, s, o)
         /\ m.sock # "open" => Status(m, s, o) = Status(m, t, u)
         /\ Status(m, s, o) = "joined" => m.sock = "open" /\ s # None /\ o[s].cid # None
BY DEF Status

----------------------------------------------------------------------------
(* What a step must do for the display to stay true.                       *)

\* The types are kept whenever the slot and the queue change as the storage
\* handlers change them; the runtimes do not matter.
LEMMA PostTyped ==
  ASSUME NEW q \in Seq(Posts), NEW k, NEW x,
         \/ k \in {"save", "writeId"} /\ x \in Creds
         \/ k = "readId" /\ x \in Ids
         \/ k \in Kinds \ {"save", "writeId", "readId"} /\ x = None
  PROVE  Posted(q, k, x) \in Seq(Posts)
<1>1. Call(k, x) \in Posts
  BY DEF Call, Posts, Kinds
<1> QED BY <1>1 DEF Posted

LEMMA CollectKeeps ==
  ASSUME NEW objs, NEW p, NEW s, NEW m, Become(objs, p, s, m),
         NEW r \in Runtimes, r \in {p, s}
  PROVE  rt'[r] = objs[r]
BY DEF Become, Collect

\* A step that leaves the pool, the session, the mirror and the display alone,
\* and the socket and the id of the runtimes behind them.
LEMMA StillTold ==
  ASSUME IconInv, LinkTypes', pool \in Runtimes \cup {None},
         UNCHANGED <<pool, sess, mirror, colored, shown>>,
         QueueKeeps(calls, calls'),
         \A r \in Runtimes : r \in {pool, sess} =>
            rt'[r].sock = rt[r].sock /\ rt'[r].cid = rt[r].cid
  PROVE  IconInv'
<1>1. Status(mirror, sess, rt') = Status(mirror, sess, rt)
  BY StatusReads DEF IconInv, LinkTypes
<1>2. PoolOpen(rt, pool) => PoolOpen(rt', pool) /\ rt'[pool].cid = rt[pool].cid
  BY DEF PoolOpen
<1> QED BY <1>1, <1>2 DEF IconInv, ToldNow, Told, QueueKeeps

\* A step after which the mirror is not open, and that left the colour only
\* over a queue that will grey it.
LEMMA ShutTold ==
  ASSUME LinkTypes', mirror'.sock # "open",
         pool' # None => sess' \in {pool', None},
         colored' => Greying(calls'),
         shown' # None => shown' = Status(mirror', sess', rt')
  PROVE  IconInv'
BY DEF IconInv, ToldNow, Told

\* A step that broadcasts, and recolours, under a mirror that is not open.
LEMMA BroadcastTold ==
  ASSUME Broadcast
  PROVE  shown' # None => shown' = Status(mirror', sess', rt')
BY DEF Broadcast

LEMMA RecolorShut ==
  ASSUME Recolor, mirror'.sock # "open"
  PROVE  ~colored'
<1>1. Status(mirror', sess', rt') # "joined"
  BY StatusReads
<1> QED BY <1>1 DEF Recolor

\* A colour under no open pooled socket is owed to a clear in the queue.
LEMMA ColourOwed ==
  ASSUME IconInv, colored, ~PoolOpen(rt, pool)
  PROVE  Greying(calls)
BY DEF IconInv, ToldNow, Told

LEMMA MirrorsTyped ==
  /\ NotifyConnecting \in [sock : {"absent", "none", "connecting", "open", "disconnected"},
                           creds : BOOLEAN]
  /\ Absent \in [sock : {"absent", "none", "connecting", "open", "disconnected"},
                 creds : BOOLEAN]
  /\ NotifyConnecting.sock # "open" /\ Absent.sock # "open"
  /\ LinkTypes => NotifyOpen(mirror) \in
        [sock : {"absent", "none", "connecting", "open", "disconnected"}, creds : BOOLEAN]
  /\ LinkTypes => NotifyDisconnected(mirror) \in
        [sock : {"absent", "none", "connecting", "open", "disconnected"}, creds : BOOLEAN]
  /\ LinkTypes => NotifyDisconnected(mirror).sock # "open"
  /\ LinkTypes => NotifyOpen(mirror).sock = "open"
BY DEF NotifyConnecting, Absent, NotifyOpen, NotifyDisconnected, LinkTypes

LEMMA IconInit == Init => IconInv
<1> SUFFICES ASSUME Init PROVE IconInv
  OBVIOUS
<1>1. Call("sentinel", None) \in Posts
  BY DEF Call, Posts, Kinds
<1>2. calls \in Seq(Posts)
  BY <1>1 DEF Init
<1>3. LinkTypes
  BY <1>2, MirrorsTyped DEF Init, LinkTypes
<1>4. mirror.sock # "open" /\ pool = None /\ ~colored /\ shown = None
  BY MirrorsTyped DEF Init
<1> QED BY <1>3, <1>4 DEF IconInv, ToldNow, Told

----------------------------------------------------------------------------
(* The steps.                                                              *)

\* The popup's leave and the page's failure disconnect in front of a clear.
LEMMA IconKeptByDisconnect ==
  ASSUME LinkInv, IconInv, NEW k \in {"tearDown", "fail"}, Post(k, None),
         Disconnect(sess, Dropped(mirror)),
         IF pool = None THEN UNCHANGED <<shown, colored>> ELSE Broadcast /\ Recolor,
         UNCHANGED <<slot, probe>>
  PROVE  IconInv'
<1>1. calls' = Posted(calls, k, None) /\ calls \in Seq(Posts)
  BY DEF Post, IconInv, LinkTypes
<1>2. calls' \in Seq(Posts)
  BY <1>1, PostTyped DEF Kinds
<1>3. Greying(calls') /\ (Doomed(calls) => Doomed(calls'))
  BY <1>1, QueueGrows
<1>4. pool' = None /\ sess' = sess /\ mirror' = Dropped(mirror)
  BY DEF Disconnect, Become
<1>5. LinkTypes'
  BY <1>2, <1>4, MirrorsTyped DEF IconInv, LinkTypes, Dropped
<1>6. CASE pool = None
  <2>1. Become(rt, None, sess, mirror)
    BY <1>6 DEF Disconnect, Dropped
  <2>2. sess # None => rt'[sess].cid = rt[sess].cid
    BY <2>1, CollectKeeps DEF IconInv, LinkTypes
  <2>3. Status(mirror, sess, rt') = Status(mirror, sess, rt)
    BY <2>2, StatusReads
  <2>4. mirror' = mirror /\ UNCHANGED <<shown, colored>>
    BY <1>4, <1>6 DEF Dropped
  <2>5. mirror.sock = "open" => Doomed(calls)
    BY <1>6 DEF IconInv, ToldNow, Told, PoolOpen
  <2> QED BY <1>3, <1>4, <1>5, <2>3, <2>4, <2>5 DEF IconInv, ToldNow, Told
<1>7. CASE pool # None
  <2>1. mirror'.sock # "open"
    BY <1>4, <1>7, MirrorsTyped DEF Dropped, IconInv
  <2> QED BY <1>3, <1>4, <1>5, <1>7, <2>1, BroadcastTold, ShutTold
<1> QED BY <1>6, <1>7

LEMMA IconKeptByMessages ==
  ASSUME LinkInv, IconInv,
         \/ \E room \in Rooms : Credentials(room)
         \/ EnsureConnected \/ ReportIdentity \/ ReportCatalog
         \/ LeaveRoom \/ Fail \/ OnRemoved \/ Subscribe \/ ClosePopup
  PROVE  IconInv'
<1>1. pool \in Runtimes \cup {None} /\ calls \in Seq(Posts)
  BY DEF LinkInv, IconInv, LinkTypes
<1>2. CASE \E room \in Rooms : Credentials(room)
  <2>1. PICK room \in Rooms : Credentials(room)
    BY <1>2
  <2>2. [room |-> room, id |-> None] \in Creds
    BY DEF Creds
  <2>3. calls' = Posted(calls, "save", [room |-> room, id |-> None])
    BY <2>1 DEF Credentials, Post
  <2>4. calls' \in Seq(Posts) /\ QueueKeeps(calls, calls')
    BY <1>1, <2>2, <2>3, PostTyped, QueueGrows
  <2>5. LinkTypes'
    BY <2>1, <2>4 DEF Credentials, IconInv, LinkTypes
  <2> QED BY <1>1, <2>1, <2>4, <2>5, StillTold DEF Credentials
<1>3. CASE EnsureConnected
  <2>1. calls' = Posted(calls, "load", None)
    BY <1>3 DEF EnsureConnected, Post
  <2>2. calls' \in Seq(Posts) /\ QueueKeeps(calls, calls')
    BY <1>1, <2>1, PostTyped, QueueGrows DEF Kinds
  <2>3. LinkTypes'
    BY <1>3, <2>2 DEF EnsureConnected, IconInv, LinkTypes
  <2> QED BY <1>1, <1>3, <2>2, <2>3, StillTold DEF EnsureConnected
<1>4. CASE ReportIdentity \/ ReportCatalog
  <2>1. PICK w \in {[rt[pool] EXCEPT !.ident = TRUE], [rt[pool] EXCEPT !.catalog = TRUE]} :
          rt' = [rt EXCEPT ![pool] = MaybeFlushJoin(w)]
    BY <1>4 DEF ReportIdentity, ReportCatalog
  <2>2. pool \in Runtimes /\ RuntimeOK(rt[pool])
    BY <1>4 DEF ReportIdentity, ReportCatalog, LinkInv
  <2>3. w.sock = rt[pool].sock /\ w.cid = rt[pool].cid
    BY <2>2 DEF RuntimeOK, Shape
  <2>4. MaybeFlushJoin(w).sock = w.sock /\ MaybeFlushJoin(w).cid = w.cid
    BY DEF MaybeFlushJoin, FlushJoin, SendJoin
  <2>5. \A r \in Runtimes : rt'[r].sock = rt[r].sock /\ rt'[r].cid = rt[r].cid
    BY <2>1, <2>3, <2>4 DEF LinkInv
  <2>6. UNCHANGED <<slot, calls, probe, pool, sess, mirror, colored, shown>>
    BY <1>4 DEF ReportIdentity, ReportCatalog
  <2>7. LinkTypes' /\ QueueKeeps(calls, calls')
    BY <2>6, QueueSteps DEF IconInv, LinkTypes
  <2> QED BY <1>1, <2>5, <2>6, <2>7, StillTold
<1>5. CASE LeaveRoom
  BY <1>5, IconKeptByDisconnect DEF LeaveRoom
<1>6. CASE Fail
  BY <1>6, IconKeptByDisconnect DEF Fail
<1>7. CASE OnRemoved
  <2>1. calls' = Posted(calls, "forget", None)
    BY <1>7 DEF OnRemoved, Post
  <2>2. pool' = None /\ sess' = None /\ mirror' = Absent
    BY <1>7 DEF OnRemoved, Disconnect, Become
  <2>3. calls' \in Seq(Posts)
    BY <1>1, <2>1, PostTyped DEF Kinds
  <2>4. LinkTypes'
    BY <1>7, <2>2, <2>3, MirrorsTyped DEF OnRemoved, IconInv, LinkTypes
  <2> QED BY <1>7, <2>2, <2>4, MirrorsTyped, BroadcastTold, ShutTold DEF OnRemoved
<1>8. CASE Subscribe
  <2>1. LinkTypes'
    BY <1>8 DEF Subscribe, IconInv, LinkTypes
  <2> QED BY <1>8, <2>1 DEF Subscribe, IconInv, ToldNow, Told
<1>9. CASE ClosePopup
  <2>1. LinkTypes'
    BY <1>9 DEF ClosePopup, IconInv, LinkTypes
  <2> QED BY <1>9, <2>1 DEF ClosePopup, IconInv, ToldNow, Told
<1> QED BY <1>2, <1>3, <1>4, <1>5, <1>6, <1>7, <1>8, <1>9

\* The dial: the mirror says connecting, and the session is the new runtime's.
LEMMA IconKeptByConnect ==
  ASSUME LinkInv, IconInv, slot' \in Creds \cup {None}, probe' \in Creds \cup {None},
         NEW c, NEW q \in Seq(Posts), QueueKeeps(calls, q), EnsureConnectedWithCreds(c, q)
  PROVE  IconInv'
<1>1. pool \in Runtimes \cup {None}
  BY DEF LinkInv
<1>2. CASE pool # None
  <2>1. calls' = q /\ UNCHANGED <<rt, pool, sess, mirror, colored, shown>>
    BY <1>2 DEF EnsureConnectedWithCreds
  <2>2. LinkTypes'
    BY <2>1 DEF IconInv, LinkTypes
  <2> QED BY <1>1, <2>1, <2>2, StillTold
<1>3. CASE pool = None
  <2>1. PICK r \in Runtimes :
          /\ pool' \in {r, None} /\ sess' = r /\ mirror' = NotifyConnecting
          /\ calls' = q \/ calls' = Posted(q, "tearDown", None)
          /\ Broadcast /\ UNCHANGED colored
    BY <1>3 DEF EnsureConnectedWithCreds, Become
  <2>2. calls' \in Seq(Posts)
    BY <2>1, PostTyped DEF Kinds
  <2>3. LinkTypes'
    BY <2>1, <2>2, MirrorsTyped DEF IconInv, LinkTypes
  <2>4. QueueKeeps(calls, calls')
    BY <2>1, QueueGrows, QueueSteps
  <2>5. colored' => Greying(calls')
    BY <1>3, <2>1, <2>4, ColourOwed DEF PoolOpen, QueueKeeps
  <2> QED BY <2>1, <2>3, <2>5, MirrorsTyped, BroadcastTold, ShutTold
<1> QED BY <1>1, <1>2, <1>3

\* The answered call is gone from the queue.
LEMMA RestKeeps ==
  ASSUME IconInv, NEW k, Answered(k)
  PROVE  /\ Rest \in Seq(Posts) /\ Head(calls) \in Posts /\ Head(calls).kind = k
         /\ k \notin {"tearDown", "fail"} => QueueKeeps(calls, Rest)
         /\ k = "fail" => ~NoFail(calls) /\ ~Doomed(calls)
<1>1. calls \in Seq(Posts) /\ calls # <<>> /\ Head(calls).kind = k
  BY DEF Answered, IconInv, LinkTypes
<1>2. Tail(calls) \in Seq(Posts) /\ Head(calls) \in Posts
  BY <1>1
<1> QED BY <1>1, <1>2, QueueServed DEF Rest

\* A call whose answer changes nothing but the slot and the queue.
LEMMA IconKeptByAnswer ==
  ASSUME LinkInv, IconInv, calls' \in Seq(Posts), QueueKeeps(calls, calls'),
         slot' \in Creds \cup {None}, probe' \in Creds \cup {None},
         UNCHANGED <<rt, pool, sess, mirror, colored, shown>>
  PROVE  IconInv'
<1>1. LinkTypes'
  BY DEF IconInv, LinkTypes
<1> QED BY <1>1, StillTold DEF LinkInv

LEMMA IconKeptByClear ==
  ASSUME LinkInv, IconInv, TearDownTab \/ FailCleared \/ ClearCreds
  PROVE  IconInv'
<1>1. CASE TearDownTab
  <2>1. sess' = None /\ mirror' = Absent /\ ~colored'
    BY <1>1 DEF TearDownTab, Become
  <2>2. Rest \in Seq(Posts)
    BY <1>1, RestKeeps DEF TearDownTab
  <2>3. LinkTypes'
    BY <1>1, <2>1, <2>2, MirrorsTyped DEF TearDownTab, IconInv, LinkTypes
  <2> QED BY <1>1, <2>1, <2>3, MirrorsTyped, BroadcastTold, ShutTold DEF TearDownTab
<1>2. CASE FailCleared
  <2>1. sess' = None /\ mirror' = mirror /\ ~colored' /\ shown' = shown
    BY <1>2 DEF FailCleared, Become
  <2>2. Rest \in Seq(Posts) /\ ~NoFail(calls) /\ ~Doomed(calls)
    BY <1>2, RestKeeps DEF FailCleared
  <2>3. LinkTypes'
    BY <1>2, <2>1, <2>2 DEF FailCleared, IconInv, LinkTypes
  <2>4. mirror.sock # "open"
    BY <2>2 DEF IconInv, ToldNow, Told
  <2>5. Status(mirror, sess, rt) = Status(mirror, None, rt')
    BY <2>4, StatusReads
  <2> QED BY <2>1, <2>3, <2>4, <2>5, ShutTold DEF IconInv, ToldNow, Told
<1>3. CASE ClearCreds
  BY <1>3, RestKeeps, IconKeptByAnswer DEF ClearCreds, IconInv, LinkTypes
<1> QED BY <1>1, <1>2, <1>3

LEMMA IconKeptByStorage ==
  ASSUME LinkInv, IconInv, Storage \/ TabProbed
  PROVE  IconInv'
<1>1. slot \in Creds \cup {None} /\ probe \in Creds \cup {None} /\ calls \in Seq(Posts)
  BY DEF IconInv, LinkTypes
<1>2. CASE LoadCreds
  <2>1. /\ Answered("load") /\ slot' = slot /\ probe' = probe
        /\ \/ calls' = Rest /\ UNCHANGED <<rt, pool, sess, mirror, colored, shown>>
           \/ EnsureConnectedWithCreds(slot, Rest)
    BY <1>2 DEF LoadCreds
  <2>2. Rest \in Seq(Posts) /\ QueueKeeps(calls, Rest)
    BY <2>1, RestKeeps
  <2> QED BY <1>1, <2>1, <2>2, IconKeptByConnect, IconKeptByAnswer
<1>3. CASE SaveCreds
  <2>1. /\ Answered("save") /\ slot' = Head(calls).arg /\ probe' = probe
        /\ EnsureConnectedWithCreds(Head(calls).arg, Rest)
    BY <1>3 DEF SaveCreds
  <2>2. Rest \in Seq(Posts) /\ QueueKeeps(calls, Rest) /\ Head(calls).arg \in Creds
    BY <2>1, RestKeeps DEF Posts
  <2> QED BY <1>1, <2>1, <2>2, IconKeptByConnect
<1>4. CASE ReadForClientId
  <2>1. Answered("readId") /\ slot' = slot /\ probe' = probe
    BY <1>4 DEF ReadForClientId
  <2>2. Rest \in Seq(Posts) /\ QueueKeeps(calls, Rest) /\ Head(calls).arg \in Ids
    BY <2>1, RestKeeps DEF Posts
  <2>3. slot # None => [slot EXCEPT !.id = Head(calls).arg] \in Creds
    BY <1>1, <2>2 DEF Creds
  <2>4. calls' \in {Rest, Posted(Rest, "writeId", [slot EXCEPT !.id = Head(calls).arg])}
        /\ (slot = None => calls' = Rest)
    BY <1>4 DEF ReadForClientId
  <2>5. calls' \in Seq(Posts) /\ QueueKeeps(calls, calls')
    BY <2>2, <2>3, <2>4, PostTyped, QueueGrows, QueueSteps
  <2> QED BY <1>1, <1>4, <2>5, IconKeptByAnswer DEF ReadForClientId
<1>5. CASE WriteClientId
  <2>1. Answered("writeId") /\ slot' = Head(calls).arg /\ calls' = Rest /\ probe' = probe
    BY <1>5 DEF WriteClientId
  <2>2. Rest \in Seq(Posts) /\ QueueKeeps(calls, Rest) /\ Head(calls).arg \in Creds
    BY <2>1, RestKeeps DEF Posts
  <2> QED BY <1>1, <1>5, <2>1, <2>2, IconKeptByAnswer DEF WriteClientId
<1>6. CASE WipeIfFresh
  <2>1. PICK k \in {"sentinel", "scan", "wipe", "mark"}, x \in {"all", "scan", "mark", "wipe"} :
          Answered(k) /\ calls' = Posted(Rest, x, None) /\ slot' \in {slot, None}
    BY <1>6 DEF WipeIfFresh
  <2>2. Rest \in Seq(Posts) /\ QueueKeeps(calls, Rest)
    BY <2>1, RestKeeps
  <2>3. calls' \in Seq(Posts) /\ QueueKeeps(calls, calls')
    BY <2>1, <2>2, PostTyped, QueueGrows, QueueSteps DEF Kinds
  <2> QED BY <1>1, <1>6, <2>1, <2>3, IconKeptByAnswer DEF WipeIfFresh
<1>7. CASE LoadAllCreds
  BY <1>1, <1>7, RestKeeps, IconKeptByAnswer DEF LoadAllCreds
<1>8. CASE TabProbed
  <2>1. slot' = slot /\ probe' = None
    BY <1>8 DEF TabProbed
  <2>2. CASE tabOpen
    BY <1>1, <1>8, <2>1, <2>2, QueueSteps, IconKeptByConnect DEF TabProbed
  <2>3. CASE ~tabOpen
    <3>1. calls' = Posted(calls, "forget", None) /\ UNCHANGED <<rt, pool, sess, mirror, colored, shown>>
      BY <1>8, <2>3 DEF TabProbed, Post
    <3>2. calls' \in Seq(Posts) /\ QueueKeeps(calls, calls')
      BY <1>1, <3>1, PostTyped, QueueGrows DEF Kinds
    <3> QED BY <1>1, <2>1, <3>1, <3>2, IconKeptByAnswer
  <2> QED BY <2>2, <2>3
<1> QED BY <1>2, <1>3, <1>4, <1>5, <1>6, <1>7, <1>8, IconKeptByClear DEF Storage

\* A handshake completes under a queue without clears, for the pooled runtime.
LEMMA IconKeptByOnOpen ==
  ASSUME LinkInv, IconInv, NEW r \in Runtimes, OnOpen(r)
  PROVE  IconInv'
<1> DEFINE v == [rt[r] EXCEPT !.sock = "open", !.attempt = 0, !.ticking = TRUE]
           o == IF v.first THEN SendJoin(v)
                ELSE MaybeFlushJoin([v EXCEPT !.deadline = TRUE])
<1>1. /\ rt[r].sock = "connecting" /\ ~Clearing
      /\ Become([rt EXCEPT ![r] = o], pool, sess, NotifyOpen(mirror))
      /\ Broadcast /\ Recolor /\ UNCHANGED <<slot, calls, probe>>
  BY DEF OnOpen
<1>2. RuntimeOK(rt[r]) /\ rt = [q \in Runtimes |-> rt[q]] /\ r = pool
  BY <1>1 DEF LinkInv, RuntimeOK, TimersFit
<1>3. v.sock = "open"
  BY <1>2 DEF RuntimeOK, Shape
<1>4. o.sock = "open"
  BY <1>3 DEF MaybeFlushJoin, FlushJoin, SendJoin
<1> HIDE DEF o
<1>5. pool' = pool /\ sess' = sess /\ mirror' = NotifyOpen(mirror)
  BY <1>1 DEF Become
<1>6. rt'[pool] = o /\ pool # None
  BY <1>1, <1>2, CollectKeeps, LinkAssumption
<1>7. PoolOpen(rt', pool') /\ NoFail(calls')
  BY <1>1, <1>4, <1>5, <1>6 DEF PoolOpen, Clearing, NoFail
<1>8. LinkTypes'
  BY <1>1, <1>5, MirrorsTyped DEF IconInv, LinkTypes
<1>9. colored' => rt'[pool'].cid # None
  <2> DEFINE st == Status(mirror', sess', rt')
  <2>1. st = "joined" => sess' # None /\ rt'[sess'].cid # None
    BY StatusReads
  <2>2. colored' <=> st = "joined"
    BY <1>1 DEF Recolor
  <2>3. sess \in {pool, None}
    BY <1>6 DEF IconInv, ToldNow, Told
  <2> QED BY <1>5, <2>1, <2>2, <2>3
<1>10. sess' \in {pool', None}
  BY <1>5, <1>6 DEF IconInv, ToldNow, Told
<1> QED BY <1>1, <1>7, <1>8, <1>9, <1>10, BroadcastTold DEF IconInv, ToldNow, Told

\* The room answers the pooled runtime, which then has an id.
LEMMA IconKeptByRoomState ==
  ASSUME LinkInv, IconInv, NEW r \in Runtimes, NEW id \in Ids, RoomState(r, id)
  PROVE  IconInv'
<1>1. /\ rt[r].sock = "open" /\ ~rt[r].terminated
      /\ rt' = [rt EXCEPT ![r].cid = id, ![r].welcomed = TRUE]
      /\ UNCHANGED <<slot, probe, pool, sess, mirror>> /\ Broadcast
      /\ calls' = calls \/ calls' = Posted(calls, "readId", id)
  BY DEF RoomState, Post
<1>2. RuntimeOK(rt[r]) /\ rt = [q \in Runtimes |-> rt[q]] /\ r = pool
  BY <1>1 DEF LinkInv
<1>3. rt'[r].sock = "open" /\ rt'[r].cid = id /\ id # None /\ pool # None
  BY <1>1, <1>2, LinkAssumption DEF RuntimeOK, Shape
<1>4. calls \in Seq(Posts)
  BY DEF IconInv, LinkTypes
<1>5. calls' \in Seq(Posts) /\ QueueKeeps(calls, calls')
  BY <1>1, <1>4, PostTyped, QueueGrows, QueueSteps
<1>6. LinkTypes'
  BY <1>1, <1>5 DEF IconInv, LinkTypes
<1>7. PoolOpen(rt', pool') /\ rt'[pool'].cid # None
  BY <1>1, <1>2, <1>3 DEF PoolOpen
<1> QED BY <1>1, <1>5, <1>6, <1>7, BroadcastTold DEF IconInv, ToldNow, Told, QueueKeeps

\* A terminal ERROR says nothing to the popup or the icon: the clear it posts
\* will.
LEMMA IconKeptByTerminalError ==
  ASSUME LinkInv, IconInv, NEW r \in Runtimes, TerminalError(r)
  PROVE  IconInv'
<1> DEFINE objs == [rt EXCEPT ![r] = Terminate(@)]
<1>1. /\ calls' = Posted(calls, "tearDown", None) /\ calls \in Seq(Posts)
      /\ Become(objs, None, sess, mirror)
      /\ UNCHANGED <<slot, probe, colored, shown>>
  BY DEF TerminalError, Post, IconInv, LinkTypes
<1>2. pool' = None /\ sess' = sess /\ mirror' = mirror
  BY <1>1 DEF Become
<1>3. calls' \in Seq(Posts) /\ Greying(calls')
  BY <1>1, PostTyped, QueueGrows DEF Kinds
<1>4. NoFail(calls) \/ Doomed(calls) => Doomed(calls')
  BY <1>1, QueueGrows
<1>5. LinkTypes'
  BY <1>1, <1>2, <1>3 DEF IconInv, LinkTypes
<1>6. \A q \in Runtimes : objs[q].cid = rt[q].cid
  BY DEF LinkInv, RuntimeOK, Shape, Terminate
<1> HIDE DEF objs
<1>7. sess # None => rt'[sess].cid = rt[sess].cid
  BY <1>1, <1>6, CollectKeeps DEF IconInv, LinkTypes
<1>8. Status(mirror, sess, rt') = Status(mirror, sess, rt)
  BY <1>7, StatusReads
<1> QED BY <1>1, <1>2, <1>3, <1>4, <1>5, <1>8 DEF IconInv, ToldNow, Told

\* Any close closes the mirror, the late one of a replaced runtime too.
LEMMA IconKeptByOnClose ==
  ASSUME LinkInv, IconInv, NEW r \in Runtimes, OnClose(r)
  PROVE  IconInv'
<1> DEFINE m == NotifyDisconnected(mirror)
<1>1. /\ calls' = calls \/ calls' = Posted(calls, "tearDown", None)
      /\ pool' \in {pool, None} /\ sess' = sess /\ mirror' = m
      /\ Broadcast /\ Recolor /\ UNCHANGED <<slot, probe>>
  BY DEF OnClose, ScheduleReconnect, Become, Post
<1>2. calls \in Seq(Posts)
  BY DEF IconInv, LinkTypes
<1>3. calls' \in Seq(Posts)
  BY <1>1, <1>2, PostTyped DEF Kinds
<1>4. LinkTypes' /\ mirror'.sock # "open"
  BY <1>1, <1>3, MirrorsTyped DEF IconInv, LinkTypes
<1>5. ~colored'
  BY <1>1, <1>4, RecolorShut
<1>6. pool' # None => sess' \in {pool', None}
  BY <1>1 DEF IconInv, ToldNow, Told
<1> QED BY <1>1, <1>4, <1>5, <1>6, BroadcastTold, ShutTold

LEMMA IconKeptByRetry ==
  ASSUME LinkInv, IconInv, NEW r \in Runtimes, Retry(r)
  PROVE  IconInv'
<1> DEFINE w == [rt[r] EXCEPT !.retry = FALSE]
           objs == [rt EXCEPT ![r] = w]
<1>1. /\ pool \in Runtimes \cup {None} /\ rt = [q \in Runtimes |-> rt[q]]
      /\ \A q \in Runtimes : RuntimeOK(rt[q]) /\ (~rt[q].terminated <=> q = pool)
  BY DEF LinkInv
<1>2. UNCHANGED <<slot, calls, probe, colored>>
  BY DEF Retry
<1>3. CASE w.terminated
  <2>1. Become(objs, pool, sess, mirror) /\ UNCHANGED shown
    BY <1>3 DEF Retry
  <2>2. \A q \in Runtimes : objs[q].sock = rt[q].sock /\ objs[q].cid = rt[q].cid
    BY <1>1 DEF RuntimeOK, Shape
  <2> HIDE DEF objs
  <2>3. UNCHANGED <<pool, sess, mirror>>
    BY <2>1 DEF Become
  <2>4. LinkTypes' /\ QueueKeeps(calls, calls')
    BY <1>2, <2>3, QueueSteps DEF IconInv, LinkTypes
  <2>5. \A q \in Runtimes : q \in {pool, sess} => rt'[q] = objs[q]
    BY <2>1, CollectKeeps
  <2> QED BY <1>1, <1>2, <2>1, <2>2, <2>3, <2>4, <2>5, StillTold
<1>4. CASE ~w.terminated
  <2>1. /\ pool' = pool /\ sess' = sess /\ mirror' = NotifyConnecting
        /\ Broadcast
    BY <1>4 DEF Retry, Become
  <2>2. r = pool /\ rt[r].sock = "none"
    BY <1>1, <1>4 DEF Retry, RuntimeOK, Shape, TimersFit
  <2>3. LinkTypes'
    BY <1>2, <2>1, MirrorsTyped DEF IconInv, LinkTypes
  <2>4. colored' => Greying(calls')
    BY <1>2, <2>2, ColourOwed DEF PoolOpen
  <2>5. pool' # None => sess' \in {pool', None}
    BY <2>1 DEF IconInv, ToldNow, Told
  <2> QED BY <2>1, <2>3, <2>4, <2>5, MirrorsTyped, BroadcastTold, ShutTold
<1> QED BY <1>3, <1>4

LEMMA IconKeptByDeadline ==
  ASSUME LinkInv, IconInv, NEW r \in Runtimes, JoinDeadline(r)
  PROVE  IconInv'
<1>1. /\ rt' = [rt EXCEPT ![r] = FlushJoin(@)]
      /\ UNCHANGED <<slot, calls, probe, pool, sess, mirror, colored, shown>>
  BY DEF JoinDeadline
<1>2. FlushJoin(rt[r]).sock = rt[r].sock /\ FlushJoin(rt[r]).cid = rt[r].cid
  BY DEF FlushJoin, SendJoin
<1>3. \A q \in Runtimes : rt'[q].sock = rt[q].sock /\ rt'[q].cid = rt[q].cid
  BY <1>1, <1>2 DEF LinkInv
<1>4. LinkTypes' /\ QueueKeeps(calls, calls')
  BY <1>1, QueueSteps DEF IconInv, LinkTypes
<1> QED BY <1>1, <1>3, <1>4, StillTold DEF LinkInv

LEMMA IconKeptByReboot ==
  ASSUME LinkInv, IconInv, WorkerStops \/ BrowserRestarts
  PROVE  IconInv'
<1>1. Call("sentinel", None) \in Posts
  BY DEF Call, Posts, Kinds
<1>2. /\ calls' = <<Call("sentinel", None)>> /\ probe' = None /\ slot' = slot
      /\ pool' = None /\ sess' = None /\ mirror' = Absent
      /\ ~colored' /\ shown' = None
  BY DEF WorkerStops, BrowserRestarts, Reboot
<1>3. LinkTypes'
  BY <1>1, <1>2, MirrorsTyped DEF IconInv, LinkTypes
<1> QED BY <1>2, <1>3, MirrorsTyped, ShutTold

LEMMA IconStep == LinkInv /\ IconInv /\ [Next]_vars => IconInv'
<1> SUFFICES ASSUME LinkInv, IconInv, [Next]_vars PROVE IconInv'
  OBVIOUS
<1>1. CASE UNCHANGED vars
  BY <1>1 DEF vars, IconInv, LinkTypes, ToldNow, Told
<1>2. CASE \E r \in Runtimes :
            \/ Resolve(r) \/ JoinDeadline(r) \/ TerminalError(r) \/ Retry(r)
            \/ \E id \in Ids : RoomState(r, id)
  BY <1>2, IconKeptByOnOpen, IconKeptByOnClose, IconKeptByDeadline,
     IconKeptByTerminalError, IconKeptByRetry, IconKeptByRoomState DEF Resolve
<1>3. CASE WorkerStops \/ BrowserRestarts
  BY <1>3, IconKeptByReboot
<1>4. CASE Storage \/ TabProbed
  BY <1>4, IconKeptByStorage
<1> QED BY <1>1, <1>2, <1>3, <1>4, IconKeptByMessages DEF Next

LEMMA IconAlways == Spec => []IconInv
BY LinkInit, LinkStep, IconInit, IconStep, PTL DEF Spec

\* The icon is in colour only over a joined room, or over a clear that is
\* already queued and will grey it (icon.ts, onLifecycleChange).
THEOREM ColourIsEarned == Spec => []ColoredMeansJoined
BY IconAlways, IconInvImplies, PTL

\* What the open popup displays is the status as it is now, though `fail' drops
\* the session without a broadcast (popupBroadcast.ts, broadcastForTab).
THEOREM PopupIsCurrent == Spec => []PopupCurrent
BY IconAlways, IconInvImplies, PTL

-----------------------------------------------------------------------------
(* Types.                                                                  *)

\* What a runtime was made with, was assigned and has tried.
Known(w) ==
  /\ w.creds \in Creds \cup {None} /\ w.cid \in Ids \cup {None}
  /\ w.attempt \in 0 .. BackoffSteps + 1

Statuses == {"no_credentials", "connecting", "joined", "disconnected"}

TabInv ==
  /\ \A r \in Runtimes : Known(rt[r])
  /\ booted \in BOOLEAN /\ tabOpen \in BOOLEAN /\ colored \in BOOLEAN
  /\ shown \in Statuses \cup {None}

LEMMA StatusIs == \A m, s, objs : Status(m, s, objs) \in Statuses
BY DEF Status, Statuses

LEMMA MadeKnown ==
  ASSUME NEW c \in Creds
  PROVE  /\ Known(Gone) /\ Known(OpenSocket(Fresh(c))) /\ Known(Terminate(Fresh(c)))
BY LinkAssumption DEF Known, Gone, OpenSocket, Fresh, Terminate

LEMMA GoneKnown == Known(Gone)
BY LinkAssumption DEF Known, Gone

\* The transforms change none of it.
SameOrigin(w, v) == v.creds = w.creds /\ v.cid = w.cid /\ v.attempt = w.attempt

LEMMA SendKeepsOrigin ==
  ASSUME NEW w, Shape(w)
  PROVE  /\ SameOrigin(w, SendJoin(w)) /\ SameOrigin(w, FlushJoin(w))
         /\ SameOrigin(w, MaybeFlushJoin(w))
<1> DEFINE j == IF w.joins = 2 THEN 2 ELSE w.joins + 1
           u == [w EXCEPT !.joins = j]
           v == [u EXCEPT !.deadline = FALSE, !.first = TRUE,
                          !.ident = FALSE, !.catalog = FALSE]
<1>1. SendJoin(w) = u /\ SameOrigin(w, u)
  <2> HIDE DEF j
  <2> QED BY DEF SendJoin, Shape, SameOrigin, j
<1>2. SameOrigin(w, v)
  <2> HIDE DEF j
  <2> QED BY DEF Shape, SameOrigin
<1>3. FlushJoin(w) \in {w, v}
  BY <1>1 DEF FlushJoin
<1> HIDE DEF u, v
<1>4. SameOrigin(w, FlushJoin(w))
  BY <1>2, <1>3 DEF SameOrigin
<1>5. SameOrigin(w, MaybeFlushJoin(w))
  BY <1>4 DEF MaybeFlushJoin, SameOrigin
<1> QED BY <1>1, <1>4, <1>5

LEMMA PutKnown ==
  ASSUME LinkInv, TabInv, NEW r, NEW w, r \in Runtimes => Known(w)
  PROVE  \A q \in Runtimes : Known([rt EXCEPT ![r] = w][q])
BY DEF LinkInv, TabInv

LEMMA BecomeKnown ==
  ASSUME NEW objs, NEW p, NEW s, NEW m, Become(objs, p, s, m),
         \A q \in Runtimes : Known(objs[q])
  PROVE  \A q \in Runtimes : Known(rt'[q])
BY GoneKnown DEF Become, Collect

LEMMA DialKnown ==
  ASSUME LinkInv, TabInv, NEW c \in Creds, NEW q, EnsureConnectedWithCreds(c, q)
  PROVE  /\ \A r \in Runtimes : Known(rt'[r])
         /\ colored' \in BOOLEAN /\ shown' \in Statuses \cup {None}
<1>1. CASE pool # None
  BY <1>1 DEF EnsureConnectedWithCreds, TabInv
<1>2. CASE pool = None
  <2>1. PICK r \in Runtimes, w \in {OpenSocket(Fresh(c)), Terminate(Fresh(c))} :
          \E p : Become([rt EXCEPT ![r] = w], p, r, NotifyConnecting)
    BY <1>2 DEF EnsureConnectedWithCreds
  <2>2. colored' = colored /\ Broadcast
    BY <1>2 DEF EnsureConnectedWithCreds
  <2>3. Known(w)
    BY MadeKnown
  <2>4. \A q1 \in Runtimes : Known([rt EXCEPT ![r] = w][q1])
    BY <2>3, PutKnown
  <2> QED BY <2>1, <2>2, <2>4, BecomeKnown, StatusIs DEF Broadcast, TabInv
<1> QED BY <1>1, <1>2

LEMMA CutKnown ==
  ASSUME LinkInv, TabInv, NEW s, NEW m, Disconnect(s, m)
  PROVE  \A r \in Runtimes : Known(rt'[r])
<1>1. CASE pool = None
  BY <1>1, BecomeKnown DEF Disconnect, TabInv
<1>2. CASE pool # None
  <2> DEFINE w == rt[pool]
             v == [Terminate(Closed(w)) EXCEPT !.ticking = FALSE, !.deadline = FALSE]
  <2>1. pool \in Runtimes
    BY <1>2 DEF LinkInv
  <2>2. SameOrigin(w, v)
    BY <2>1 DEF LinkInv, RuntimeOK, Shape, Closed, Terminate, SameOrigin
  <2>3. Known(v)
    BY <2>1, <2>2 DEF TabInv, Known, SameOrigin
  <2>4. Become([rt EXCEPT ![pool] = v], None, s, m)
    BY <1>2 DEF Disconnect, LinkInv
  <2> HIDE DEF v
  <2>5. \A q \in Runtimes : Known([rt EXCEPT ![pool] = v][q])
    BY <2>3, PutKnown
  <2> QED BY <2>4, <2>5, BecomeKnown
<1> QED BY <1>1, <1>2

LEMMA TabKeptByMessages ==
  ASSUME LinkInv, TabInv,
         \/ \E room \in Rooms : Credentials(room)
         \/ EnsureConnected \/ ReportIdentity \/ ReportCatalog
         \/ LeaveRoom \/ Fail \/ OnRemoved \/ Subscribe \/ ClosePopup
  PROVE  TabInv'
<1>1. CASE (\E room \in Rooms : Credentials(room)) \/ EnsureConnected
  BY <1>1 DEF Credentials, EnsureConnected, TabInv
<1>2. CASE ReportIdentity \/ ReportCatalog
  <2>1. pool \in Runtimes
    BY <1>2 DEF ReportIdentity, ReportCatalog, LinkInv
  <2> DEFINE w == rt[pool]
  <2>2. PICK u \in {[w EXCEPT !.ident = TRUE], [w EXCEPT !.catalog = TRUE]} :
          rt' = [rt EXCEPT ![pool] = MaybeFlushJoin(u)]
    BY <1>2 DEF ReportIdentity, ReportCatalog, LinkInv
  <2>3. Shape(u) /\ SameOrigin(w, u)
    BY <2>1 DEF LinkInv, RuntimeOK, Shape, SameOrigin
  <2>4. Known(MaybeFlushJoin(u))
    BY <2>1, <2>3, SendKeepsOrigin DEF TabInv, Known, SameOrigin
  <2>5. \A q \in Runtimes : Known(rt'[q])
    BY <2>2, <2>4, PutKnown
  <2> QED BY <1>2, <2>5 DEF ReportIdentity, ReportCatalog, TabInv
<1>3. CASE LeaveRoom \/ Fail
  <2>1. \A q \in Runtimes : Known(rt'[q])
    BY <1>3, CutKnown DEF LeaveRoom, Fail
  <2>2. colored' \in BOOLEAN /\ shown' \in Statuses \cup {None}
    BY <1>3, StatusIs DEF LeaveRoom, Fail, Broadcast, Recolor, TabInv
  <2> QED BY <1>3, <2>1, <2>2 DEF LeaveRoom, Fail, TabInv
<1>4. CASE OnRemoved
  <2>1. \A q \in Runtimes : Known(rt'[q])
    BY <1>4, CutKnown DEF OnRemoved
  <2> QED BY <1>4, <2>1, StatusIs DEF OnRemoved, Broadcast, TabInv
<1>5. CASE Subscribe \/ ClosePopup
  BY <1>5, StatusIs DEF Subscribe, ClosePopup, TabInv
<1> QED BY <1>1, <1>2, <1>3, <1>4, <1>5

LEMMA TabKeptByStorage ==
  ASSUME LinkInv, LinkTypes, TabInv, Storage \/ TabProbed
  PROVE  TabInv'
<1>1. CASE LoadCreds
  <2>1. CASE slot = None
    BY <1>1, <2>1 DEF LoadCreds, TabInv
  <2>2. CASE slot # None
    <3>1. slot \in Creds /\ EnsureConnectedWithCreds(slot, Rest)
      BY <1>1, <2>2 DEF LoadCreds, LinkTypes
    <3> QED BY <1>1, <3>1, DialKnown DEF LoadCreds, TabInv
  <2> QED BY <2>1, <2>2
<1>2. CASE SaveCreds
  <2>1. Head(calls) \in Posts /\ Head(calls).kind = "save"
    BY <1>2 DEF SaveCreds, Answered, LinkTypes
  <2>2. Head(calls).arg \in Creds
    BY <2>1 DEF Posts
  <2>3. EnsureConnectedWithCreds(Head(calls).arg, Rest)
    BY <1>2 DEF SaveCreds
  <2> QED BY <1>2, <2>2, <2>3, DialKnown DEF SaveCreds, TabInv
<1>3. CASE TearDownTab \/ FailCleared
  <2>1. \A q \in Runtimes : Known(rt'[q])
    BY <1>3, BecomeKnown DEF TearDownTab, FailCleared, TabInv
  <2> QED BY <1>3, <2>1, StatusIs DEF TearDownTab, FailCleared, Broadcast, TabInv
<1>4. CASE ClearCreds \/ ReadForClientId \/ WriteClientId \/ WipeIfFresh \/ LoadAllCreds
  BY <1>4 DEF ClearCreds, ReadForClientId, WriteClientId, WipeIfFresh, LoadAllCreds, TabInv
<1>5. CASE TabProbed
  <2>1. CASE tabOpen
    <3>1. probe \in Creds /\ EnsureConnectedWithCreds(probe, calls)
      BY <1>5, <2>1 DEF TabProbed, LinkTypes
    <3> QED BY <1>5, <3>1, DialKnown DEF TabProbed, TabInv
  <2>2. CASE ~tabOpen
    BY <1>5, <2>2 DEF TabProbed, TabInv
  <2> QED BY <2>1, <2>2
<1> QED BY <1>1, <1>2, <1>3, <1>4, <1>5 DEF Storage

\* A back-off timer is armed only while attempts are left, so the count stays
\* within the back-off's steps and one.
LEMMA TabKeptBySockets ==
  ASSUME LinkInv, TabInv, NEW r \in Runtimes,
         \/ Resolve(r) \/ JoinDeadline(r) \/ TerminalError(r) \/ Retry(r)
         \/ \E id \in Ids : RoomState(r, id)
  PROVE  TabInv'
<1> DEFINE w == rt[r]
<1>1. Shape(w) /\ Known(w)
  BY DEF LinkInv, RuntimeOK, TabInv
<1>2. BackoffSteps \in Nat /\ w.attempt \in 0 .. BackoffSteps + 1
  BY <1>1, LinkAssumption DEF Known
<1>3. CASE OnOpen(r)
  <2> DEFINE u == [w EXCEPT !.sock = "open", !.attempt = 0, !.ticking = TRUE]
             d == [u EXCEPT !.deadline = TRUE]
  <2>1. Shape(u) /\ Known(u)
    <3>1. u.attempt = 0 /\ 0 \in 0 .. BackoffSteps + 1
      BY <1>1, <1>2 DEF Shape
    <3>2. Shape(u) /\ u.creds = w.creds /\ u.cid = w.cid
      BY <1>1 DEF Shape
    <3> HIDE DEF u
    <3> QED BY <1>1, <3>1, <3>2 DEF Known
  <2>2. Shape(d) /\ Known(d)
    <3>1. Shape(d) /\ SameOrigin(u, d)
      <4> HIDE DEF u
      <4> QED BY <2>1 DEF Shape, SameOrigin
    <3> QED BY <2>1, <3>1 DEF Known, SameOrigin
  <2>3. PICK v \in {SendJoin(u), MaybeFlushJoin(d)} :
          Become([rt EXCEPT ![r] = v], pool, sess, NotifyOpen(mirror))
    BY <1>3 DEF OnOpen
  <2> HIDE DEF u, d
  <2>4. Known(v)
    BY <2>1, <2>2, <2>3, SendKeepsOrigin DEF Known, SameOrigin
  <2>5. \A q \in Runtimes : Known([rt EXCEPT ![r] = v][q])
    BY <2>4, PutKnown
  <2>6. \A q \in Runtimes : Known(rt'[q])
    BY <2>3, <2>5, BecomeKnown
  <2> QED BY <1>3, <2>6, StatusIs DEF OnOpen, Broadcast, Recolor, TabInv
<1>4. CASE OnClose(r)
  <2> DEFINE u == [w EXCEPT !.sock = "none", !.ticking = FALSE, !.deadline = FALSE]
             b == [u EXCEPT !.attempt = @ + 1, !.retry = TRUE]
             m == NotifyDisconnected(mirror)
  <2>1. Known(u) /\ Known(Terminate(u)) /\ u.attempt = w.attempt
    BY <1>1 DEF Shape, Known, Terminate
  <2>2. ~Exhausted(u) => Known(b)
    BY <1>1, <1>2, <2>1 DEF Shape, Known, Exhausted
  <2>3. PICK v : /\ v \in {u, Terminate(u)} \/ (v = b /\ ~Exhausted(u))
                 /\ \E p : Become([rt EXCEPT ![r] = v], p, sess, m)
    BY <1>4 DEF OnClose, ScheduleReconnect
  <2> HIDE DEF u, b, m
  <2>4. Known(v)
    BY <2>1, <2>2, <2>3
  <2>5. \A q \in Runtimes : Known([rt EXCEPT ![r] = v][q])
    BY <2>4, PutKnown
  <2>6. \A q \in Runtimes : Known(rt'[q])
    BY <2>3, <2>5, BecomeKnown
  <2> QED BY <1>4, <2>6, StatusIs DEF OnClose, Broadcast, Recolor, TabInv
<1>5. CASE JoinDeadline(r)
  <2>1. Known(FlushJoin(w))
    BY <1>1, SendKeepsOrigin DEF Known, SameOrigin
  <2>2. rt' = [rt EXCEPT ![r] = FlushJoin(w)]
    BY <1>5 DEF JoinDeadline, LinkInv
  <2>3. \A q \in Runtimes : Known(rt'[q])
    BY <2>1, <2>2, PutKnown
  <2> QED BY <1>5, <2>3 DEF JoinDeadline, TabInv
<1>6. CASE TerminalError(r)
  <2>1. Known(Terminate(w))
    BY <1>1 DEF Shape, Known, Terminate
  <2>2. Become([rt EXCEPT ![r] = Terminate(w)], None, sess, mirror)
    BY <1>6 DEF TerminalError, LinkInv
  <2>3. \A q \in Runtimes : Known([rt EXCEPT ![r] = Terminate(w)][q])
    BY <2>1, PutKnown
  <2>4. \A q \in Runtimes : Known(rt'[q])
    BY <2>2, <2>3, BecomeKnown
  <2> QED BY <1>6, <2>4 DEF TerminalError, TabInv
<1>7. CASE Retry(r)
  <2> DEFINE u == [w EXCEPT !.retry = FALSE]
  <2>1. Known(u) /\ Known(OpenSocket(u))
    BY <1>1 DEF Shape, Known, OpenSocket
  <2>2. PICK v \in {u, OpenSocket(u)} :
          \E m : Become([rt EXCEPT ![r] = v], pool, sess, m)
    BY <1>7 DEF Retry, LinkInv
  <2> HIDE DEF u
  <2>3. \A q \in Runtimes : Known([rt EXCEPT ![r] = v][q])
    BY <2>1, <2>2, PutKnown
  <2>4. \A q \in Runtimes : Known(rt'[q])
    BY <2>2, <2>3, BecomeKnown
  <2> QED BY <1>7, <2>4, StatusIs DEF Retry, Broadcast, TabInv
<1>8. ASSUME NEW id \in Ids, RoomState(r, id) PROVE TabInv'
  <2> DEFINE v == [w EXCEPT !.cid = id, !.welcomed = TRUE]
  <2>1. Known(v)
    BY <1>1 DEF Shape, Known
  <2>2. rt' = [rt EXCEPT ![r] = v]
    BY <1>8 DEF RoomState, LinkInv
  <2> HIDE DEF v
  <2>3. \A q \in Runtimes : Known(rt'[q])
    BY <2>1, <2>2, PutKnown
  <2> QED BY <1>8, <2>3, StatusIs DEF RoomState, Broadcast, Recolor, TabInv
<1> QED BY <1>3, <1>4, <1>5, <1>6, <1>7, <1>8 DEF Resolve

LEMMA TabStep == LinkInv /\ LinkTypes /\ TabInv /\ [Next]_vars => TabInv'
<1> SUFFICES ASSUME LinkInv, LinkTypes, TabInv, [Next]_vars PROVE TabInv'
  OBVIOUS
<1>1. CASE UNCHANGED vars
  BY <1>1 DEF vars, TabInv
<1>2. CASE WorkerStops \/ BrowserRestarts
  BY <1>2, GoneKnown DEF WorkerStops, BrowserRestarts, Reboot, TabInv
<1> QED BY <1>1, <1>2, TabKeptByMessages, TabKeptByStorage, TabKeptBySockets DEF Next

\* The link's state keeps its types: no storage call carries what its answer
\* cannot use, and no runtime is tried beyond the back-off's steps (ws.ts,
\* scheduleReconnect).
THEOREM LinkTypesHold == Spec => []TypeOK
<1>1. Init => TabInv
  BY GoneKnown DEF Init, TabInv
<1>2. LinkInv /\ IconInv /\ TabInv => TypeOK
  <2> SUFFICES ASSUME LinkInv, IconInv, TabInv PROVE TypeOK
    OBVIOUS
  <2>1. ASSUME NEW r \in Runtimes PROVE rt[r] \in WsRuntime
    BY DEF LinkInv, RuntimeOK, Shape, TabInv, Known, WsRuntime
  <2>2. calls \in Seq([kind : Kinds, arg : Creds \cup Ids \cup {None}])
    <3>1. Posts \subseteq [kind : Kinds, arg : Creds \cup Ids \cup {None}]
      BY DEF Posts, Kinds
    <3>2. calls \in Seq(Posts)
      BY DEF IconInv, LinkTypes
    <3> QED BY <3>1, <3>2, SeqMonotonic
  <2> QED BY <2>1, <2>2 DEF TypeOK, LinkInv, IconInv, LinkTypes, TabInv, Statuses
<1>3. LinkInv /\ IconInv /\ TabInv /\ [Next]_vars => TabInv'
  BY TabStep DEF IconInv
<1> QED BY <1>1, <1>2, <1>3, LinkInit, LinkStep, IconInit, IconStep, PTL DEF Spec

=============================================================================
