------------------------------ MODULE TabLink ------------------------------
(***************************************************************************)
(* The extension's link between one browser tab and the room daemon: the   *)
(* credentials slot in storage, the pooled WebSocket runtime with its      *)
(* timers, the tab's session, the mirror the popup reads, and the icon.    *)
(*                                                                         *)
(* Every storage call is asynchronous.  `calls' is the queue of calls      *)
(* posted and not yet answered, in the order the browser serves them; an   *)
(* answer takes effect together with the code that awaited it, because     *)
(* nothing else reads the slot in between.                                 *)
(***************************************************************************)
EXTENDS Naturals, Sequences, FiniteSets

CONSTANTS
    Rooms,         \* rooms whose share links the user may follow
    Malformed,     \* those whose sync url `new WebSocket' refuses
    Ids,           \* client ids a daemon may assign
    Runtimes,      \* WsRuntime objects that may exist at once
    None,          \* the absent value
    BackoffSteps,  \* RECONNECT_BACKOFF_MS.length, 6 in the code
    MaxCalls       \* bound: storage calls outstanding

ASSUME LinkAssumption ==
    /\ Malformed \subseteq Rooms
    /\ None \notin Rooms \cup Ids \cup Runtimes
    /\ BackoffSteps \in Nat \ {0}
    /\ MaxCalls \in Nat \ {0}

VARIABLES
    slot,     \* storage.local['pbsync.tab.<id>']: Creds or None
    booted,   \* the sentinel in storage.session
    calls,    \* storage calls awaiting their answer
    probe,    \* credentials bootstrap holds while it awaits tabs.get
    rt,       \* the runtime objects
    pool,     \* the tab's entry in `pool'
    sess,     \* whose session is the tab's entry in `sessions'
    mirror,   \* the tab's TabMirror
    colored,  \* coloredTabs.has(tab)
    shown,    \* status the open popup displays, None when it is closed
    tabOpen   \* the tab exists

vars == <<slot, booted, calls, probe, rt, pool, sess, mirror, colored, shown,
          tabOpen>>

Creds == [room : Rooms, id : Ids \cup {None}]

Kinds == {"load", "save", "tearDown", "fail", "forget", "readId", "writeId",
          "sentinel", "scan", "wipe", "mark", "all"}

Call(k, x) == [kind |-> k, arg |-> x]

WsRuntime ==
    [creds : Creds \cup {None},                  \* r.creds, fixed at creation
     cid : Ids \cup {None},                      \* r.session.clientId
     sock : {"none", "connecting", "open", "closing"},
     attempt : 0 .. BackoffSteps + 1,            \* reconnectAttempt
     terminated : BOOLEAN,
     ticking : BOOLEAN,                          \* heartbeat and clock timers
     deadline : BOOLEAN,                         \* pendingJoinDeadline armed
     first : BOOLEAN,                            \* firstJoinSent
     ident : BOOLEAN, catalog : BOOLEAN,         \* lastIdentity, catalogReported
     retry : BOOLEAN,                            \* back-off timer armed
     joins : 0 .. 2,                             \* JOINs sent on this socket
     welcomed : BOOLEAN]                         \* ROOM_STATE had on this socket

\* An object nothing refers to any more.
Gone ==
    [creds |-> None, cid |-> None, sock |-> "none", attempt |-> 0,
     terminated |-> TRUE, ticking |-> FALSE, deadline |-> FALSE,
     first |-> FALSE, ident |-> FALSE, catalog |-> FALSE, retry |-> FALSE,
     joins |-> 0, welcomed |-> FALSE]

Fresh(c) == [Gone EXCEPT !.creds = c, !.terminated = FALSE]

Absent == [sock |-> "absent", creds |-> FALSE]

Init ==
    /\ slot = None /\ booted = FALSE /\ probe = None
    /\ calls = <<Call("sentinel", None)>>
    /\ rt = [r \in Runtimes |-> Gone]
    /\ pool = None /\ sess = None
    /\ mirror = Absent /\ colored = FALSE /\ shown = None
    /\ tabOpen = TRUE

----------------------------------------------------------------------------
(* The popup mirror and the status derived from it.                        *)

Status(m, s, objs) ==
    CASE ~m.creds -> "no_credentials"
      [] m.creds /\ m.sock = "connecting" -> "connecting"
      [] m.creds /\ m.sock = "open" ->
            IF s # None /\ objs[s].cid # None THEN "joined" ELSE "connecting"
      [] OTHER -> "disconnected"

NotifyConnecting == [sock |-> "connecting", creds |-> TRUE]

NotifyOpen(m) == [m EXCEPT !.sock = "open"]

\* Mutant: the mirror never hears of a close.
NotifyDisconnectedNot(m) == m

NotifyDisconnected(m) ==
    IF m = Absent THEN m ELSE [m EXCEPT !.sock = "disconnected"]

\* broadcastForTab: the open popup redraws from a fresh snapshot.
Broadcast == shown' = IF shown = None THEN None ELSE Status(mirror', sess', rt')

\* onLifecycleChange: the icon is colour exactly while the room is joined.
Recolor == colored' = (Status(mirror', sess', rt') = "joined")

----------------------------------------------------------------------------
(* Runtime transforms.                                                     *)

\* Objects no map, timer or socket refers to are collected.
Collect(objs, p, s) ==
    [r \in Runtimes |->
        IF r \in {p, s} \/ objs[r].sock # "none" \/ objs[r].retry
        THEN objs[r] ELSE Gone]

Become(objs, p, s, m) ==
    /\ rt' = Collect(objs, p, s)
    /\ pool' = p /\ sess' = s /\ mirror' = m

Posted(q, k, x) == Append(q, Call(k, x))

Post(k, x) ==
    /\ Len(calls) < MaxCalls
    /\ calls' = Posted(calls, k, x)

OpenSocket(w) ==
    [w EXCEPT !.sock = "connecting", !.joins = 0, !.welcomed = FALSE]

SendJoin(w) == [w EXCEPT !.joins = IF w.joins = 2 THEN 2 ELSE w.joins + 1]

\* Mutant: the deadline is left armed.
FlushJoinArmed(w) == [SendJoin(w) EXCEPT !.first = TRUE]

\* The reports are of no use after the first JOIN and are forgotten here.
FlushJoin(w) ==
    IF ~w.deadline /\ w.first THEN w
    ELSE [SendJoin(w) EXCEPT !.deadline = FALSE, !.first = TRUE,
                             !.ident = FALSE, !.catalog = FALSE]

MaybeFlushJoin(w) ==
    IF ~w.first /\ w.deadline /\ w.ident /\ w.catalog THEN FlushJoin(w) ELSE w

Closed(w) == IF w.sock = "none" THEN w ELSE [w EXCEPT !.sock = "closing"]

Terminate(w) == [w EXCEPT !.terminated = TRUE]

\* ensureConnectedWithCreds and connect, at the answer of a call: `q' is
\* what remains of the queue.
EnsureConnectedWithCreds(c, q) ==
    IF pool # None
    THEN /\ calls' = q
         /\ UNCHANGED <<rt, pool, sess, mirror, colored, shown>>
    ELSE \E r \in Runtimes :
         /\ rt[r] = Gone
         /\ IF c.room \in Malformed
            THEN /\ Become([rt EXCEPT ![r] = Terminate(Fresh(c))], None, r,
                           NotifyConnecting)
                 /\ calls' = Posted(q, "tearDown", None)
            ELSE /\ Become([rt EXCEPT ![r] = OpenSocket(Fresh(c))], r, r,
                           NotifyConnecting)
                 /\ calls' = q
         /\ Broadcast
         /\ UNCHANGED colored

\* Mutant: the runtime is not marked terminated.
DisconnectUnmarked(s, m) ==
    Become(IF pool = None THEN rt ELSE [rt EXCEPT ![pool] = Closed(@)], None, s, m)

\* disconnect(tabId) in front of a tear-down; `s' and `m' say what the
\* caller does with the session and the mirror in the same turn.
Disconnect(s, m) ==
    Become(IF pool = None THEN rt
           ELSE [rt EXCEPT ![pool] =
                   [Terminate(Closed(@)) EXCEPT !.ticking = FALSE,
                                                !.deadline = FALSE]],
           None, s, m)

Dropped(m) == IF pool = None THEN m ELSE NotifyDisconnected(m)

----------------------------------------------------------------------------
(* Messages from the page, the popup and the browser.                      *)

Credentials(room) ==
    /\ tabOpen
    /\ Post("save", [room |-> room, id |-> None])
    /\ UNCHANGED <<slot, booted, probe, rt, pool, sess, mirror, colored, shown,
                   tabOpen>>

\* content_ready, status and media_hello all bring the link up lazily.
EnsureConnected ==
    /\ tabOpen /\ pool = None
    /\ Post("load", None)
    /\ UNCHANGED <<slot, booted, probe, rt, pool, sess, mirror, colored, shown,
                   tabOpen>>

ReportIdentity ==
    /\ tabOpen /\ pool # None /\ ~rt[pool].first
    /\ rt' = [rt EXCEPT ![pool] = MaybeFlushJoin([@ EXCEPT !.ident = TRUE])]
    /\ UNCHANGED <<slot, booted, calls, probe, pool, sess, mirror, colored,
                   shown, tabOpen>>

ReportCatalog ==
    /\ tabOpen /\ pool # None /\ ~rt[pool].first
    /\ rt' = [rt EXCEPT ![pool] = MaybeFlushJoin([@ EXCEPT !.catalog = TRUE])]
    /\ UNCHANGED <<slot, booted, calls, probe, pool, sess, mirror, colored,
                   shown, tabOpen>>

LeaveRoom ==
    /\ shown \in {"joined", "disconnected"}
    /\ Post("tearDown", None)
    /\ Disconnect(sess, Dropped(mirror))
    /\ IF pool = None THEN UNCHANGED <<shown, colored>> ELSE Broadcast /\ Recolor
    /\ UNCHANGED <<slot, booted, probe, tabOpen>>

Fail ==
    /\ tabOpen
    /\ Post("fail", None)
    /\ Disconnect(sess, Dropped(mirror))
    /\ IF pool = None THEN UNCHANGED <<shown, colored>> ELSE Broadcast /\ Recolor
    /\ UNCHANGED <<slot, booted, probe, tabOpen>>

OnRemoved ==
    /\ tabOpen
    /\ Post("forget", None)
    /\ Disconnect(None, Absent)
    /\ Broadcast
    /\ colored' = FALSE
    /\ tabOpen' = FALSE
    /\ UNCHANGED <<slot, booted, probe>>

Subscribe ==
    /\ tabOpen /\ shown = None
    /\ shown' = Status(mirror, sess, rt)
    /\ UNCHANGED <<slot, booted, calls, probe, rt, pool, sess, mirror, colored,
                   tabOpen>>

ClosePopup ==
    /\ shown # None
    /\ shown' = None
    /\ UNCHANGED <<slot, booted, calls, probe, rt, pool, sess, mirror, colored,
                   tabOpen>>

----------------------------------------------------------------------------
(* The browser answers the oldest storage call.                            *)

Answered(k) == calls # <<>> /\ Head(calls).kind = k

Rest == Tail(calls)

LoadCreds ==
    /\ Answered("load")
    /\ IF slot = None
       THEN calls' = Rest /\ UNCHANGED <<rt, pool, sess, mirror, colored, shown>>
       ELSE EnsureConnectedWithCreds(slot, Rest)
    /\ UNCHANGED <<slot, booted, probe, tabOpen>>

SaveCreds ==
    /\ Answered("save")
    /\ slot' = Head(calls).arg
    /\ EnsureConnectedWithCreds(Head(calls).arg, Rest)
    /\ UNCHANGED <<booted, probe, tabOpen>>

TearDownTab ==
    /\ Answered("tearDown")
    /\ slot' = None /\ calls' = Rest
    /\ Become(rt, pool, None, Absent)
    /\ Broadcast
    /\ colored' = FALSE
    /\ UNCHANGED <<booted, probe, tabOpen>>

\* The `fail' handler resumes: the mirror stays as disconnect left it.
FailCleared ==
    /\ Answered("fail")
    /\ slot' = None /\ calls' = Rest
    /\ Become(rt, pool, None, mirror)
    /\ colored' = FALSE
    /\ UNCHANGED <<booted, probe, shown, tabOpen>>

ClearCreds ==
    /\ Answered("forget")
    /\ slot' = None /\ calls' = Rest
    /\ UNCHANGED <<booted, probe, rt, pool, sess, mirror, colored, shown,
                   tabOpen>>

\* saveClientId reads the slot first ...
ReadForClientId ==
    /\ Answered("readId")
    /\ calls' = IF slot = None THEN Rest
                ELSE Posted(Rest, "writeId", [slot EXCEPT !.id = Head(calls).arg])
    /\ UNCHANGED <<slot, booted, probe, rt, pool, sess, mirror, colored, shown,
                   tabOpen>>

\* ... and writes back what it read, with the id.
WriteClientId ==
    /\ Answered("writeId")
    /\ slot' = Head(calls).arg /\ calls' = Rest
    /\ UNCHANGED <<booted, probe, rt, pool, sess, mirror, colored, shown,
                   tabOpen>>

\* wipeIfFreshBrowserSession, then loadAllCreds: one awaited call after the
\* other.
WipeIfFresh ==
    /\ \/ /\ Answered("sentinel")
          /\ calls' = Posted(Rest, IF booted THEN "all" ELSE "scan", None)
          /\ UNCHANGED <<slot, booted>>
       \/ /\ Answered("scan")
          /\ calls' = Posted(Rest, IF slot = None THEN "mark" ELSE "wipe", None)
          /\ UNCHANGED <<slot, booted>>
       \/ /\ Answered("wipe")
          /\ slot' = None /\ calls' = Posted(Rest, "mark", None)
          /\ UNCHANGED booted
       \/ /\ Answered("mark")
          /\ booted' = TRUE /\ calls' = Posted(Rest, "all", None)
          /\ UNCHANGED slot
    /\ UNCHANGED <<probe, rt, pool, sess, mirror, colored, shown, tabOpen>>

LoadAllCreds ==
    /\ Answered("all")
    /\ probe' = slot /\ calls' = Rest
    /\ UNCHANGED <<slot, booted, rt, pool, sess, mirror, colored, shown,
                   tabOpen>>

\* bootstrap resumes with the answer of tabs.get.
TabProbed ==
    /\ probe # None
    /\ IF tabOpen
       THEN EnsureConnectedWithCreds(probe, calls)
       ELSE /\ Post("forget", None)
            /\ UNCHANGED <<rt, pool, sess, mirror, colored, shown>>
    /\ probe' = None
    /\ UNCHANGED <<slot, booted, tabOpen>>

----------------------------------------------------------------------------
(* The socket and its timers.                                              *)

\* A slot being cleared is cleared before a handshake completes: a clear that
\* is pending under a pooled runtime was posted before that runtime dialled.
Clearing == \E i \in DOMAIN calls : calls[i].kind \in {"tearDown", "fail", "forget"}

OnOpen(r) ==
    /\ rt[r].sock = "connecting" /\ ~Clearing
    /\ LET w == [rt[r] EXCEPT !.sock = "open", !.attempt = 0, !.ticking = TRUE]
       IN  Become([rt EXCEPT ![r] =
                      IF w.first THEN SendJoin(w)
                      ELSE MaybeFlushJoin([w EXCEPT !.deadline = TRUE])],
                  pool, sess,
                  NotifyOpen(mirror))
    /\ Broadcast /\ Recolor
    /\ UNCHANGED <<slot, booted, calls, probe, tabOpen>>

\* Mutant: the deadline waits for the identity too.
JoinDeadlineWaits(r) ==
    /\ rt[r].deadline /\ rt[r].ident
    /\ rt' = [rt EXCEPT ![r] = FlushJoin(@)]
    /\ UNCHANGED <<slot, booted, calls, probe, pool, sess, mirror, colored,
                   shown, tabOpen>>

JoinDeadline(r) ==
    /\ rt[r].deadline
    /\ rt' = [rt EXCEPT ![r] = FlushJoin(@)]
    /\ UNCHANGED <<slot, booted, calls, probe, pool, sess, mirror, colored,
                   shown, tabOpen>>

\* ROOM_STATE answers the JOIN of this socket.
RoomState(r, id) ==
    /\ rt[r].sock = "open" /\ ~rt[r].terminated
    /\ rt[r].joins > 0 /\ ~rt[r].welcomed
    /\ IF rt[r].cid = id THEN UNCHANGED calls ELSE Post("readId", id)
    /\ rt' = [rt EXCEPT ![r].cid = id, ![r].welcomed = TRUE]
    /\ UNCHANGED <<slot, booted, probe, pool, sess, mirror, tabOpen>>
    /\ Broadcast /\ Recolor

\* An ERROR frame whose code is terminal; the daemon's close follows.
TerminalError(r) ==
    /\ rt[r].sock = "open" /\ ~rt[r].terminated
    /\ Post("tearDown", None)
    /\ Become([rt EXCEPT ![r] = Terminate(@)], None, sess, mirror)
    /\ UNCHANGED <<slot, booted, probe, colored, shown, tabOpen>>

\* scheduleReconnect: arm the back-off timer, or give up.
Exhausted(w) == w.attempt + 1 > BackoffSteps + 1

\* Mutant: the timer is never armed.
ScheduleReconnectNot(r, w, m) ==
    /\ Become([rt EXCEPT ![r] = [w EXCEPT !.attempt = 1]], pool, sess, m)
    /\ UNCHANGED calls

ScheduleReconnect(r, w, m) ==
    IF Exhausted(w)
    THEN /\ Post("tearDown", None)
         /\ Become([rt EXCEPT ![r] = Terminate(w)], None, sess, m)
    ELSE /\ Become([rt EXCEPT ![r] = [w EXCEPT !.attempt = @ + 1, !.retry = TRUE]],
                   pool, sess, m)
         /\ UNCHANGED calls

OnClose(r) ==
    /\ rt[r].sock # "none"
    /\ LET w == [rt[r] EXCEPT !.sock = "none", !.ticking = FALSE,
                              !.deadline = FALSE]
           m == NotifyDisconnected(mirror)
       IN  \/ /\ w.terminated
              /\ Become([rt EXCEPT ![r] = w], pool, sess, m)
              /\ UNCHANGED calls
           \/ /\ ~w.terminated /\ rt[r].sock = "open"   \* a terminal reason
              /\ Post("tearDown", None)
              /\ Become([rt EXCEPT ![r] = Terminate(w)], None, sess, m)
           \/ /\ ~w.terminated
              /\ ScheduleReconnect(r, w, m)
    /\ Broadcast /\ Recolor
    /\ UNCHANGED <<slot, booted, probe, tabOpen>>

\* Mutant: the popup is not told of the new dial.
RetryQuiet(r) ==
    /\ rt[r].retry
    /\ Become([rt EXCEPT ![r] = OpenSocket([@ EXCEPT !.retry = FALSE])], pool,
              sess, NotifyConnecting)
    /\ UNCHANGED <<slot, booted, calls, probe, colored, shown, tabOpen>>

Retry(r) ==
    /\ rt[r].retry
    /\ LET w == [rt[r] EXCEPT !.retry = FALSE]
       IN  IF w.terminated
           THEN /\ Become([rt EXCEPT ![r] = w], pool, sess, mirror)
                /\ UNCHANGED shown
           ELSE /\ Become([rt EXCEPT ![r] = OpenSocket(w)], pool, sess,
                          NotifyConnecting)
                /\ Broadcast
    /\ UNCHANGED <<slot, booted, calls, probe, colored, tabOpen>>

----------------------------------------------------------------------------
(* The service worker and the browser stop and start again.                *)

Reboot ==
    /\ calls' = <<Call("sentinel", None)>>
    /\ rt' = [r \in Runtimes |-> Gone]
    /\ pool' = None /\ sess' = None /\ mirror' = Absent
    /\ colored' = FALSE /\ shown' = None /\ probe' = None
    /\ UNCHANGED <<slot, tabOpen>>

\* The worker idles out: not under an open socket, a port or a pending call.
WorkerStops ==
    /\ \A r \in Runtimes : rt[r].sock = "none"
    /\ shown = None /\ calls = <<>> /\ probe = None
    /\ Reboot
    /\ UNCHANGED booted

BrowserRestarts ==
    /\ tabOpen
    /\ Reboot
    /\ booted' = FALSE

----------------------------------------------------------------------------
Resolve(r) == OnOpen(r) \/ OnClose(r)

Storage ==
    \/ LoadCreds \/ SaveCreds \/ TearDownTab \/ FailCleared \/ ClearCreds
    \/ ReadForClientId \/ WriteClientId \/ WipeIfFresh \/ LoadAllCreds

Next ==
    \/ \E room \in Rooms : Credentials(room)
    \/ EnsureConnected \/ ReportIdentity \/ ReportCatalog
    \/ LeaveRoom \/ Fail \/ OnRemoved \/ Subscribe \/ ClosePopup
    \/ Storage \/ TabProbed
    \/ \E r \in Runtimes :
          \/ Resolve(r) \/ JoinDeadline(r) \/ TerminalError(r) \/ Retry(r)
          \/ \E id \in Ids : RoomState(r, id)
    \/ WorkerStops \/ BrowserRestarts

Spec == Init /\ [][Next]_vars

(* Storage answers, timers fire, and a dialled socket opens or fails.      *)
Fairness ==
    /\ WF_vars(Storage) /\ WF_vars(TabProbed)
    /\ \A r \in Runtimes :
          /\ WF_vars(rt[r].sock \in {"connecting", "closing"} /\ Resolve(r))
          /\ WF_vars(JoinDeadline(r))
          /\ WF_vars(Retry(r))

FairSpec == Spec /\ Fairness

----------------------------------------------------------------------------
(* Properties.                                                             *)

(* Every variable has its type. *)
TypeOK ==
    /\ slot \in Creds \cup {None} /\ probe \in Creds \cup {None}
    /\ booted \in BOOLEAN /\ colored \in BOOLEAN /\ tabOpen \in BOOLEAN
    /\ calls \in Seq([kind : Kinds, arg : Creds \cup Ids \cup {None}])
    /\ rt \in [Runtimes -> WsRuntime]
    /\ pool \in Runtimes \cup {None} /\ sess \in Runtimes \cup {None}
    /\ mirror \in [sock : {"absent", "none", "connecting", "open", "disconnected"},
                   creds : BOOLEAN]
    /\ shown \in {None, "no_credentials", "connecting", "joined", "disconnected"}

(* A runtime that was replaced or torn down never dials again, whatever    *)
(* timer or late close it still has to live through: only the pooled       *)
(* runtime has a live socket, and what is pooled is never terminated.      *)
OneLink ==
    /\ pool # None => ~rt[pool].terminated
    /\ \A r \in Runtimes :
          \/ rt[r].sock = "connecting"
          \/ rt[r].sock = "open" /\ ~rt[r].terminated
          => r = pool

(* Each open socket of the pool carries exactly one JOIN, or still has the *)
(* deadline that will send it: the deferral, the content reports and the   *)
(* reconnect form never send a second one and never lose the only one.     *)
OneJoinPerSocket ==
    \A r \in Runtimes :
       /\ rt[r].joins < 2
       /\ rt[r].sock = "open" /\ ~rt[r].terminated =>
             (rt[r].deadline <=> rt[r].joins = 0)

(* The colour icon promises a joined room: the socket behind it is open    *)
(* and was welcomed, or a tear-down that will grey it is already queued.   *)
ColoredMeansJoined ==
    colored =>
       \/ pool # None /\ rt[pool].sock = "open" /\ rt[pool].cid # None
       \/ Clearing

(* What an open popup displays is the status derived now: no change of the *)
(* mirror, the session or the runtime goes by without its broadcast.       *)
PopupCurrent == shown # None => shown = Status(mirror, sess, rt)

(* Under fair timers a dropped link comes back or is given up: it never    *)
(* sits in the pool without an open socket for ever.                       *)
DropResolves ==
    (pool # None /\ rt[pool].sock # "open")
        ~> (pool = None \/ rt[pool].sock = "open")

(* An open socket sends its JOIN even when the page never reports an       *)
(* identity or a catalog.                                                  *)
JoinGoesOut ==
    \A r \in Runtimes :
       rt[r].sock = "open" ~> (rt[r].joins > 0 \/ rt[r].sock # "open")

(* popupBroadcast.ts: `disconnected' means the socket dropped and a        *)
(* reconnect is pending, "distinct from 'none'"; so a tab shown offline    *)
(* still has its runtime once every storage call has been answered.        *)
OfflineMeansRetrying ==
    calls = <<>> /\ Status(mirror, sess, rt) = "disconnected" => pool # None
=============================================================================
