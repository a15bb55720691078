------------------------------ MODULE NavGuard ------------------------------
(***************************************************************************)
(* The background's navigation guard over one joined tab: it turns a       *)
(* viewer's own move into a CURSOR_CHANGE_REQUEST or pulls the tab back,   *)
(* holds the tab's intents back while it does (the convergence gate), and  *)
(* reconciles a tab that drifted.  Beside it: the page, which obeys        *)
(* cursor_change when its adapter is up, and the daemon at the other end   *)
(* of the socket, which takes its requests and sends its frames in order.  *)
(*                                                                         *)
(* A page is a video id or Home (`videoIdForUrl' gives null).  Commands to *)
(* the page and tabs.get stay within the browser and are answered within a *)
(* second; a request, a frame or a rejoin may be under way for longer than *)
(* any timer runs.                                                         *)
(***************************************************************************)
EXTENDS Naturals, Sequences, FiniteSets

CONSTANTS
    Videos,    \* video ids the adapter recognises
    Listed,    \* those in the room's playlist at first
    First,     \* the cursor at first
    Home,      \* any page that is not a video
    None,
    Modes,     \* room modes
    MaxMoves   \* bound: moves and edits by viewers or the owner, lost links,
               \* STATE frames, stalls of the player

ASSUME GuardAssumption ==
    /\ Listed \subseteq Videos /\ First \in Listed
    /\ Home \notin Videos /\ None \notin Videos \cup {Home}
    /\ Modes \subseteq {"default", "single", "freeform"} /\ Modes # {}
    /\ MaxMoves \in Nat

VARIABLES
    url, mover,    \* where the tab is, and who brought it there
    page,          \* "ready" once the adapter reported this page's identity
    cmds,          \* cursor_change commands on their way to the page
    mode, list,    \* session.mode, session.playlist
    cursor,        \* session.cursor
    pending,       \* session.pendingCursorTarget
    gate,          \* converged, everConverged, settleUntil, awaitingReload
    timers,        \* armed: debounce, request, reload
    asked,         \* tabs.get continuations, with the cursors they captured
    link,          \* "joining", "seated" by the daemon, "up" once ROOM_STATE
                   \* was had on this socket
    up, down,      \* requests to the daemon, frames from it
    rc, rlist,     \* the room's cursor and playlist
    moves

vars == <<url, mover, page, cmds, mode, list, cursor, pending, gate, timers,
          asked, link, up, down, rc, rlist, moves>>

tab == <<url, mover, page>>
session == <<mode, list, cursor>>
wire == <<link, up, down>>
daemon == <<rc, rlist>>

Gate == [converged : BOOLEAN, ever : BOOLEAN, settle : BOOLEAN,
         awaiting : BOOLEAN]
Timers == [debounce : BOOLEAN, request : BOOLEAN, reload : BOOLEAN]
Lookups == [route : BOOLEAN, reconcile : SUBSET Videos, pull : SUBSET Videos]

Init ==
    /\ url = First /\ mover = "room" /\ page = "ready" /\ cmds = <<>>
    /\ mode \in Modes /\ list = Listed
    /\ cursor = First /\ pending = None
    /\ gate = [converged |-> TRUE, ever |-> TRUE, settle |-> FALSE,
               awaiting |-> FALSE]
    /\ timers = [debounce |-> FALSE, request |-> FALSE, reload |-> FALSE]
    /\ asked = [route |-> FALSE, reconcile |-> {}, pull |-> {}]
    /\ link = "up" /\ up = <<>> /\ down = <<>>
    /\ rc = First /\ rlist = Listed
    /\ moves = 0

----------------------------------------------------------------------------
(* session.ts: the gate.                                                   *)

MarkConverged(g) ==
    IF g.converged \/ g.awaiting THEN g
    ELSE [g EXCEPT !.converged = TRUE, !.ever = TRUE, !.settle = TRUE]

ResetConvergence(g) == [g EXCEPT !.converged = FALSE, !.settle = FALSE]

ResetConnectionState(g) ==
    [g EXCEPT !.converged = FALSE, !.ever = FALSE, !.settle = FALSE]

Effective == IF pending # None THEN pending ELSE cursor

\* guardContext; a guarded tab always has a session and a cursor here.
Anchored == mode # "freeform"

----------------------------------------------------------------------------
(* The tab moves.                                                          *)

\* handleTabNavigation: arm the debounce unless the move needs no answer.
Observed(v) ==
    timers' = IF ~gate.awaiting /\ gate.ever /\ v # Effective
              THEN [timers EXCEPT !.debounce = TRUE] ELSE timers

Visit(v, who) == url' = v /\ mover' = who /\ page' = "loading"

Tick == moves < MaxMoves /\ moves' = moves + 1

UserNavigates(v) ==
    /\ Tick /\ v # url
    /\ Visit(v, "user") /\ Observed(v)
    /\ UNCHANGED <<cmds, session, pending, gate, asked, wire, daemon>>

\* maybeEndGuardReload: the reloaded page reports the cursor's identity.
PageReady ==
    /\ page = "loading" /\ url # Home
    /\ page' = "ready"
    /\ IF gate.awaiting /\ url = cursor
       THEN /\ gate' = MarkConverged([gate EXCEPT !.awaiting = FALSE])
            /\ timers' = [timers EXCEPT !.reload = FALSE]
       ELSE UNCHANGED <<gate, timers>>
    /\ UNCHANGED <<url, mover, cmds, session, pending, asked, wire, daemon, moves>>

\* applyCursorChange in the page: lost on a page whose adapter is not up.
CommandDelivered ==
    /\ cmds # <<>>
    /\ cmds' = Tail(cmds)
    /\ IF page = "ready" /\ url # Head(cmds)
       THEN Visit(Head(cmds), "room") /\ Observed(Head(cmds))
       ELSE UNCHANGED <<tab, timers>>
    /\ UNCHANGED <<session, pending, gate, asked, wire, daemon, moves>>

----------------------------------------------------------------------------
(* Timers of the guard.                                                    *)

\* Nothing the browser itself owes an answer to is under way: so before each
\* timer of a second or more fires.
Quiet ==
    cmds = <<>> /\ asked = [route |-> FALSE, reconcile |-> {}, pull |-> {}]

Request(v) == [type |-> "CURSOR_CHANGE_REQUEST", target |-> v]

\* routeGuardedNav up to its await.
Debounced ==
    /\ timers.debounce
    /\ timers' = [timers EXCEPT !.debounce = FALSE]
    /\ asked' = IF gate.awaiting \/ ~gate.ever THEN asked
                ELSE [asked EXCEPT !.route = TRUE]
    /\ UNCHANGED <<tab, cmds, session, pending, gate, wire, daemon, moves>>

\* Mutant: the fallback is not armed.
ForwardUntimed(v) ==
    /\ gate' = ResetConvergence(gate)
    /\ pending' = v
    /\ up' = IF link = "joining" THEN up ELSE Append(up, Request(v))
    /\ UNCHANGED <<cmds, timers, link, down>>

\* forwardCursorChangeFromNav.
Forward(v) ==
    /\ gate' = ResetConvergence(gate)
    /\ pending' = v
    /\ timers' = [timers EXCEPT !.request = TRUE]
    /\ up' = IF link = "joining" THEN up ELSE Append(up, Request(v))
    /\ UNCHANGED <<cmds, link, down>>

PullTabBackToCursor ==
    /\ cmds' = Append(cmds, cursor)
    /\ UNCHANGED <<pending, gate, timers, wire>>

NoMove == UNCHANGED <<cmds, pending, gate, timers, wire>>

\* recheckAndPullBack up to its await: in freeform there is no context.
AskPull(a) ==
    /\ asked' = [a EXCEPT !.pull = IF Anchored THEN @ \cup {cursor} ELSE @]
    /\ NoMove

\* routeGuardedNav from its await on.
RouteGuardedNav ==
    /\ asked.route
    /\ LET done == [asked EXCEPT !.route = FALSE]
           stay == url = Effective \/ (mode = "freeform" /\ url = Home)
           known == url \in list \/ mode = "freeform"
       IN  \/ stay /\ NoMove /\ asked' = done
           \/ ~stay /\ known /\ mode # "single" /\ Forward(url) /\ asked' = done
           \/ ~stay /\ known /\ mode = "single" /\ PullTabBackToCursor
              /\ asked' = done
           \/ ~stay /\ ~known /\ AskPull(done)
    /\ UNCHANGED <<tab, session, daemon, moves>>

\* recheckAndPullBack from its await on: reload the tab onto a cursor it
\* captured before, unless the tab is on a page of the room by now.
RecheckAndPullBack ==
    \E captured \in asked.pull :
        /\ asked' = [asked EXCEPT !.pull = @ \ {captured}]
        /\ IF url \in list \cup {cursor}
           THEN UNCHANGED <<tab, gate, timers>>
           ELSE /\ gate' = [ResetConvergence(gate) EXCEPT !.awaiting = TRUE]
                /\ timers' = [timers EXCEPT !.reload = TRUE]
                /\ Visit(captured, "room")
        /\ UNCHANGED <<cmds, session, pending, wire, daemon, moves>>

\* reconcileCursorToRoom up to its await, on its interval.  A tab found on the
\* cursor is left alone, and one that leaves it before the answer is like one
\* that left before the tick: neither needs a step.
ReconcileTick ==
    /\ Quiet /\ Anchored
    /\ ~gate.awaiting /\ gate.converged /\ ~gate.settle /\ pending = None
    /\ url # cursor
    /\ asked' = [asked EXCEPT !.reconcile = {cursor}]
    /\ UNCHANGED <<tab, cmds, session, pending, gate, timers, wire, daemon, moves>>


\* reconcileCursorToRoom from its await on.
ReconcileCursorToRoom ==
    \E captured \in asked.reconcile :
        LET done == [asked EXCEPT !.reconcile = {}] IN
        /\ \/ url = captured /\ NoMove /\ asked' = done
           \/ url # captured /\ url \in list /\ PullTabBackToCursor /\ asked' = done
           \/ url # captured /\ url \notin list /\ AskPull(done)
        /\ UNCHANGED <<tab, session, daemon, moves>>


RequestFallback ==
    /\ timers.request /\ Quiet
    /\ timers' = [timers EXCEPT !.request = FALSE]
    /\ gate' = MarkConverged(gate)
    /\ pending' = None
    /\ UNCHANGED <<tab, cmds, session, asked, wire, daemon, moves>>

ReloadFallback ==
    /\ timers.reload /\ Quiet
    /\ timers' = [timers EXCEPT !.reload = FALSE]
    /\ gate' = IF gate.awaiting THEN MarkConverged([gate EXCEPT !.awaiting = FALSE])
               ELSE gate
    /\ UNCHANGED <<tab, cmds, session, pending, asked, wire, daemon, moves>>

SettleEnds ==
    /\ gate.settle /\ Quiet
    /\ gate' = [gate EXCEPT !.settle = FALSE]
    /\ UNCHANGED <<tab, cmds, session, pending, timers, asked, wire, daemon, moves>>

----------------------------------------------------------------------------
(* Frames to the tab and the link.                                         *)

Frame(type) == down # <<>> /\ Head(down).type = type /\ down' = Tail(down)

\* handleFrame, CURSOR_CHANGE.
CursorChange ==
    /\ Frame("CURSOR_CHANGE")
    /\ LET v == Head(down).cursor IN
       /\ cursor' = v /\ cmds' = Append(cmds, v)
       /\ pending' = IF pending = v THEN None ELSE pending
    /\ gate' = MarkConverged(ResetConvergence(gate))
    /\ UNCHANGED <<tab, mode, list, timers, asked, link, up, daemon, moves>>

\* handleFrame, STATE: commands to the tab, so it counts as steered.
State ==
    /\ Frame("STATE")
    /\ gate' = MarkConverged(gate)
    /\ UNCHANGED <<tab, cmds, session, pending, timers, asked, link, up, daemon,
                   moves>>

\* handleFrame, PLAYLIST_UPDATE.
PlaylistUpdate ==
    /\ Frame("PLAYLIST_UPDATE")
    /\ list' = Head(down).entries
    /\ UNCHANGED <<tab, cmds, mode, cursor, pending, gate, timers, asked, link,
                   up, daemon, moves>>

\* handleFrame, ROOM_STATE, the answer to a JOIN or to a BUFFER_END: its
\* commands play, pause and seek and never bring the tab anywhere.
RoomState ==
    /\ Frame("ROOM_STATE")
    /\ link' = "up"
    /\ cursor' = Head(down).cursor /\ pending' = None
    /\ gate' = MarkConverged(gate)
    /\ UNCHANGED <<tab, cmds, mode, list, timers, asked, up, daemon, moves>>

\* The socket drops and is dialled again: openSocket resets the gate.
LinkLost ==
    /\ Tick /\ link # "joining"
    /\ link' = "joining" /\ up' = <<>> /\ down' = <<>>
    /\ gate' = ResetConnectionState(gate)
    /\ pending' = None
    /\ UNCHANGED <<tab, cmds, session, timers, asked, daemon>>

\* sendBuffer: the player recovers from a stall.
BufferEnd ==
    /\ Tick /\ link # "joining"
    /\ up' = Append(up, [type |-> "BUFFER_END"])
    /\ UNCHANGED <<tab, cmds, session, pending, gate, timers, asked, link, down,
                   daemon>>

----------------------------------------------------------------------------
(* The daemon.                                                             *)

CURSOR_CHANGE(v) == [type |-> "CURSOR_CHANGE", cursor |-> v]
PLAYLIST_UPDATE(l) == [type |-> "PLAYLIST_UPDATE", entries |-> l]
ROOM_STATE == [type |-> "ROOM_STATE", cursor |-> rc]

Send(frames) == down' = IF link = "joining" THEN down ELSE down \o frames

Untouched == UNCHANGED <<tab, cmds, session, pending, gate, timers, asked>>

\* JoinHandler: a rejoin names no page, so it is not steered.
Joined ==
    /\ link = "joining" /\ link' = "seated"
    /\ down' = <<ROOM_STATE, PLAYLIST_UPDATE(rlist)>>
    /\ Untouched /\ UNCHANGED <<up, daemon, moves>>

\* CursorService moves the cursor to an entry, or in freeform appends one.
Moves(v) ==
    /\ v \in rlist \/ mode = "freeform"
    /\ rc' = v /\ rlist' = rlist \cup {v}
    /\ Send((IF v \in rlist THEN <<>> ELSE <<PLAYLIST_UPDATE(rlist')>>)
            \o <<CURSOR_CHANGE(v)>>)

\* CursorChangeHandler: accepted, or refused by the service or the limiter.
CursorChangeRequest ==
    /\ up # <<>> /\ Head(up).type = "CURSOR_CHANGE_REQUEST"
    /\ up' = Tail(up)
    /\ \/ Moves(Head(up).target)
       \/ UNCHANGED <<down, daemon>>
    /\ Untouched /\ UNCHANGED <<link, moves>>

\* BufferHandler, handleEnd: a fresh ROOM_STATE for this viewer.
BufferEnded ==
    /\ up # <<>> /\ Head(up).type = "BUFFER_END"
    /\ up' = Tail(up)
    /\ Send(<<ROOM_STATE>>)
    /\ Untouched /\ UNCHANGED <<link, daemon, moves>>

\* Another viewer, or the owner, moves the room.
OtherMoves(v) ==
    /\ Tick /\ Moves(v)
    /\ Untouched /\ UNCHANGED <<link, up>>

\* The owner, or a scrape, adds an entry; the owner drops one that is not
\* playing.
OtherEdits(v) ==
    /\ Tick /\ mode # "single" /\ v # rc
    /\ rlist' = IF v \in rlist THEN rlist \ {v} ELSE rlist \cup {v}
    /\ Send(<<PLAYLIST_UPDATE(rlist')>>)
    /\ Untouched /\ UNCHANGED <<link, up, rc>>

\* Another viewer plays, pauses or seeks.
Playback ==
    /\ Tick /\ link # "joining"
    /\ Send(<<[type |-> "STATE"]>>)
    /\ Untouched /\ UNCHANGED <<link, up, daemon>>

----------------------------------------------------------------------------
Next ==
    \/ \E v \in Videos \cup {Home} : UserNavigates(v)
    \/ PageReady \/ CommandDelivered
    \/ Debounced \/ RouteGuardedNav \/ RecheckAndPullBack
    \/ ReconcileTick \/ ReconcileCursorToRoom
    \/ RequestFallback \/ ReloadFallback \/ SettleEnds
    \/ CursorChange \/ State \/ PlaylistUpdate \/ RoomState
    \/ LinkLost \/ BufferEnd
    \/ Joined \/ CursorChangeRequest \/ BufferEnded \/ Playback
    \/ \E v \in Videos : OtherMoves(v) \/ OtherEdits(v)

Spec == Init /\ [][Next]_vars

(* Local answers, timers, frames and the daemon all get their turn; only   *)
(* the viewers, the network and playback need not act.                     *)
Fairness ==
    /\ WF_vars(PageReady) /\ WF_vars(CommandDelivered)
    /\ WF_vars(Debounced) /\ WF_vars(RouteGuardedNav)
    /\ WF_vars(RecheckAndPullBack)
    /\ WF_vars(ReconcileTick) /\ WF_vars(ReconcileCursorToRoom)
    /\ WF_vars(RequestFallback) /\ WF_vars(ReloadFallback) /\ WF_vars(SettleEnds)
    /\ WF_vars(CursorChange) /\ WF_vars(State)
    /\ WF_vars(PlaylistUpdate) /\ WF_vars(RoomState)
    /\ WF_vars(Joined) /\ WF_vars(CursorChangeRequest) /\ WF_vars(BufferEnded)

FairSpec == Spec /\ Fairness

----------------------------------------------------------------------------
(* Properties.                                                             *)

(* A closed gate always has something that will open it: a tab never drops *)
(* its viewer's intents for good.  A pending target never outlives its     *)
(* fallback either.                                                        *)
GateHasKey ==
    /\ gate.awaiting => timers.reload
    /\ link = "up" /\ ~gate.converged => timers.request \/ gate.awaiting
    /\ pending # None => timers.request

\* The guard asks for a page to which the room had brought the tab.
RoomMoveForwarded == pending' \notin {None, pending} /\ mover = "room"



(* background.ts on the loop-stop: "A room-driven nav also lands here (the *)
(* fold set the cursor before the driven nav completed)".  So the guard    *)
(* is done, some day, with forwarding the room's own moves.                *)
RoomMovesEnd == <>[][~RoomMoveForwarded]_vars

(* background.ts on the reconciler: "A forwarded cursor change is still    *)
(* round-tripping: stay dormant until its broadcast lands (or the fallback *)
(* clears it)".  So it looks at no tab whose request is still under way.   *)
RoundTripSpared ==
    [][asked.reconcile = {} /\ asked'.reconcile # {} /\ timers.request
         => \A i \in DOMAIN up : up[i] # Request(url)]_vars

(* background.ts on the reconciler: "a real forward gets its round-trip to *)
(* land before the reconciler would undo it".  So it never steers away a   *)
(* tab whose viewer has just moved to a listed video, with the guard's     *)
(* debounce still to forward the move.                                     *)
ReconcileSparesMoves ==
    [][asked.reconcile # {} /\ Len(cmds') > Len(cmds) /\ mode = "default"
         => ~(timers.debounce /\ mover = "user" /\ url \in list)]_vars

(* The same comment: forwarding "stays tied to real user navigation, where *)
(* intent is unambiguous".  So the guard asks the daemon only for a page   *)
(* its viewer went to, never for one the room brought the tab to.          *)
OnlyViewersForward ==
    [][pending' \notin {None, pending} => mover = "user"]_vars
=============================================================================
