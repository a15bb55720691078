------------------------------ MODULE RoomSync ------------------------------
(***************************************************************************)
(* How a room's state reaches its viewers: the row in the database, the    *)
(* copy the daemon keeps in its RoomRuntime, the frames on their way, and  *)
(* the session each extension folds them into.                             *)
(*                                                                         *)
(* Three parties work on it.  PHP requests of the owner commit to the row  *)
(* and then make one best-effort call to the daemon, which only names what *)
(* kind of thing changed.  The daemon runs one handler at a time, but a    *)
(* handler that writes commits first and reads the row again afterwards,   *)
(* and a PHP request may commit in between: such a handler is several      *)
(* actions here, and no other handler runs until it is done.  Sockets are  *)
(* FIFO and lose nothing but by closing.                                   *)
(*                                                                         *)
(* The playlist is the set of its videos and an entry is named by its      *)
(* video; PlaylistStore has the rest, so where sources and caps decide     *)
(* what a prune drops or whether a write is refused, each may happen here. *)
(* Of the playback state there are the version (eventId) and whether the   *)
(* room plays; positions are left out, and with them HEARTBEAT and         *)
(* SYNC_ADJUST, which carry nothing else, and so are NOTICE frames and     *)
(* BUFFER_START, which nobody is told of.                                  *)
(***************************************************************************)
EXTENDS Naturals, FiniteSets, Sequences

CONSTANTS
  Clients,      \* viewers, each an extension tab with its session
  Videos,       \* natural keys of playlist entries
  Modes,        \* the modes the room may be in
  None,         \* no cursor, no currentlyShowing, nobody
  FreeformCap,  \* FreeformConfig.autoAppendCap
  MaxVersion,   \* bound on the room's eventId
  MaxCalls,     \* bound on the calls of one kind in flight
  MaxCommits,   \* bound on the transactions of a run
  MaxFrames     \* bound on what a client has not taken when a handler begins

ASSUME NoneAssumption == None \notin Videos /\ None \notin Clients /\ None \notin Nat

ASSUME ModesAssumption == Modes \subseteq {"default", "single", "freeform"} /\ Modes # {}

ASSUME BoundsAssumption ==
  /\ FreeformCap \in Nat \ {0}
  /\ MaxVersion \in Nat /\ MaxCalls \in Nat /\ MaxCommits \in Nat /\ MaxFrames \in Nat

VARIABLES
  row,       \* the room's row: playlist, cursor and mode
  commits,   \* transactions so far, the two of a seed counted as one
  calls,     \* admin calls in flight, by kind
  runtime,   \* the registry holds a RoomRuntime for the room
  cache,     \* the same in the RoomRuntime
  version,   \* PlaybackState.eventId
  cursorEvent,     \* the version of the last cursor_change in the RoomRuntime's log, or 0
  playing,   \* PlaybackState.playerState
  handler,   \* the handler the daemon is in the middle of
  seated,    \* clients whose record has a socket
  chan,      \* frames sent to each client and not yet taken
  session,   \* SessionState of each client
  untold,    \* history: what was changed and not announced to a seated client
  missed     \* history: a call was lost since the row was last read

rowVars == <<row, commits, calls>>
daemonVars == <<runtime, cache, version, cursorEvent, playing, handler, seated>>
vars == <<row, commits, calls, runtime, cache, version, cursorEvent, playing, handler, seated,
          chan, session, untold, missed>>

Kinds == {"cursor_change", "playlist_update", "room_state"}
Aspects == {"cursor", "list"}

Row == [list : SUBSET Videos, cursor : Videos \cup {None}, mode : Modes \cup {"default"}]
NoRow == [list |-> {}, cursor |-> None, mode |-> "default"]

\* join is history: the daemon and the session treat a ROOM_STATE that answers
\* a JOIN and one that answers a BUFFER_END alike.
Frame ==
  [type : {"STATE"}, id : 0..MaxVersion, playing : BOOLEAN] \cup
  [type : {"ROOM_STATE"}, id : 0..MaxVersion, playing : BOOLEAN, cursor : Videos \cup {None},
   whole : BOOLEAN, join : BOOLEAN] \cup
  [type : {"CURSOR_CHANGE"}, id : 0..MaxVersion, cursor : Videos] \cup
  [type : {"PLAYLIST_UPDATE"}, list : SUBSET Videos]

\* behind is history: the last ROOM_STATE was not decoded, and no version has
\* come since.
Session == [last : 0..MaxVersion, cursor : Videos \cup {None}, list : SUBSET Videos,
            playing : BOOLEAN, behind : BOOLEAN]
NewSession == [last |-> 0, cursor |-> None, list |-> {}, playing |-> FALSE, behind |-> FALSE]

\* "cursor" and "playlist": CURSOR_CHANGE_REQUEST and PLAYLIST_UPDATE have
\* committed and not yet answered.  The others are a JOIN's: the row is read;
\* the catalog is merged; it is read again; what the joiner shows is merged;
\* the cursor is on it; everything is done but the answer.
Steps == {"idle", "cursor", "playlist", "read", "merged", "reread", "seeded", "moved", "answer"}

Handler == [step : Steps, client : Clients \cup {None}, showing : Videos \cup {None},
            outcome : Row, appended : BOOLEAN]
Idle == [step |-> "idle", client |-> None, showing |-> None, outcome |-> NoRow,
         appended |-> FALSE]

TypeOK ==
  /\ row \in Row
  /\ commits \in 0..MaxCommits
  /\ calls \in [Kinds -> 0..MaxCalls]
  /\ runtime \in BOOLEAN
  /\ cache \in Row
  /\ version \in 0..MaxVersion
  /\ cursorEvent \in 0..version
  /\ playing \in BOOLEAN
  /\ handler \in Handler
  /\ seated \subseteq Clients
  /\ chan \in [Clients -> Seq(Frame)]
  /\ session \in [Clients -> Session]
  /\ untold \in [Clients -> SUBSET Aspects]
  /\ missed \in BOOLEAN

(* A room as createRoom leaves it; nobody has joined.                      *)
Init ==
  /\ row \in {r \in Row : r.cursor = None /\ r.mode \in Modes}
  /\ commits = 0
  /\ calls = [k \in Kinds |-> 0]
  /\ runtime = FALSE
  /\ cache = NoRow
  /\ version = 0
  /\ cursorEvent = 0
  /\ playing = FALSE
  /\ handler = Idle
  /\ seated = {}
  /\ chan = [c \in Clients |-> <<>>]
  /\ session = [c \in Clients |-> NewSession]
  /\ untold = [c \in Clients |-> {}]
  /\ missed = FALSE

-----------------------------------------------------------------------------
(* Frames.                                                                 *)

StateFrame(id, plays) == [type |-> "STATE", id |-> id, playing |-> plays]
CursorFrame(v, id) == [type |-> "CURSOR_CHANGE", id |-> id, cursor |-> v]
PlaylistFrame(list) == [type |-> "PLAYLIST_UPDATE", list |-> list]

(* recentEventsSince replays every playback event after the JOIN's         *)
(* lastEventId, which is sent only above 0, and decodeRoomState refuses a  *)
(* frame that replays anything but play, pause and seek.                   *)
Replayable(since) == since = 0 \/ cursorEvent <= since

RoomStateFrame(since, join) ==
  [type |-> "ROOM_STATE", id |-> version, playing |-> playing, cursor |-> cache.cursor,
   whole |-> Replayable(since), join |-> join]

(* The daemon is between two handlers.                                     *)
Free == handler = Idle /\ \A c \in Clients : Len(chan[c]) <= MaxFrames

(* The clients in S are sent the frames, in this order.                    *)
Send(S, frames) ==
  chan' = [c \in Clients |-> IF c \in S THEN chan[c] \o frames ELSE chan[c]]

(* They were told of these aspects of the row as it is now.                *)
Told(S, aspects) ==
  untold' = [c \in Clients |-> IF c \in S THEN untold[c] \ aspects ELSE untold[c]]

If(test, aspect) == IF test THEN {aspect} ELSE {}

Untell(aspects) ==
  untold' = [c \in Clients |-> IF c \in seated THEN untold[c] \cup aspects ELSE untold[c]]

(* The row changes and nobody says so.                                     *)
Silently == Untell(If(row'.cursor # row.cursor, "cursor") \cup If(row'.list # row.list, "list"))

-----------------------------------------------------------------------------
(* What a transaction on the row may come to.                              *)

(* Writing the list: in freeform it is pruned down to the cap, and the     *)
(* entry under the cursor is kept.                                         *)
Stored(list, cursor) ==
  IF row.mode = "freeform" /\ Cardinality(list) > FreeformCap
    THEN {kept \in SUBSET list : Cardinality(kept) = FreeformCap /\ (cursor \in list => cursor \in kept)}
    ELSE {list}

Commit(outcomes) ==
  /\ commits < MaxCommits
  /\ commits' = commits + 1
  /\ row' \in outcomes

MergeOutcomes(videos) ==
  IF row.mode = "single" THEN {}
  ELSE {[row EXCEPT !.list = list] : list \in Stored(row.list \cup videos, row.cursor)}

MoveOutcomes(v) ==
  IF v \in row.list THEN {[row EXCEPT !.cursor = v]}
  ELSE IF row.mode # "freeform" THEN {}
  ELSE {[row EXCEPT !.list = list, !.cursor = v] : list \in Stored(row.list \cup {v}, v)}

-----------------------------------------------------------------------------
(* Playback: EVENT of a viewer, the owner's commands.  An event is named   *)
(* by the playerState it leaves.                                           *)

After(event) == CASE event = "play" -> TRUE [] event = "pause" -> FALSE [] event = "seek" -> playing

\* Mutant: the sender is left out of the broadcast.
EventFrameToPeers(c, event) ==
  /\ Free
  /\ c \in seated
  /\ version < MaxVersion
  /\ version' = version + 1
  /\ playing' = After(event)
  /\ Send(seated \ {c}, <<StateFrame(version', playing')>>)
  /\ UNCHANGED <<rowVars, runtime, cache, cursorEvent, handler, seated, session, untold,
                 missed>>

EventFrame(c, event) ==
  /\ Free
  /\ c \in seated
  /\ version < MaxVersion
  /\ version' = version + 1
  /\ playing' = After(event)
  /\ Send(seated, <<StateFrame(version', playing')>>)
  /\ UNCHANGED <<rowVars, runtime, cache, cursorEvent, handler, seated, session, untold,
                 missed>>

OwnerPlayback(event) ==
  /\ Free
  /\ runtime
  /\ version < MaxVersion
  /\ version' = version + 1
  /\ playing' = After(event)
  /\ Send(seated, <<StateFrame(version', playing')>>)
  /\ UNCHANGED <<rowVars, runtime, cache, cursorEvent, handler, seated, session, untold,
                 missed>>

(* reset is a pause and a seek: two versions and one frame.                *)
OwnerReset ==
  /\ Free
  /\ runtime
  /\ version + 1 < MaxVersion
  /\ version' = version + 2
  /\ playing' = FALSE
  /\ Send(seated, <<StateFrame(version', FALSE)>>)
  /\ UNCHANGED <<rowVars, runtime, cache, cursorEvent, handler, seated, session, untold,
                 missed>>

EpisodeReset ==
  /\ version < MaxVersion
  /\ version' = version + 1
  /\ cursorEvent' = version'
  /\ playing' = FALSE

-----------------------------------------------------------------------------
(* CURSOR_CHANGE_REQUEST and PLAYLIST_UPDATE of a viewer: the transaction, *)
(* then the refresh and the broadcast of what the transaction returned.    *)

RequestCursor(v) ==
  /\ Free
  /\ version < MaxVersion
  /\ seated # {}
  /\ \E outcome \in MoveOutcomes(v) :
       /\ Commit({outcome})
       /\ handler' = [Idle EXCEPT !.step = "cursor", !.outcome = outcome,
                                  !.appended = v \notin row.list]
  /\ UNCHANGED <<calls, runtime, cache, version, cursorEvent, playing, seated, chan,
                 session, untold, missed>>

AnnounceCursor ==
  /\ handler.step = "cursor"
  /\ cache' = row
  /\ missed' = FALSE
  /\ EpisodeReset
  /\ LET move == CursorFrame(handler.outcome.cursor, version') IN
     Send(seated, IF handler.appended THEN <<PlaylistFrame(handler.outcome.list), move>>
                                      ELSE <<move>>)
  /\ Told(seated, If(handler.outcome.cursor = row.cursor, "cursor") \cup
                  If(handler.appended /\ handler.outcome.list = row.list, "list"))
  /\ handler' = Idle
  /\ UNCHANGED <<rowVars, runtime, seated, session>>

SendPlaylist(videos) ==
  /\ Free
  /\ seated # {}
  /\ \E outcome \in MergeOutcomes(videos) :
       /\ Commit({outcome})
       /\ handler' = [Idle EXCEPT !.step = "playlist", !.outcome = outcome]
  /\ UNCHANGED <<calls, runtime, cache, version, cursorEvent, playing, seated, chan,
                 session, untold, missed>>

\* Mutant: the runtime is not refreshed.
AnnouncePlaylistOnly ==
  /\ handler.step = "playlist"
  /\ missed' = FALSE
  /\ Send(seated, <<PlaylistFrame(handler.outcome.list)>>)
  /\ Told(seated, If(handler.outcome.list = row.list, "list"))
  /\ handler' = Idle
  /\ UNCHANGED <<rowVars, cache, runtime, version, cursorEvent, playing, seated, session>>

AnnouncePlaylist ==
  /\ handler.step = "playlist"
  /\ cache' = row
  /\ missed' = FALSE
  /\ Send(seated, <<PlaylistFrame(handler.outcome.list)>>)
  /\ Told(seated, If(handler.outcome.list = row.list, "list"))
  /\ handler' = Idle
  /\ UNCHANGED <<rowVars, runtime, version, cursorEvent, playing, seated, session>>

-----------------------------------------------------------------------------
(* JOIN, first or after a reconnect.  What it writes is not announced to   *)
(* those who are already there.  Only a first JOIN says what the tab shows *)
(* and brings a catalog (sendJoin); a session that has seen a version is   *)
(* past its first.                                                         *)

JoinRead(c, showing) ==
  /\ Free
  /\ c \notin seated
  /\ session[c].last > 0 => showing = None
  /\ runtime' = TRUE
  /\ cache' = row
  /\ missed' = FALSE
  /\ seated' = seated \cup {c}
  /\ handler' = [Idle EXCEPT !.step = "read", !.client = c, !.showing = showing]
  /\ untold' = [untold EXCEPT ![c] = Aspects]
  /\ UNCHANGED <<rowVars, version, cursorEvent, playing, chan, session>>

JoinMerge(videos) ==
  /\ handler.step = "read"
  /\ session[handler.client].last = 0
  /\ cache.mode # "single"
  /\ Commit(MergeOutcomes(videos))
  /\ Silently
  /\ handler' = [handler EXCEPT !.step = "merged"]
  /\ UNCHANGED <<calls, runtime, cache, version, cursorEvent, playing, seated, chan,
                 session, missed>>

JoinReread ==
  /\ handler.step \in {"merged", "moved"}
  /\ cache' = row
  /\ missed' = FALSE
  /\ handler' = [handler EXCEPT !.step = IF @ = "merged" THEN "reread" ELSE "answer"]
  /\ UNCHANGED <<rowVars, runtime, version, cursorEvent, playing, seated, chan, session,
                 untold>>

SeedDue ==
  /\ handler.step \in {"read", "reread"}
  /\ cache.cursor = None
  /\ handler.showing # None
  /\ cache.mode # "single"

(* seedFromCurrentlyShowing: in default mode a merge of its own ...        *)
JoinSeed ==
  /\ SeedDue
  /\ cache.mode # "freeform"
  /\ Commit(MergeOutcomes({handler.showing}))
  /\ Silently
  /\ handler' = [handler EXCEPT !.step = "seeded"]
  /\ UNCHANGED <<calls, runtime, cache, version, cursorEvent, playing, seated, chan,
                 session, missed>>

(* ... and then, or in freeform at once, the cursor.                       *)
JoinMove ==
  /\ \/ SeedDue /\ cache.mode = "freeform" /\ Commit(MoveOutcomes(handler.showing))
     \/ handler.step = "seeded" /\ row' \in MoveOutcomes(handler.showing) /\ UNCHANGED commits
  /\ Silently
  /\ handler' = [handler EXCEPT !.step = "moved"]
  /\ UNCHANGED <<calls, runtime, cache, version, cursorEvent, playing, seated, chan,
                 session, missed>>

(* The cursor is refused: the seed ends without reading the row.  When     *)
(* the first write of the seed is refused nothing happens at all.          *)
JoinMoveRefused ==
  /\ handler.step = "seeded"
  /\ handler.showing \notin row.list
  /\ handler' = [handler EXCEPT !.step = "answer"]
  /\ UNCHANGED <<rowVars, runtime, cache, version, cursorEvent, playing, seated, chan,
                 session, untold, missed>>

(* ROOM_STATE, the playlist unless it is empty, and the steer.  A steer    *)
(* only follows a first JOIN, and that one's ROOM_STATE is always whole.   *)
JoinAnswer ==
  /\ handler.step \in {"read", "reread", "answer"}
  /\ LET since == session[handler.client].last
         list == IF cache.list = {} THEN <<>> ELSE <<PlaylistFrame(cache.list)>>
         steer == IF handler.showing # None /\ cache.cursor \notin {None, handler.showing}
                    THEN <<CursorFrame(cache.cursor, version)>> ELSE <<>> IN
     /\ Send({handler.client}, <<RoomStateFrame(since, TRUE)>> \o list \o steer)
     /\ Told({handler.client}, If(Replayable(since) /\ cache.cursor = row.cursor, "cursor") \cup
                               If(cache.list # {} /\ cache.list = row.list, "list"))
  /\ handler' = Idle
  /\ UNCHANGED <<rowVars, runtime, cache, version, cursorEvent, playing, seated, session,
                 missed>>

-----------------------------------------------------------------------------
(* BUFFER_END of a viewer whose player has stalled and goes on: it is sent *)
(* a ROOM_STATE again, of what the daemon holds and with nothing to        *)
(* replay, in the middle of its session and to nobody else.                *)

\* Mutant: it is sent the version there was when the stall began.
BufferEndKept(c) ==
  /\ Free
  /\ c \in seated
  /\ \E id \in 0..version : Send({c}, <<[RoomStateFrame(0, FALSE) EXCEPT !.id = id]>>)
  /\ Told({c}, If(cache.cursor = row.cursor, "cursor"))
  /\ UNCHANGED <<rowVars, daemonVars, session, missed>>

BufferEnd(c) ==
  /\ Free
  /\ c \in seated
  /\ Send({c}, <<RoomStateFrame(0, FALSE)>>)
  /\ Told({c}, If(cache.cursor = row.cursor, "cursor"))
  /\ UNCHANGED <<rowVars, daemonVars, session, missed>>

-----------------------------------------------------------------------------
(* The owner's requests: each commits and puts a call on its way.          *)

Call(kind) ==
  /\ calls[kind] < MaxCalls
  /\ calls' = [calls EXCEPT ![kind] = @ + 1]

Unmoved == UNCHANGED <<runtime, cache, version, cursorEvent, playing, handler, seated,
                       chan, session, missed>>

OwnerSetCursor(v) ==
  /\ v \in row.list
  /\ Commit({[row EXCEPT !.cursor = v]})
  /\ Call("cursor_change")
  /\ UNCHANGED untold
  /\ Unmoved

(* addPlaylistEntry; a patch of an entry leaves the set as it is.          *)
OwnerAdd(v) ==
  /\ Commit(MergeOutcomes({v}))
  /\ Call("playlist_update")
  /\ UNCHANGED untold
  /\ Unmoved

OwnerUpdate(v) ==
  /\ v \in row.list
  /\ Commit({row})
  /\ Call("playlist_update")
  /\ UNCHANGED untold
  /\ Unmoved

OwnerRemove(v) ==
  /\ row.mode # "single"
  /\ v \in row.list
  /\ v # row.cursor
  /\ Commit({[row EXCEPT !.list = @ \ {v}]})
  /\ Call("playlist_update")
  /\ UNCHANGED untold
  /\ Unmoved

(* clearPlaylist moves the cursor too, and announces only the playlist.    *)
OwnerClear ==
  /\ row.mode # "single"
  /\ Commit({[row EXCEPT !.list = {}, !.cursor = None]})
  /\ Call("playlist_update")
  /\ Untell(If(row.cursor # None, "cursor"))
  /\ Unmoved

(* settings                                                                *)
OwnerMode(mode) ==
  /\ Commit({[row EXCEPT !.mode = mode]})
  /\ Call("room_state")
  /\ UNCHANGED untold
  /\ Unmoved

Arrive(kind) ==
  /\ Free
  /\ calls[kind] > 0
  /\ calls' = [calls EXCEPT ![kind] = @ - 1]

(* A call that finds no runtime, or no cursor to announce, says nothing,   *)
(* and neither does one about the mode.                                    *)
CallUnheard(kind) ==
  /\ Arrive(kind)
  /\ ~runtime \/ kind = "room_state" \/ (kind = "cursor_change" /\ row.cursor = None)
  /\ IF runtime THEN cache' = row /\ missed' = FALSE ELSE UNCHANGED <<cache, missed>>
  /\ UNCHANGED <<row, commits, runtime, version, cursorEvent, playing, handler, seated,
                 chan, session, untold>>

\* Mutant: a cleared cursor is announced too.
CursorCallAlways ==
  /\ Arrive("cursor_change")
  /\ runtime
  /\ cache' = row
  /\ missed' = FALSE
  /\ EpisodeReset
  /\ Send(seated, <<CursorFrame(row.cursor, version')>>)
  /\ Told(seated, {"cursor"})
  /\ UNCHANGED <<row, commits, runtime, handler, seated, session>>

\* Mutant: nothing is announced when the cached cursor is already there.
CursorCallIfMoved ==
  /\ Arrive("cursor_change")
  /\ runtime
  /\ row.cursor # None
  /\ cache' = row
  /\ missed' = FALSE
  /\ \/ /\ cache.cursor # row.cursor
        /\ EpisodeReset
        /\ Send(seated, <<CursorFrame(row.cursor, version')>>)
        /\ Told(seated, {"cursor"})
     \/ /\ cache.cursor = row.cursor
        /\ UNCHANGED <<version, cursorEvent, playing, chan, untold>>
  /\ UNCHANGED <<row, commits, runtime, handler, seated, session>>

CursorCall ==
  /\ Arrive("cursor_change")
  /\ runtime
  /\ row.cursor # None
  /\ cache' = row
  /\ missed' = FALSE
  /\ EpisodeReset
  /\ Send(seated, <<CursorFrame(row.cursor, version')>>)
  /\ Told(seated, {"cursor"})
  /\ UNCHANGED <<row, commits, runtime, handler, seated, session>>

PlaylistCall ==
  /\ Arrive("playlist_update")
  /\ runtime
  /\ cache' = row
  /\ missed' = FALSE
  /\ Send(seated, <<PlaylistFrame(row.list)>>)
  /\ Told(seated, {"list"})
  /\ UNCHANGED <<row, commits, runtime, version, cursorEvent, playing, handler, seated,
                 session>>

(* AdminRoomBroadcastClient logs a failed call and goes on.                *)
CallLost(kind) ==
  /\ calls[kind] > 0
  /\ calls' = [calls EXCEPT ![kind] = @ - 1]
  /\ missed' = runtime
  /\ Untell(If(kind = "cursor_change", "cursor") \cup If(kind = "playlist_update", "list"))
  /\ UNCHANGED <<row, commits, daemonVars, chan, session>>

-----------------------------------------------------------------------------
(* A viewer takes a frame: applyRoomState, applyState, applyCursorChange,  *)
(* applyPlaylistUpdate.  A ROOM_STATE sets the version, lower or not.      *)

Later(s, frame) == IF s.last < frame.id THEN frame.id ELSE s.last

\* Mutant: a cursor change does not count as seen.
FoldedStateOnly(s, frame) ==
  CASE frame.type = "ROOM_STATE" ->
         IF frame.whole THEN [s EXCEPT !.last = frame.id, !.cursor = frame.cursor,
                                       !.playing = frame.playing, !.behind = FALSE]
                        ELSE [s EXCEPT !.behind = TRUE]
    [] frame.type = "STATE" ->
         [s EXCEPT !.last = Later(s, frame), !.playing = frame.playing, !.behind = FALSE]
    [] frame.type = "CURSOR_CHANGE" -> [s EXCEPT !.cursor = frame.cursor, !.behind = FALSE]
    [] frame.type = "PLAYLIST_UPDATE" -> [s EXCEPT !.list = frame.list]

Folded(s, frame) ==
  CASE frame.type = "ROOM_STATE" ->
         IF frame.whole THEN [s EXCEPT !.last = frame.id, !.cursor = frame.cursor,
                                       !.playing = frame.playing, !.behind = FALSE]
                        ELSE [s EXCEPT !.behind = TRUE]
    [] frame.type = "STATE" ->
         [s EXCEPT !.last = Later(s, frame), !.playing = frame.playing, !.behind = FALSE]
    [] frame.type = "CURSOR_CHANGE" ->
         [s EXCEPT !.last = Later(s, frame), !.cursor = frame.cursor, !.behind = FALSE]
    [] frame.type = "PLAYLIST_UPDATE" -> [s EXCEPT !.list = frame.list]

Deliver(c) ==
  /\ chan[c] # <<>>
  /\ session' = [session EXCEPT ![c] = Folded(@, Head(chan[c]))]
  /\ chan' = [chan EXCEPT ![c] = Tail(@)]
  /\ UNCHANGED <<rowVars, daemonVars, untold, missed>>

(* The socket closes: the session stays for a reconnect, or the tab goes.  *)
Leave(c) ==
  /\ handler = Idle
  /\ c \in seated
  /\ seated' = seated \ {c}
  /\ chan' = [chan EXCEPT ![c] = <<>>]
  /\ untold' = [untold EXCEPT ![c] = {}]
  /\ session' \in {session, [session EXCEPT ![c] = NewSession]}
  /\ UNCHANGED <<rowVars, runtime, cache, version, cursorEvent, playing, handler, missed>>

(* The daemon stops, in the middle of a handler or not, and starts empty.  *)
Restart ==
  /\ runtime' = FALSE
  /\ cache' = NoRow
  /\ version' = 0
  /\ cursorEvent' = 0
  /\ playing' = FALSE
  /\ handler' = Idle
  /\ seated' = {}
  /\ chan' = [c \in Clients |-> <<>>]
  /\ untold' = [c \in Clients |-> {}]
  /\ missed' = FALSE
  /\ UNCHANGED <<rowVars, session>>

Handle ==
  \/ AnnounceCursor
  \/ AnnouncePlaylist
  \/ JoinReread
  \/ JoinSeed
  \/ JoinMove
  \/ JoinMoveRefused
  \/ JoinAnswer

Next ==
  \/ \E c \in Clients, event \in {"play", "pause", "seek"} : EventFrame(c, event)
  \/ \E event \in {"play", "pause", "seek"} : OwnerPlayback(event)
  \/ OwnerReset
  \/ \E v \in Videos : RequestCursor(v)
  \/ \E videos \in SUBSET Videos : SendPlaylist(videos)
  \/ \E c \in Clients, showing \in Videos \cup {None} : JoinRead(c, showing)
  \/ \E videos \in SUBSET Videos \ {{}} : JoinMerge(videos)
  \/ Handle
  \/ \E c \in Clients : BufferEnd(c)
  \/ \E v \in Videos : OwnerSetCursor(v) \/ OwnerAdd(v) \/ OwnerUpdate(v) \/ OwnerRemove(v)
  \/ OwnerClear
  \/ \E mode \in Modes : OwnerMode(mode)
  \/ \E kind \in Kinds : CallUnheard(kind) \/ CallLost(kind)
  \/ CursorCall
  \/ PlaylistCall
  \/ \E c \in Clients : Deliver(c) \/ Leave(c)
  \/ Restart

Spec == Init /\ [][Next]_vars

(* The daemon ends what it began, and what was sent is taken.              *)
Fairness == WF_vars(Handle) /\ \A c \in Clients : WF_vars(Deliver(c))

FairSpec == Spec /\ Fairness

-----------------------------------------------------------------------------
(* Safety.                                                                 *)

\* Nothing is under way between the row and the daemon.
Quiet == handler = Idle /\ \A kind \in Kinds : calls[kind] = 0

\* The client has taken everything it was sent.
Drained(c) == c \in seated /\ chan[c] = <<>>

\* A seated viewer that has taken everything has seen the room's version:
\* no broadcast skips anyone, the sender and a client that has just joined
\* included (activeConnectionsExcept(null), the echo, ROOM_STATE); but for
\* one whose ROOM_STATE was not decoded, until the next version comes.
CaughtUp ==
  handler = Idle =>
    \A c \in Clients : Drained(c) /\ ~session[c].behind => session[c].last = version

\* When all is quiet the viewers hold the row's cursor and playlist, in
\* whatever order the viewers' requests and the owner's met; but for what
\* the code announces to nobody: the writes of a JOIN, the cursor of
\* clearAll, a lost call, a playlist found empty on a rejoin, the cursor of
\* a ROOM_STATE that is not decoded.
RoomAgrees ==
  Quiet => \A c \in Clients : Drained(c) =>
    /\ "cursor" \notin untold[c] => session[c].cursor = row.cursor
    /\ "list" \notin untold[c] => session[c].list = row.list

\* When all is quiet the daemon's copy is the row, even after a JOIN whose
\* seed failed half way, unless a call was lost and nothing was read since.
CacheFresh == Quiet /\ runtime /\ ~missed => cache = row

\* The client has taken the answer to its JOIN: until then what it holds is
\* of an earlier seat.
AnswersJoin(frame) == frame.type = "ROOM_STATE" /\ frame.join

Answered(c) == c \in seated /\ handler.client # c /\
               \A n \in DOMAIN chan[c] : ~AnswersJoin(chan[c][n])

\* The viewers' versions are a timeline: see Timeline.

Line == INSTANCE Timeline WITH
  Viewers <- Clients, Away <- None,
  seen <- [c \in Clients |-> IF Answered(c) THEN session[c].last ELSE None]

\* What a seated viewer has seen never goes back and never runs ahead of the
\* room, across reconnects with an old watermark, restarts of the daemon and
\* the ROOM_STATEs of BUFFER_END, which a session takes for another answer to
\* its JOIN: it sets its version to theirs whatever it has seen by then.
KeepsTimeline == Line!Spec

\* The row as the viewers see it: see RoomRow.
ViewersRow == INSTANCE RoomRow WITH
  list <- row.list, cursor <- row.cursor,
  modes <- {row.mode} \ {"default"}

\* Whatever the handlers and the owner's requests do in between, the row only
\* changes as a transaction of the store may change it.
KeepsRow == ViewersRow!Spec

(* Liveness, under Fairness.                                               *)

\* Whatever version the room reaches, each seated viewer gets there or the
\* socket closes, or its ROOM_STATE was not decoded.
VersionsArrive ==
  \A c \in Clients, n \in 1..MaxVersion :
    (c \in seated /\ version >= n) ~>
    (c \notin seated \/ (Answered(c) /\ (session[c].last >= n \/ session[c].behind)))

(* What the repository says and the code does not do.                      *)

\* "rather than rejecting the whole ROOM_STATE, which would break sync
\* entirely" (protocol.ts, decodeRoomState), and "clients only know how to
\* apply playback events on reconnect" (RoomRuntime.php, recentEventsSince):
\* a viewer is never left behind the room by what the room replays to it.
RejoinsCatchUp == \A c \in Clients : ~session[c].behind

\* "that reset reaches the tab through the normal convergence path ... or a
\* follow-up STATE frame" (session.ts, applyCursorChange): when all is quiet
\* the viewers hold the room's playerState.
ResetArrives ==
  Quiet => \A c \in Clients : Drained(c) => session[c].playing = playing
=============================================================================
