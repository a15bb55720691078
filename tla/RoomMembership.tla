--------------------------- MODULE RoomMembership ---------------------------
(***************************************************************************)
(* Who is in a room.  One room of the WebSocket daemon (lib/WebSocket):    *)
(* its sockets, the ConnectionContext the router keeps for each, the       *)
(* ClientConnection records of the RoomRuntime, the kick blocks, and the   *)
(* room's database row as far as JOIN and the tick look at it.             *)
(*                                                                         *)
(* The daemon is one React event loop: a handler, a timer callback or a    *)
(* close callback runs to its end before the next one, so each of them is  *)
(* one action.  What interleaves are the callbacks themselves, the peers,  *)
(* the HTTP side (which deletes the row and calls the admin port) and the  *)
(* passing of time.                                                        *)
(*                                                                         *)
(* Deadlines are kept as what is left of them: the code's                  *)
(* "until <= nowMs" is "left = 0" here, so no clock value is needed and    *)
(* the state space is finite without a bound on the length of a run.       *)
(*                                                                         *)
(* conn->close() does not call onClose: the socket first drains its write  *)
(* buffer.  Until then it is "closing": it delivers no more frames, sends  *)
(* to it are dropped, and its onClose is still to come.                    *)
(***************************************************************************)
EXTENDS Naturals, FiniteSets

CONSTANTS
  Conns,           \* the sockets that may be open at the same time
  Ids,             \* clientIds
  NoId,            \* no clientId: a JOIN without one, a context before its JOIN
  NoConn,          \* ClientConnection.conn = null
  Absent,          \* the runtime has no record under this id
  None,            \* tombstonedUntilMs = null, and "no ERROR was sent"
  TombstoneTicks,  \* ws_tombstone_ms
  KickBlockTicks,  \* ws_kick_block_ms
  IdleTicks,       \* ws_idle_close_ms
  JoinTicks,       \* ws_join_timeout_ms
  PromptClose      \* TRUE: a closing socket drains before time passes

ASSUME SentinelsAssumption ==
  /\ NoId \notin Ids
  /\ NoConn \notin Conns
  /\ None \notin Nat
  /\ Absent \notin [conn : Conns \cup {NoConn},
                    tombstone : (0..TombstoneTicks) \cup {None},
                    silence : 0..IdleTicks]

\* The settings page accepts 0 for each of these (AdminSettingsController
\* INT_RULES); the guarantees below need the kick block to be positive.
ASSUME TicksAssumption ==
  /\ TombstoneTicks \in Nat
  /\ KickBlockTicks \in Nat \ {0}
  /\ IdleTicks \in Nat
  /\ JoinTicks \in Nat
  /\ PromptClose \in BOOLEAN

VARIABLES
  row,         \* the room's row: "present" or "gone"
  expired,     \* the row's expiresAt has passed
  notify,      \* the HTTP side's destroy call: "idle" or "sent"
  runtime,     \* the registry holds a RoomRuntime for the room
  sock,        \* state of each socket
  ctx,         \* ConnectionContext.clientId; NoId until joined
  joinLeft,    \* what is left of the join timer
  error,       \* the ERROR code sent before the socket was closed
  clients,     \* RoomRuntime.clients
  blocks       \* RoomRuntime.kickBlocks: what is left, 0 when not blocked

roomVars == <<row, expired, notify>>
sockVars == <<sock, ctx, joinLeft, error>>
vars == <<row, expired, notify, runtime, sock, ctx, joinLeft, error, clients, blocks>>

(* A record: conn, what is left of its tombstone (None: not a tombstone)   *)
(* and for how long nothing was heard from it, counted up to IdleTicks.    *)
Client == [conn : Conns \cup {NoConn},
           tombstone : (0..TombstoneTicks) \cup {None},
           silence : 0..IdleTicks]

Codes == {"ROOM_NOT_FOUND", "ROOM_EXPIRED", "ROOM_DELETED", "AUTH_FAILED", "KICKED",
          "CLIENT_ID_IN_USE", "JOIN_TIMEOUT", "NOT_JOINED"}

(* The daemon's memory types and the row's.                                *)
TypeOK ==
  /\ row \in {"present", "gone"}
  /\ expired \in BOOLEAN
  /\ notify \in {"idle", "sent"}
  /\ runtime \in BOOLEAN
  /\ sock \in [Conns -> {"closed", "open", "closing"}]
  /\ ctx \in [Conns -> Ids \cup {NoId}]
  /\ joinLeft \in [Conns -> 0..JoinTicks]
  /\ error \in [Conns -> Codes \cup {None}]
  /\ clients \in [Ids -> Client \cup {Absent}]
  /\ blocks \in [Ids -> 0..KickBlockTicks]

NoClients == [i \in Ids |-> Absent]
NoBlocks == [i \in Ids |-> 0]

(* The room was created over HTTP; the daemon has not seen it yet.         *)
Init ==
  /\ row = "present"
  /\ expired = FALSE
  /\ notify = "idle"
  /\ runtime = FALSE
  /\ sock = [c \in Conns |-> "closed"]
  /\ ctx = [c \in Conns |-> NoId]
  /\ joinLeft = [c \in Conns |-> 0]
  /\ error = [c \in Conns |-> None]
  /\ clients = NoClients
  /\ blocks = NoBlocks

-----------------------------------------------------------------------------
(* Records.                                                                *)

IsMember(i) == clients[i] # Absent
HasSocket(i) == IsMember(i) /\ clients[i].conn # NoConn
IsTombstone(i) == IsMember(i) /\ clients[i].tombstone # None
\* Mutant: a live record is taken over like a tombstone.
IsTombstonedOrLive(i) == IsMember(i)

IsTombstoned(i) == IsTombstone(i) /\ clients[i].tombstone # 0

\* Mutant: the deadline is not looked at.
IsAnyTombstone(i) == IsTombstone(i)

IsExpiredTombstone(i) == IsTombstone(i) /\ clients[i].tombstone = 0

\* Mutant: > for >= in the idle check.
IsIdleLater(i) == HasSocket(i) /\ clients[i].silence > IdleTicks

IsIdle(i) == HasSocket(i) /\ clients[i].silence = IdleTicks

NewClient(c) == [conn |-> c, tombstone |-> None, silence |-> 0]

\* Mutant: the reattached record keeps its tombstone.
ReattachedTombstone(i, c) == [clients[i] EXCEPT !.conn = c, !.silence = 0]

Reattached(i, c) == [clients[i] EXCEPT !.conn = c, !.tombstone = None, !.silence = 0]

\* Mutant: the tombstone gets the kick block's length.
TombstonedForBlock(i) == [clients[i] EXCEPT !.conn = NoConn, !.tombstone = KickBlockTicks]

Tombstoned(i) == [clients[i] EXCEPT !.conn = NoConn, !.tombstone = TombstoneTicks]

MarkSeen(i) == clients' = [clients EXCEPT ![i].silence = 0]

(* send(ERROR) and close() on the sockets in S: a socket already closing   *)
(* drops both.                                                             *)
CloseAll(S, code) ==
  LET hit == {c \in S : sock[c] = "open"} IN
  /\ sock' = [c \in Conns |-> IF c \in hit THEN "closing" ELSE sock[c]]
  /\ error' = [c \in Conns |-> IF c \in hit THEN code ELSE error[c]]
  /\ UNCHANGED <<ctx, joinLeft>>

(* A MessageException with closeAfter, as onMessage handles it.            *)
Reject(c, code) ==
  /\ CloseAll({c}, code)
  /\ UNCHANGED <<roomVars, runtime, clients, blocks>>

MemberSockets == {clients[i].conn : i \in {j \in Ids : HasSocket(j)}}

-----------------------------------------------------------------------------
(* Socket callbacks of the MessageRouter.                                  *)

(* onOpen: a malformed room UUID gets no context and is closed at once; a  *)
(* good one gets a context and a join timer.                               *)
Open(c) ==
  /\ sock[c] = "closed"
  /\ ctx' = [ctx EXCEPT ![c] = NoId]
  /\ \/ /\ sock' = [sock EXCEPT ![c] = "open"]
        /\ error' = [error EXCEPT ![c] = None]
        /\ joinLeft' = [joinLeft EXCEPT ![c] = JoinTicks]
     \/ /\ sock' = [sock EXCEPT ![c] = "closing"]
        /\ error' = [error EXCEPT ![c] = "ROOM_NOT_FOUND"]
        /\ joinLeft' = [joinLeft EXCEPT ![c] = 0]
  /\ UNCHANGED <<roomVars, runtime, clients, blocks>>

\* Mutant: the timer looks the room up first.
JoinTimeoutInRoom(c) ==
  /\ sock[c] = "open"
  /\ ctx[c] = NoId
  /\ joinLeft[c] = 0
  /\ runtime
  /\ Reject(c, "JOIN_TIMEOUT")

(* The join timer: closes a socket whose context is still not joined.      *)
JoinTimeout(c) ==
  /\ sock[c] = "open"
  /\ ctx[c] = NoId
  /\ joinLeft[c] = 0
  /\ Reject(c, "JOIN_TIMEOUT")

(* onError closes the socket and says nothing.                             *)
SocketError(c) ==
  /\ sock[c] = "open"
  /\ CloseAll({c}, None)
  /\ UNCHANGED <<roomVars, runtime, clients, blocks>>

\* Mutant: the record is removed at once, without its grace.
OnCloseForgets(c) ==
  /\ sock[c] # "closed"
  /\ sock' = [sock EXCEPT ![c] = "closed"]
  /\ ctx' = [ctx EXCEPT ![c] = NoId]
  /\ joinLeft' = [joinLeft EXCEPT ![c] = 0]
  /\ error' = [error EXCEPT ![c] = None]
  /\ clients' = IF ctx[c] # NoId /\ runtime THEN [clients EXCEPT ![ctx[c]] = Absent]
                                           ELSE clients
  /\ UNCHANGED <<roomVars, runtime, blocks>>

(* onClose, for a socket the peer hung up or one that has drained: the     *)
(* record found under the context's id is tombstoned.                      *)
OnClose(c) ==
  /\ sock[c] # "closed"
  /\ sock' = [sock EXCEPT ![c] = "closed"]
  /\ ctx' = [ctx EXCEPT ![c] = NoId]
  /\ joinLeft' = [joinLeft EXCEPT ![c] = 0]
  /\ error' = [error EXCEPT ![c] = None]
  /\ clients' = IF ctx[c] # NoId /\ runtime /\ IsMember(ctx[c])
                  THEN [clients EXCEPT ![ctx[c]] = Tombstoned(ctx[c])]
                  ELSE clients
  /\ UNCHANGED <<roomVars, runtime, blocks>>

-----------------------------------------------------------------------------
(* JOIN.                                                                   *)

\* Mutant: JOIN does not look at the kick blocks.
NeverBlocked(i) == FALSE

(* getOrCreate: an old runtime keeps its records, a new one has none.      *)
Blocked(i) == runtime /\ blocks[i] # 0

(* bin2hex(random_bytes(16)): an id nobody in the daemon knows.            *)
FreshIds == {i \in Ids : /\ ~IsMember(i)
                         /\ blocks[i] = 0
                         /\ \A c \in Conns : ctx[c] # i}

(* The JOIN is accepted and the context bound to the record.               *)
Admit(c, i, client) ==
  /\ runtime' = TRUE
  /\ clients' = [clients EXCEPT ![i] = client]
  /\ ctx' = [ctx EXCEPT ![c] = i]
  /\ joinLeft' = [joinLeft EXCEPT ![c] = 0]
  /\ UNCHANGED <<roomVars, sock, error, blocks>>

(* getOrCreate runs before reattachOrCreateClient can refuse the JOIN.     *)
Refuse(c, code) ==
  /\ runtime' = TRUE
  /\ CloseAll({c}, code)
  /\ UNCHANGED <<roomVars, clients, blocks>>

(* A second JOIN on a socket is answered ALREADY_JOINED and changes        *)
(* nothing, so the guard leaves it out.                                    *)
Join(c, want, pwOk) ==
  /\ sock[c] = "open"
  /\ ctx[c] = NoId
  /\ \/ row = "gone" /\ Reject(c, "ROOM_NOT_FOUND")
     \/ row = "present" /\ expired /\ Reject(c, "ROOM_EXPIRED")
     \/ row = "present" /\ ~expired /\ ~pwOk /\ Reject(c, "AUTH_FAILED")
     \/ /\ row = "present" /\ ~expired /\ pwOk
        /\ \/ /\ want = NoId
              /\ \E i \in FreshIds : Admit(c, i, NewClient(c))
           \/ want # NoId /\ Blocked(want) /\ Refuse(c, "KICKED")
           \/ /\ want # NoId /\ ~Blocked(want) /\ IsTombstoned(want)
              /\ Admit(c, want, Reattached(want, c))
           \/ /\ want # NoId /\ ~Blocked(want) /\ IsMember(want) /\ ~IsTombstoned(want)
              /\ Refuse(c, "CLIENT_ID_IN_USE")
           \/ /\ want # NoId /\ ~Blocked(want) /\ ~IsMember(want)
              /\ Admit(c, want, NewClient(c))

-----------------------------------------------------------------------------
(* Frames of a joined peer, as far as they touch its record.  A frame that *)
(* is rate-limited or otherwise refused without a close changes nothing.   *)

NotJoined(c) == ctx[c] = NoId /\ Reject(c, "NOT_JOINED")
RoomGone(c) == ctx[c] # NoId /\ ~runtime /\ Reject(c, "ROOM_NOT_FOUND")
Seen(i) == MarkSeen(i) /\ UNCHANGED <<roomVars, runtime, sockVars, blocks>>

(* EVENT: the record must have a socket.                                   *)
EventFrame(c) ==
  /\ sock[c] = "open"
  /\ \/ NotJoined(c)
     \/ RoomGone(c)
     \/ ctx[c] # NoId /\ runtime /\ ~HasSocket(ctx[c]) /\ Reject(c, "NOT_JOINED")
     \/ ctx[c] # NoId /\ runtime /\ HasSocket(ctx[c]) /\ Seen(ctx[c])

(* CURSOR_CHANGE_REQUEST and PLAYLIST_UPDATE go through the row as well.   *)
EditFrame(c) ==
  /\ sock[c] = "open"
  /\ \/ NotJoined(c)
     \/ RoomGone(c)
     \/ ctx[c] # NoId /\ runtime /\ ~HasSocket(ctx[c]) /\ Reject(c, "NOT_JOINED")
     \/ /\ ctx[c] # NoId /\ runtime /\ HasSocket(ctx[c])
        /\ row = "gone" /\ Reject(c, "ROOM_NOT_FOUND")
     \/ /\ ctx[c] # NoId /\ runtime /\ HasSocket(ctx[c])
        /\ row = "present" /\ Seen(ctx[c])

(* BUFFER_START and BUFFER_END ask only for a record.                      *)
BufferFrame(c) ==
  /\ sock[c] = "open"
  /\ \/ NotJoined(c)
     \/ RoomGone(c)
     \/ ctx[c] # NoId /\ runtime /\ ~IsMember(ctx[c]) /\ Reject(c, "NOT_JOINED")
     \/ ctx[c] # NoId /\ runtime /\ IsMember(ctx[c]) /\ Seen(ctx[c])

(* HEARTBEAT without a room or a record is dropped without an answer.      *)
Heartbeat(c) ==
  /\ sock[c] = "open"
  /\ \/ NotJoined(c)
     \/ ctx[c] # NoId /\ runtime /\ IsMember(ctx[c]) /\ Seen(ctx[c])

-----------------------------------------------------------------------------
(* The admin port, the tick, time and restarts.                            *)

(* POST .../clients/{id}/disconnect                                        *)
Kick(i) ==
  /\ runtime
  /\ IsMember(i)
  /\ CloseAll({clients[i].conn} \ {NoConn}, "KICKED")
  /\ clients' = [clients EXCEPT ![i] = Absent]
  /\ blocks' = [blocks EXCEPT ![i] = KickBlockTicks]
  /\ UNCHANGED <<roomVars, runtime>>

\* Mutant: the runtime goes and its sockets stay.
DropRuntimeOnly(code) ==
  /\ CloseAll({}, code)
  /\ runtime' = FALSE
  /\ clients' = NoClients
  /\ blocks' = NoBlocks

(* Closing every member's socket and dropping the runtime.                 *)
DropRuntime(code) ==
  /\ CloseAll(MemberSockets, code)
  /\ runtime' = FALSE
  /\ clients' = NoClients
  /\ blocks' = NoBlocks

\* Mutant: the tick skips a room nobody is connected to.
TickInhabited ==
  /\ runtime
  /\ MemberSockets # {}
  /\ \/ expired /\ DropRuntime("ROOM_EXPIRED")
     \/ /\ ~expired
        /\ CloseAll({clients[i].conn : i \in {j \in Ids : IsIdle(j)}}, None)
        /\ clients' = [i \in Ids |-> IF IsExpiredTombstone(i) THEN Absent ELSE clients[i]]
        /\ UNCHANGED <<runtime, blocks>>
  /\ UNCHANGED roomVars

(* One pass of the 1 s tick over the room.                                 *)
Tick ==
  /\ runtime
  /\ \/ expired /\ DropRuntime("ROOM_EXPIRED")
     \/ /\ ~expired
        /\ CloseAll({clients[i].conn : i \in {j \in Ids : IsIdle(j)}}, None)
        /\ clients' = [i \in Ids |-> IF IsExpiredTombstone(i) THEN Absent ELSE clients[i]]
        /\ UNCHANGED <<runtime, blocks>>
  /\ UNCHANGED roomVars

(* The owner deletes the room: the row first, then one best-effort call to *)
(* the daemon.  getOwnedRoom hides a room that has expired.                *)
DeleteRoom ==
  /\ row = "present" /\ ~expired
  /\ row' = "gone"
  /\ notify' = "sent"
  /\ UNCHANGED <<expired, runtime, sockVars, clients, blocks>>

(* The call arrives, or it does not.                                       *)
Destroy ==
  /\ notify = "sent"
  /\ notify' = "idle"
  /\ IF runtime THEN DropRuntime("ROOM_DELETED")
                ELSE UNCHANGED <<runtime, sockVars, clients, blocks>>
  /\ UNCHANGED <<row, expired>>

DestroyLost ==
  /\ notify = "sent"
  /\ notify' = "idle"
  /\ UNCHANGED <<row, expired, runtime, sockVars, clients, blocks>>

(* PruneExpiredRoomsJob.                                                   *)
PruneRow ==
  /\ row = "present" /\ expired
  /\ row' = "gone"
  /\ UNCHANGED <<expired, notify, runtime, sockVars, clients, blocks>>

Expire ==
  /\ ~expired
  /\ expired' = TRUE
  /\ UNCHANGED <<row, notify, runtime, sockVars, clients, blocks>>

Less(n) == IF n = 0 THEN 0 ELSE n - 1

Aged(client) ==
  [client EXCEPT !.tombstone = IF @ = None THEN None ELSE Less(@),
                 !.silence = IF @ = IdleTicks THEN @ ELSE @ + 1]

(* One unit of time.  A block that has run out is the same as none.        *)
Advance ==
  /\ PromptClose => \A c \in Conns : sock[c] # "closing"
  /\ joinLeft' = [c \in Conns |-> Less(joinLeft[c])]
  /\ blocks' = [i \in Ids |-> Less(blocks[i])]
  /\ clients' = [i \in Ids |-> IF IsMember(i) THEN Aged(clients[i]) ELSE Absent]
  /\ UNCHANGED <<roomVars, runtime, sock, ctx, error>>

(* The daemon stops and starts again: it keeps nothing, kick blocks        *)
(* included, and the peers see their sockets go.                           *)
Restart ==
  /\ runtime' = FALSE
  /\ clients' = NoClients
  /\ blocks' = NoBlocks
  /\ sock' = [c \in Conns |-> "closed"]
  /\ ctx' = [c \in Conns |-> NoId]
  /\ joinLeft' = [c \in Conns |-> 0]
  /\ error' = [c \in Conns |-> None]
  /\ UNCHANGED roomVars

SocketNext(c) ==
  \/ Open(c)
  \/ JoinTimeout(c)
  \/ SocketError(c)
  \/ OnClose(c)
  \/ \E want \in Ids \cup {NoId}, pwOk \in BOOLEAN : Join(c, want, pwOk)
  \/ EventFrame(c)
  \/ EditFrame(c)
  \/ BufferFrame(c)
  \/ Heartbeat(c)

Next ==
  \/ \E c \in Conns : SocketNext(c)
  \/ \E i \in Ids : Kick(i)
  \/ Tick
  \/ DeleteRoom
  \/ Destroy
  \/ DestroyLost
  \/ PruneRow
  \/ Expire
  \/ Advance
  \/ Restart

Spec == Init /\ [][Next]_vars

(* What runs without anybody's doing: sockets drain, timers fire, the tick *)
(* comes round, and time passes for ever, however many sockets come and go *)
(* between two units of it.                                                *)
Fairness ==
  /\ \A c \in Conns : WF_vars(sock[c] = "closing" /\ OnClose(c))
  /\ \A c \in Conns : WF_vars(JoinTimeout(c))
  /\ WF_vars(Tick)
  /\ []<><<Advance>>_vars

FairSpec == Spec /\ Fairness

-----------------------------------------------------------------------------
(* Safety, whatever the time a socket takes to drain.                      *)

\* A record either names a socket that is not yet gone and whose context
\* names the record, or it is a tombstone (ClientConnection::tombstone and
\* reattach keep conn and tombstonedUntilMs opposite; no record keeps a
\* socket whose onClose has run); without a runtime there is no record.
SocketBacksRecord ==
  /\ ~runtime => clients = NoClients /\ blocks = NoBlocks
  /\ \A i \in Ids : IsMember(i) =>
       /\ clients[i].conn = NoConn <=> clients[i].tombstone # None
       /\ HasSocket(i) => sock[clients[i].conn] # "closed" /\ ctx[clients[i].conn] = i

\* A record is not dropped while its grace runs, unless the owner kicks the
\* client or the room itself goes: whoever returns in time finds its place
\* (MessageRouter::onClose, Tick::runOnce, RoomRuntime::pruneExpiredTombstones).
GraceHonoured ==
  [][\A i \in Ids : IsTombstoned(i) /\ ~IsMember(i)' => blocks'[i] # 0 \/ ~runtime']_vars

(* Safety when sockets drain before any time passes (PromptClose).         *)

\* Whoever the daemon listens to is seated: an open socket that joined is
\* the socket of the record its context names.  So two sockets never share
\* a clientId, a tombstone means that the socket is gone, and with the
\* runtime gone every joined socket is on its way out.
OpenMeansMember ==
  \A c \in Conns : sock[c] = "open" /\ ctx[c] # NoId =>
    runtime /\ IsMember(ctx[c]) /\ clients[ctx[c]].conn = c

\* While a kick block runs the id has no record and no open socket speaks
\* for it (RoomRuntime::kickClient, isClientBlocked).
KickedStaysOut ==
  \A i \in Ids : blocks[i] # 0 =>
    /\ ~IsMember(i)
    /\ \A c \in Conns : sock[c] = "open" => ctx[c] # i

\* The room keeps what Seats promises.
SeatOf(i) ==
  IF blocks[i] # 0 THEN "banned"
  ELSE IF ~IsMember(i) THEN "out"
  ELSE IF HasSocket(i) THEN "in" ELSE "away"

SpeakersOf(i) == {c \in Conns : sock[c] = "open" /\ ctx[c] = i}

Promise == INSTANCE Seats WITH
  seat <- [i \in Ids |-> SeatOf(i)],
  speakers <- [i \in Ids |-> SpeakersOf(i)]

\* Every step of the daemon is a step Seats allows: viewers come, go silent,
\* leave, are banned and pardoned one by one, and only in those ways.
KeepsSeats == Promise!Spec

(* Liveness, under Fairness.                                               *)

\* A socket that never joins does not stay (the join timer).
JoinOrClose ==
  \A c \in Conns : (sock[c] = "open" /\ ctx[c] = NoId) ~> ~(sock[c] = "open" /\ ctx[c] = NoId)

\* A tombstone does not stay: its viewer returns or the tick drops it.
GhostsLeave == \A i \in Ids : IsTombstone(i) ~> ~IsTombstone(i)

\* A viewer gone silent is heard again or loses its socket (the idle check).
SilentPeersLeave ==
  \A i \in Ids, c \in Conns :
    (HasSocket(i) /\ clients[i].conn = c /\ clients[i].silence = IdleTicks) ~>
      ~(HasSocket(i) /\ clients[i].conn = c /\ clients[i].silence = IdleTicks)

\* Once the TTL runs out, a room deleted or expired is in the end gone from
\* the daemon for good and nobody is left talking to it, even when the destroy
\* call was lost ("any orphaned runtime will eventually fall out via Tick's
\* TTL path", RoomService::deleteOwnedRoom).
RoomEnds ==
  <>expired => ((row = "gone" \/ expired) ~>
                  [](~runtime /\ \A c \in Conns : sock[c] = "open" => ctx[c] = NoId))

(* What the repository says and the code does not do.                      *)

\* "When tombstoned, conn is null - the previous WebSocket is gone"
\* (ClientConnection): no socket of a tombstoned client is still open.
TombstoneMeansGone ==
  \A i \in Ids, c \in Conns : IsTombstone(i) /\ sock[c] = "open" => ctx[c] # i

\* "CLIENT_ID_IN_USE: A live connection already holds this clientId"
\* (docs/ws-protocol.md): when a JOIN is refused so, another socket that
\* joined under some id is still there.
InUseMeansLive ==
  [][\A c \in Conns : error'[c] = "CLIENT_ID_IN_USE" /\ error[c] # "CLIENT_ID_IN_USE" =>
       \E d \in Conns \ {c} : sock[d] # "closed" /\ ctx[d] # NoId]_vars
=============================================================================
