------------------------ MODULE RoomMembershipProofs ------------------------
(***************************************************************************)
(* Theorems about RoomMembership, for any sockets, ids and deadlines.      *)
(***************************************************************************)
EXTENDS RoomMembership, TLAPS

-----------------------------------------------------------------------------
(* Facts the step proofs share.                                            *)

LEMMA ZeroTicks == 0 \in 0..JoinTicks /\ 0 \in 0..KickBlockTicks /\ 0 \in 0..IdleTicks
  BY TicksAssumption

\* Closing sockets touches neither contexts nor join timers and keeps types.
LEMMA CloseAllTypes ==
  ASSUME TypeOK, NEW S, NEW code \in Codes \cup {None}, CloseAll(S, code)
  PROVE  /\ sock' \in [Conns -> {"closed", "open", "closing"}]
         /\ ctx' = ctx /\ joinLeft' = joinLeft
         /\ error' \in [Conns -> Codes \cup {None}]
  BY DEF CloseAll, TypeOK

\* A socket of a closed set that was open is closing, every other is as it was.
LEMMA CloseAllSock ==
  ASSUME TypeOK, NEW S, NEW code, CloseAll(S, code)
  PROVE  \A c \in Conns :
           sock'[c] = IF c \in S /\ sock[c] = "open" THEN "closing" ELSE sock[c]
  BY DEF CloseAll, TypeOK

\* A refused frame keeps the types.
LEMMA RejectTypes ==
  ASSUME TypeOK, NEW c \in Conns, NEW code \in Codes \cup {None}, Reject(c, code)
  PROVE  TypeOK'
  <1>1. CloseAll({c}, code) BY DEF Reject
  <1>2. QED BY <1>1, CloseAllTypes DEF Reject, TypeOK, roomVars, Client

\* Hearing from a member keeps the types.
LEMMA SeenTypes ==
  ASSUME TypeOK, NEW i \in Ids, IsMember(i), Seen(i)
  PROVE  TypeOK'
  <1>1. clients[i] \in Client BY DEF TypeOK, IsMember
  <1>2. 0 \in 0..IdleTicks BY TicksAssumption
  <1>3. [clients[i] EXCEPT !.silence = 0] \in Client BY <1>1, <1>2 DEF Client
  <1>4. clients' = [clients EXCEPT ![i] = [clients[i] EXCEPT !.silence = 0]]
    BY DEF Seen, MarkSeen
  <1>5. clients' \in [Ids -> Client \cup {Absent}] BY <1>3, <1>4 DEF TypeOK
  <1>6. QED BY <1>5 DEF Seen, TypeOK, roomVars, sockVars, Client

\* Dropping the runtime keeps the types.
LEMMA DropTypes ==
  ASSUME TypeOK, NEW code \in Codes, DropRuntime(code)
  PROVE  /\ sock' \in [Conns -> {"closed", "open", "closing"}]
         /\ ctx' = ctx /\ joinLeft' = joinLeft
         /\ error' \in [Conns -> Codes \cup {None}]
         /\ runtime' = FALSE
         /\ clients' \in [Ids -> Client \cup {Absent}]
         /\ blocks' \in [Ids -> 0..KickBlockTicks]
  <1>1. CloseAll(MemberSockets, code) BY DEF DropRuntime
  <1>2. QED BY <1>1, CloseAllTypes, TicksAssumption DEF DropRuntime, NoClients, NoBlocks

\* Admitting a client with a well-formed record keeps the types.
LEMMA AdmitTypes ==
  ASSUME TypeOK, NEW c \in Conns, NEW i \in Ids, NEW client \in Client, Admit(c, i, client)
  PROVE  TypeOK'
  <1>1. 0 \in 0..JoinTicks BY TicksAssumption
  <1>2. QED BY <1>1 DEF Admit, TypeOK, roomVars, Client

\* The records a JOIN makes are well formed.
LEMMA NewRecords ==
  ASSUME TypeOK, NEW c \in Conns, NEW i \in Ids
  PROVE  /\ NewClient(c) \in Client
         /\ IsMember(i) => Reattached(i, c) \in Client /\ Tombstoned(i) \in Client
  <1>1. 0 \in 0..IdleTicks /\ TombstoneTicks \in 0..TombstoneTicks BY TicksAssumption
  <1>2. IsMember(i) => clients[i] \in Client BY DEF TypeOK, IsMember
  <1>3. QED BY <1>1, <1>2 DEF NewClient, Reattached, Tombstoned, Client

\* Growing older keeps a record well formed.
LEMMA AgedTypes ==
  ASSUME NEW client \in Client PROVE Aged(client) \in Client
  <1>1. client.tombstone # None =>
          (IF client.tombstone = 0 THEN 0 ELSE client.tombstone - 1) \in 0..TombstoneTicks
    BY TicksAssumption DEF Client
  <1>2. (IF client.silence = IdleTicks THEN client.silence ELSE client.silence + 1)
          \in 0..IdleTicks
    BY TicksAssumption DEF Client
  <1>3. QED BY <1>1, <1>2 DEF Aged, Less, Client

-----------------------------------------------------------------------------
(* Types.                                                                  *)

LEMMA JoinTypes ==
  ASSUME TypeOK, NEW c \in Conns, NEW want \in Ids \cup {NoId}, NEW pwOk \in BOOLEAN,
         Join(c, want, pwOk)
  PROVE  TypeOK'
  <1>1. CASE \E code \in Codes : Reject(c, code) BY <1>1, RejectTypes
  <1>2. CASE \E code \in Codes : Refuse(c, code)
    <2>1. PICK code \in Codes : Refuse(c, code) BY <1>2
    <2>2. CloseAll({c}, code) BY <2>1 DEF Refuse
    <2>3. QED BY <2>1, <2>2, CloseAllTypes DEF Refuse, TypeOK, roomVars, Client
  <1>3. CASE \E i \in Ids : Admit(c, i, NewClient(c)) BY <1>3, AdmitTypes, NewRecords
  <1>4. CASE want \in Ids /\ IsMember(want) /\ Admit(c, want, Reattached(want, c))
    BY <1>4, AdmitTypes, NewRecords
  <1>5. QED
    <2>1. FreshIds \subseteq Ids BY DEF FreshIds
    <2>2. QED
      BY <1>1, <1>2, <1>3, <1>4, <2>1
      DEF Join, Codes, IsTombstoned, IsTombstone

LEMMA SocketTypes ==
  ASSUME TypeOK, NEW c \in Conns, SocketNext(c)
  PROVE  TypeOK'
  <1>z. 0 \in 0..JoinTicks /\ JoinTicks \in 0..JoinTicks BY TicksAssumption
  <1>1. CASE Open(c) BY <1>1, <1>z DEF Open, TypeOK, roomVars, Client, Codes
  <1>2. CASE JoinTimeout(c) BY <1>2, RejectTypes DEF JoinTimeout, Codes
  <1>3. CASE SocketError(c)
    BY <1>3, CloseAllTypes DEF SocketError, TypeOK, roomVars, Client
  <1>4. CASE OnClose(c)
    <2>1. clients' \in [Ids -> Client \cup {Absent}]
      BY <1>4, NewRecords DEF OnClose, TypeOK
    <2>2. QED BY <1>4, <1>z, <2>1 DEF OnClose, TypeOK, roomVars, Client
  <1>5. CASE \E want \in Ids \cup {NoId}, pwOk \in BOOLEAN : Join(c, want, pwOk)
    BY <1>5, JoinTypes
  <1>6. CASE \E code \in Codes : Reject(c, code) BY <1>6, RejectTypes
  <1>7. CASE ctx[c] # NoId /\ IsMember(ctx[c]) /\ Seen(ctx[c])
    <2>1. ctx[c] \in Ids BY <1>7 DEF TypeOK
    <2>2. QED BY <1>7, <2>1, SeenTypes
  <1>8. CASE EventFrame(c) BY <1>6, <1>7, <1>8
    DEF EventFrame, NotJoined, RoomGone, Codes, HasSocket
  <1>9. CASE EditFrame(c) BY <1>6, <1>7, <1>9
    DEF EditFrame, NotJoined, RoomGone, Codes, HasSocket
  <1>10. CASE BufferFrame(c) BY <1>6, <1>7, <1>10
    DEF BufferFrame, NotJoined, RoomGone, Codes
  <1>11. CASE Heartbeat(c) BY <1>6, <1>7, <1>11 DEF Heartbeat, NotJoined, Codes
  <1>12. QED
    BY <1>1, <1>2, <1>3, <1>4, <1>5, <1>8, <1>9, <1>10, <1>11 DEF SocketNext

LEMMA StepTypes == TypeOK /\ [Next]_vars => TypeOK'
  <1> SUFFICES ASSUME TypeOK, [Next]_vars PROVE TypeOK'
    OBVIOUS
  <1>1. CASE \E c \in Conns : SocketNext(c) BY <1>1, SocketTypes
  <1>2. ASSUME NEW i \in Ids, Kick(i) PROVE TypeOK'
    <2>1. CloseAll({clients[i].conn} \ {NoConn}, "KICKED") BY <1>2 DEF Kick
    <2>2. KickBlockTicks \in 0..KickBlockTicks BY TicksAssumption
    <2>3. QED BY <1>2, <2>1, <2>2, CloseAllTypes DEF Kick, TypeOK, roomVars, Client, Codes
  <1>3. CASE Tick
    <2>1. CASE expired /\ DropRuntime("ROOM_EXPIRED")
      BY <1>3, <2>1, DropTypes DEF Tick, TypeOK, roomVars, Client, Codes
    <2>2. CASE ~expired
      <3>1. CloseAll({clients[i].conn : i \in {j \in Ids : IsIdle(j)}}, None)
        BY <1>3, <2>2 DEF Tick
      <3>2. clients' \in [Ids -> Client \cup {Absent}] BY <1>3, <2>2 DEF Tick, TypeOK
      <3>3. QED BY <1>3, <2>2, <3>1, <3>2, CloseAllTypes DEF Tick, TypeOK, roomVars, Client
    <2>3. QED BY <1>3, <2>1, <2>2 DEF Tick
  <1>4. CASE DeleteRoom BY <1>4 DEF DeleteRoom, TypeOK, sockVars, Client
  <1>5. CASE Destroy BY <1>5, DropTypes DEF Destroy, TypeOK, sockVars, Client, Codes
  <1>6. CASE DestroyLost BY <1>6 DEF DestroyLost, TypeOK, sockVars, Client
  <1>7. CASE PruneRow BY <1>7 DEF PruneRow, TypeOK, sockVars, Client
  <1>8. CASE Expire BY <1>8 DEF Expire, TypeOK, sockVars, Client
  <1>9. CASE Advance
    <2>1. \A b, n \in Nat : b \in 0..n => Less(b) \in 0..n BY DEF Less
    <2>2. joinLeft' \in [Conns -> 0..JoinTicks]
      BY <1>9, <2>1, TicksAssumption DEF Advance, TypeOK
    <2>3. blocks' \in [Ids -> 0..KickBlockTicks]
      BY <1>9, <2>1, TicksAssumption DEF Advance, TypeOK
    <2>4. clients' \in [Ids -> Client \cup {Absent}]
      BY <1>9, AgedTypes DEF Advance, TypeOK, IsMember
    <2>5. QED BY <1>9, <2>2, <2>3, <2>4 DEF Advance, TypeOK, roomVars, Client
  <1>10. CASE Restart
    BY <1>10, ZeroTicks DEF Restart, TypeOK, roomVars, NoClients, NoBlocks
  <1>11. CASE UNCHANGED vars BY <1>11 DEF vars, TypeOK, Client
  <1>12. QED
    BY <1>1, <1>2, <1>3, <1>4, <1>5, <1>6, <1>7, <1>8, <1>9, <1>10, <1>11 DEF Next

LEMMA InitTypes == Init => TypeOK
  <1> SUFFICES ASSUME Init PROVE TypeOK OBVIOUS
  <1>1. /\ row \in {"present", "gone"} /\ expired \in BOOLEAN
        /\ notify \in {"idle", "sent"} /\ runtime \in BOOLEAN
    BY DEF Init
  <1>2. /\ sock \in [Conns -> {"closed", "open", "closing"}]
        /\ ctx \in [Conns -> Ids \cup {NoId}]
        /\ joinLeft \in [Conns -> 0..JoinTicks]
        /\ error \in [Conns -> Codes \cup {None}]
    BY ZeroTicks DEF Init
  <1>3. /\ clients \in [Ids -> Client \cup {Absent}]
        /\ blocks \in [Ids -> 0..KickBlockTicks]
    BY ZeroTicks DEF Init, NoClients, NoBlocks
  <1>4. QED BY <1>1, <1>2, <1>3 DEF TypeOK

\* Types: whatever the room's sockets, frames, kicks and clock do, the
\* daemon's memory keeps its shape.
THEOREM TypeCorrect == Spec => []TypeOK
  <1>1. Init => TypeOK BY InitTypes
  <1>2. QED BY <1>1, StepTypes, PTL DEF Spec

-----------------------------------------------------------------------------
(* Records and sockets.                                                    *)

\* A socket that is gone has no context any more.
GoneIsUnbound == \A c \in Conns : sock[c] = "closed" => ctx[c] = NoId

\* The daemon is told to destroy a room only when its row is gone.
DestroyMeansGone == notify = "sent" => row = "gone"

\* Why a stale onClose can do no harm when sockets drain promptly: a socket
\* bound to an id holds that id's record, or it is closing and the id is
\* still blocked, or it is closing and the room can never come back.
BoundSockets ==
  \A c \in Conns : ctx[c] # NoId =>
    \/ runtime /\ IsMember(ctx[c]) /\ clients[ctx[c]].conn = c
    \/ sock[c] = "closing" /\ runtime /\ blocks[ctx[c]] # 0
    \/ sock[c] = "closing" /\ ~runtime /\ (row = "gone" \/ expired)

\* A blocked id has no record.
BlockedHasNoRecord == \A i \in Ids : blocks[i] # 0 => ~IsMember(i)

RecordInv == TypeOK /\ SocketBacksRecord /\ GoneIsUnbound /\ BlockedHasNoRecord

PromptInv == RecordInv /\ DestroyMeansGone /\ BoundSockets

\* Nothing else changes: sockets may fall from open to closing.
LEMMA ClosingKeepsRecords ==
  ASSUME RecordInv, NEW S, NEW code, CloseAll(S, code),
         clients' = clients, blocks' = blocks, runtime' = runtime
  PROVE  SocketBacksRecord' /\ GoneIsUnbound' /\ BlockedHasNoRecord'
  <1>1. \A c \in Conns : (sock'[c] = "closed" <=> sock[c] = "closed") /\ ctx'[c] = ctx[c]
    BY CloseAllSock DEF CloseAll, RecordInv
  <1>2. \A i \in Ids : HasSocket(i) => clients[i].conn \in Conns
    BY DEF RecordInv, TypeOK, HasSocket, IsMember, Client
  <1>3. QED
    BY <1>1, <1>2
    DEF RecordInv, SocketBacksRecord, GoneIsUnbound, BlockedHasNoRecord, IsMember, HasSocket

\* With the runtime gone no record is left to back.
LEMMA NoRuntimeKeepsRecords ==
  ASSUME RecordInv, runtime' = FALSE, clients' = NoClients, blocks' = NoBlocks,
         \A c \in Conns : sock'[c] = "closed" => ctx'[c] = NoId
  PROVE  SocketBacksRecord' /\ GoneIsUnbound' /\ BlockedHasNoRecord'
  BY DEF SocketBacksRecord, GoneIsUnbound, BlockedHasNoRecord, IsMember, HasSocket,
         NoClients, NoBlocks

\* Admitting a client with a live record on its own socket.
LEMMA AdmitKeepsRecords ==
  ASSUME RecordInv, NEW c \in Conns, NEW i \in Ids, NEW client \in Client,
         sock[c] = "open", ctx[c] = NoId, client.conn = c, client.tombstone = None,
         blocks[i] = 0, Admit(c, i, client)
  PROVE  SocketBacksRecord' /\ GoneIsUnbound' /\ BlockedHasNoRecord'
  <1>1. NoId \notin Ids /\ NoConn \notin Conns BY SentinelsAssumption
  <1>2. /\ sock' = sock /\ blocks' = blocks /\ runtime' = TRUE
        /\ clients'[i] = client /\ ctx'[c] = i
        /\ \A j \in Ids \ {i} : clients'[j] = clients[j]
        /\ \A d \in Conns \ {c} : ctx'[d] = ctx[d]
    BY DEF Admit, RecordInv, TypeOK
  <1>3. \A j \in Ids : HasSocket(j) => clients[j].conn \in Conns /\ clients[j].conn # c
    BY <1>1 DEF RecordInv, SocketBacksRecord, TypeOK, HasSocket, IsMember, Client
  <1>4. GoneIsUnbound' BY <1>2 DEF RecordInv, GoneIsUnbound
  <1>5. BlockedHasNoRecord' BY <1>2 DEF RecordInv, BlockedHasNoRecord, IsMember
  <1>6. SocketBacksRecord'
    BY <1>1, <1>2, <1>3 DEF RecordInv, SocketBacksRecord, IsMember, HasSocket
  <1>7. QED BY <1>4, <1>5, <1>6

LEMMA JoinKeepsRecords ==
  ASSUME RecordInv, NEW c \in Conns, NEW want \in Ids \cup {NoId}, NEW pwOk \in BOOLEAN,
         Join(c, want, pwOk)
  PROVE  SocketBacksRecord' /\ GoneIsUnbound' /\ BlockedHasNoRecord'
  <1>1. CASE \E code : Reject(c, code) BY <1>1, ClosingKeepsRecords DEF Reject
  <1>2. CASE \E code : Refuse(c, code)
    <2>1. PICK code : Refuse(c, code) BY <1>2
    <2>2. CloseAll({c}, code) BY <2>1 DEF Refuse
    <2>3. \A d \in Conns : (sock'[d] = "closed" <=> sock[d] = "closed") /\ ctx'[d] = ctx[d]
      BY <2>2, CloseAllSock DEF CloseAll, RecordInv
    <2>4. QED
      BY <2>1, <2>3
      DEF Refuse, RecordInv, SocketBacksRecord, GoneIsUnbound, BlockedHasNoRecord,
          IsMember, HasSocket, TypeOK, Client
  <1>3. ASSUME NEW i \in FreshIds, Admit(c, i, NewClient(c))
        PROVE  SocketBacksRecord' /\ GoneIsUnbound' /\ BlockedHasNoRecord'
    <2>1. NewClient(c) \in Client BY NewRecords, <1>3 DEF RecordInv, FreshIds
    <2>2. QED BY <1>3, <2>1, AdmitKeepsRecords DEF Join, FreshIds, NewClient
  <1>4. ASSUME want \in Ids, ~Blocked(want), Admit(c, want, NewClient(c))
        PROVE  SocketBacksRecord' /\ GoneIsUnbound' /\ BlockedHasNoRecord'
    <2>1. NewClient(c) \in Client BY NewRecords, <1>4 DEF RecordInv
    <2>2. blocks[want] = 0
      BY <1>4 DEF Blocked, RecordInv, SocketBacksRecord, NoBlocks, TypeOK
    <2>3. QED BY <1>4, <2>1, <2>2, AdmitKeepsRecords DEF Join, NewClient
  <1>5. ASSUME want \in Ids, ~Blocked(want), IsMember(want), Admit(c, want, Reattached(want, c))
        PROVE  SocketBacksRecord' /\ GoneIsUnbound' /\ BlockedHasNoRecord'
    <2>1. Reattached(want, c) \in Client BY NewRecords, <1>5 DEF RecordInv
    <2>2. blocks[want] = 0
      BY <1>5 DEF Blocked, RecordInv, SocketBacksRecord, NoBlocks, TypeOK
    <2>3. clients[want] \in Client BY <1>5 DEF RecordInv, TypeOK, IsMember
    <2>4. Reattached(want, c).conn = c /\ Reattached(want, c).tombstone = None
      BY <2>3 DEF Reattached, Client
    <2>5. QED BY <1>5, <2>1, <2>2, <2>4, AdmitKeepsRecords DEF Join
  <1>6. QED
    BY <1>1, <1>2, <1>3, <1>4, <1>5 DEF Join, IsTombstoned, IsTombstone

\* Hearing from a member changes neither its socket nor its tombstone.
LEMMA SeenKeepsRecords ==
  ASSUME RecordInv, NEW i \in Ids, IsMember(i), Seen(i)
  PROVE  SocketBacksRecord' /\ GoneIsUnbound' /\ BlockedHasNoRecord'
  <1>1. clients[i] \in Client BY DEF RecordInv, TypeOK, IsMember
  <1>2. clients' = [clients EXCEPT ![i] = [clients[i] EXCEPT !.silence = 0]]
    BY DEF Seen, MarkSeen
  <1>3. /\ clients'[i].conn = clients[i].conn /\ clients'[i].tombstone = clients[i].tombstone
        /\ \A j \in Ids \ {i} : clients'[j] = clients[j]
    BY <1>1, <1>2 DEF RecordInv, TypeOK, Client
  <1>4. clients'[i] \in Client
    BY <1>1, <1>2, ZeroTicks DEF RecordInv, TypeOK, Client
  <1>5. clients'[i] # Absent BY <1>4, SentinelsAssumption DEF Client
  <1>6. \A j \in Ids : (IsMember(j)' <=> IsMember(j)) /\ (HasSocket(j)' <=> HasSocket(j))
                      /\ (IsMember(j) => /\ clients'[j].conn = clients[j].conn
                                         /\ clients'[j].tombstone = clients[j].tombstone)
    BY <1>3, <1>5 DEF IsMember, HasSocket
  <1>7. runtime BY DEF RecordInv, SocketBacksRecord, IsMember, NoClients
  <1>8. QED
    BY <1>6, <1>7 DEF Seen, roomVars, sockVars, RecordInv, SocketBacksRecord, GoneIsUnbound,
       BlockedHasNoRecord

\* onClose empties the record that names the socket, if there is one.
LEMMA OnCloseKeepsRecords ==
  ASSUME RecordInv, NEW c \in Conns, OnClose(c)
  PROVE  SocketBacksRecord' /\ GoneIsUnbound' /\ BlockedHasNoRecord'
  <1>1. /\ NoId \notin Ids /\ NoConn \notin Conns /\ None \notin 0..TombstoneTicks
        /\ TombstoneTicks \in 0..TombstoneTicks /\ 0 \in 0..IdleTicks
    BY SentinelsAssumption, TicksAssumption
  <1>2. /\ runtime' = runtime /\ blocks' = blocks
        /\ \A d \in Conns \ {c} : sock'[d] = sock[d] /\ ctx'[d] = ctx[d]
        /\ sock'[c] = "closed" /\ ctx'[c] = NoId
    BY DEF OnClose, RecordInv, TypeOK
  <1>3. GoneIsUnbound' BY <1>2 DEF RecordInv, GoneIsUnbound
  <1>4. CASE ctx[c] # NoId /\ runtime /\ IsMember(ctx[c])
    <2>1. ctx[c] \in Ids BY <1>4 DEF RecordInv, TypeOK
    <2>2. clients' = [clients EXCEPT ![ctx[c]] = Tombstoned(ctx[c])] BY <1>4 DEF OnClose
    <2>3. clients[ctx[c]] \in Client BY <1>4, <2>1 DEF RecordInv, TypeOK, IsMember
    <2>4. /\ Tombstoned(ctx[c]).conn = NoConn /\ Tombstoned(ctx[c]).tombstone = TombstoneTicks
          /\ Tombstoned(ctx[c]) \in Client
      BY <2>3, <1>1 DEF Tombstoned, Client
    <2>5. Tombstoned(ctx[c]) # Absent BY <2>4, SentinelsAssumption DEF Client
    <2>6. /\ clients'[ctx[c]] = Tombstoned(ctx[c])
          /\ \A j \in Ids \ {ctx[c]} : clients'[j] = clients[j]
      BY <2>1, <2>2 DEF RecordInv, TypeOK
    <2>7. BlockedHasNoRecord'
      BY <1>2, <1>4, <2>1, <2>6 DEF RecordInv, BlockedHasNoRecord, IsMember
    <2>8. \A j \in Ids \ {ctx[c]} : HasSocket(j) => clients[j].conn # c /\ clients[j].conn \in Conns
      BY <1>1 DEF RecordInv, SocketBacksRecord, TypeOK, HasSocket, IsMember, Client
    <2>9. SocketBacksRecord'
      BY <1>1, <1>2, <1>4, <2>1, <2>4, <2>6, <2>8
      DEF RecordInv, SocketBacksRecord, IsMember, HasSocket
    <2>10. QED BY <1>3, <2>7, <2>9
  <1>5. CASE ~(ctx[c] # NoId /\ runtime /\ IsMember(ctx[c]))
    <2>1. clients' = clients BY <1>5 DEF OnClose
    <2>2. \A j \in Ids : HasSocket(j) => clients[j].conn # c /\ clients[j].conn \in Conns
      BY <1>1, <1>5
      DEF RecordInv, SocketBacksRecord, TypeOK, HasSocket, IsMember, Client, NoClients
    <2>3. QED
      BY <1>2, <1>3, <2>1, <2>2
      DEF RecordInv, SocketBacksRecord, BlockedHasNoRecord, IsMember, HasSocket
  <1>6. QED BY <1>4, <1>5

LEMMA SocketKeepsRecords ==
  ASSUME RecordInv, NEW c \in Conns, SocketNext(c)
  PROVE  SocketBacksRecord' /\ GoneIsUnbound' /\ BlockedHasNoRecord'
  <1>1. CASE Open(c)
    <2>1. /\ UNCHANGED <<runtime, clients, blocks>> /\ sock'[c] # "closed"
          /\ \A d \in Conns \ {c} : sock'[d] = sock[d] /\ ctx'[d] = ctx[d]
      BY <1>1 DEF Open, RecordInv, TypeOK
    <2>2. \A j \in Ids : HasSocket(j) => clients[j].conn # c /\ clients[j].conn \in Conns
      BY <1>1 DEF Open, RecordInv, SocketBacksRecord, TypeOK, HasSocket, IsMember, Client
    <2>3. QED
      BY <2>1, <2>2 DEF RecordInv, SocketBacksRecord, GoneIsUnbound, BlockedHasNoRecord,
         IsMember, HasSocket
  <1>2. CASE \E code : Reject(c, code) BY <1>2, ClosingKeepsRecords DEF Reject
  <1>3. CASE SocketError(c) BY <1>3, ClosingKeepsRecords DEF SocketError
  <1>4. CASE OnClose(c) BY <1>4, OnCloseKeepsRecords
  <1>5. CASE \E want \in Ids \cup {NoId}, pwOk \in BOOLEAN : Join(c, want, pwOk)
    BY <1>5, JoinKeepsRecords
  <1>6. CASE ctx[c] # NoId /\ IsMember(ctx[c]) /\ Seen(ctx[c])
    <2>1. ctx[c] \in Ids BY <1>6 DEF RecordInv, TypeOK
    <2>2. QED BY <1>6, <2>1, SeenKeepsRecords
  <1>7. QED
    BY <1>1, <1>2, <1>3, <1>4, <1>5, <1>6
    DEF SocketNext, JoinTimeout, EventFrame, EditFrame, BufferFrame, Heartbeat,
        NotJoined, RoomGone, HasSocket

LEMMA TickKeepsRecords ==
  ASSUME RecordInv, Tick
  PROVE  SocketBacksRecord' /\ GoneIsUnbound' /\ BlockedHasNoRecord'
  <1>1. CASE expired /\ DropRuntime("ROOM_EXPIRED")
    <2>1. \A c \in Conns : (sock'[c] = "closed" <=> sock[c] = "closed") /\ ctx'[c] = ctx[c]
      BY <1>1, CloseAllSock DEF DropRuntime, CloseAll, RecordInv
    <2>2. QED BY <1>1, <2>1, NoRuntimeKeepsRecords DEF DropRuntime, RecordInv, GoneIsUnbound
  <1>2. CASE ~expired
    <2>1. CloseAll({clients[i].conn : i \in {j \in Ids : IsIdle(j)}}, None) BY <1>2 DEF Tick
    <2>2. \A c \in Conns : (sock'[c] = "closed" <=> sock[c] = "closed") /\ ctx'[c] = ctx[c]
      BY <2>1, CloseAllSock DEF CloseAll, RecordInv
    <2>3. /\ runtime' = runtime /\ blocks' = blocks
          /\ \A i \in Ids : clients'[i] = clients[i] \/ clients'[i] = Absent
      BY <1>2 DEF Tick
    <2>4. runtime BY DEF Tick
    <2>5. \A i \in Ids : HasSocket(i) => clients[i].conn \in Conns
      BY DEF RecordInv, TypeOK, HasSocket, IsMember, Client
    <2>6. QED
      BY <2>2, <2>3, <2>4, <2>5 DEF RecordInv, SocketBacksRecord, GoneIsUnbound,
         BlockedHasNoRecord, IsMember, HasSocket
  <1>3. QED BY <1>1, <1>2 DEF Tick

LEMMA AdvanceKeepsRecords ==
  ASSUME RecordInv, Advance
  PROVE  SocketBacksRecord' /\ GoneIsUnbound' /\ BlockedHasNoRecord'
  <1>1. \A i \in Ids : IsMember(i) => clients[i] \in Client BY DEF RecordInv, TypeOK, IsMember
  <1>2. \A i \in Ids : IsMember(i) =>
          /\ clients'[i] = Aged(clients[i]) /\ clients'[i] # Absent
          /\ clients'[i].conn = clients[i].conn
          /\ (clients'[i].tombstone = None <=> clients[i].tombstone = None)
    <2>1. SUFFICES ASSUME NEW i \in Ids, IsMember(i)
                   PROVE  /\ clients'[i] = Aged(clients[i]) /\ clients'[i] # Absent
                          /\ clients'[i].conn = clients[i].conn
                          /\ (clients'[i].tombstone = None <=> clients[i].tombstone = None)
      OBVIOUS
    <2>2. clients'[i] = Aged(clients[i]) BY <2>1 DEF Advance
    <2>3. Aged(clients[i]) \in Client BY <1>1, <2>1, AgedTypes
    <2>4. Aged(clients[i]) # Absent BY <2>3, SentinelsAssumption DEF Client
    <2>5. /\ Aged(clients[i]).conn = clients[i].conn
          /\ Aged(clients[i]).tombstone =
               IF clients[i].tombstone = None THEN None ELSE Less(clients[i].tombstone)
      BY <1>1, <2>1 DEF Aged, Client
    <2>6. clients[i].tombstone # None => Less(clients[i].tombstone) # None
      BY <1>1, <2>1, SentinelsAssumption, TicksAssumption DEF Client, Less
    <2>7. QED BY <2>2, <2>4, <2>5, <2>6
  <1>3. \A i \in Ids : ~IsMember(i) => clients'[i] = Absent BY DEF Advance
  <1>4. \A i \in Ids : blocks'[i] # 0 => blocks[i] # 0
    BY DEF Advance, RecordInv, TypeOK, Less
  <1>5. /\ \A i \in Ids : (IsMember(i)' <=> IsMember(i)) /\ (HasSocket(i)' <=> HasSocket(i))
        /\ UNCHANGED <<sock, ctx, runtime>>
    BY <1>2, <1>3 DEF Advance, IsMember, HasSocket
  <1>6. ~runtime => clients' = NoClients /\ blocks' = NoBlocks
    BY DEF Advance, RecordInv, SocketBacksRecord, NoClients, NoBlocks, IsMember, Less
  <1>7. QED
    BY <1>2, <1>4, <1>5, <1>6 DEF RecordInv, SocketBacksRecord, GoneIsUnbound, BlockedHasNoRecord

LEMMA StepKeepsRecords == RecordInv /\ [Next]_vars => RecordInv'
  <1> SUFFICES ASSUME RecordInv, [Next]_vars
               PROVE  SocketBacksRecord' /\ GoneIsUnbound' /\ BlockedHasNoRecord'
    BY StepTypes DEF RecordInv
  <1>1. CASE \E c \in Conns : SocketNext(c) BY <1>1, SocketKeepsRecords
  <1>2. ASSUME NEW i \in Ids, Kick(i)
        PROVE  SocketBacksRecord' /\ GoneIsUnbound' /\ BlockedHasNoRecord'
    <2>1. CloseAll({clients[i].conn} \ {NoConn}, "KICKED") BY <1>2 DEF Kick
    <2>2. \A c \in Conns : (sock'[c] = "closed" <=> sock[c] = "closed") /\ ctx'[c] = ctx[c]
      BY <2>1, CloseAllSock DEF CloseAll, RecordInv
    <2>3. /\ runtime /\ runtime' = runtime /\ clients'[i] = Absent
          /\ \A j \in Ids \ {i} : clients'[j] = clients[j] /\ blocks'[j] = blocks[j]
      BY <1>2 DEF Kick, RecordInv, TypeOK
    <2>4. \A j \in Ids : HasSocket(j) => clients[j].conn \in Conns
      BY DEF RecordInv, TypeOK, HasSocket, IsMember, Client
    <2>5. QED
      BY <2>2, <2>3, <2>4 DEF RecordInv, SocketBacksRecord, GoneIsUnbound, BlockedHasNoRecord,
         IsMember, HasSocket
  <1>3. CASE Tick BY <1>3, TickKeepsRecords
  <1>4. CASE UNCHANGED <<runtime, sockVars, clients, blocks>>
    BY <1>4 DEF sockVars, RecordInv, SocketBacksRecord, GoneIsUnbound, BlockedHasNoRecord,
       IsMember, HasSocket
  <1>5. CASE DeleteRoom \/ DestroyLost \/ PruneRow \/ Expire
    BY <1>4, <1>5 DEF DeleteRoom, DestroyLost, PruneRow, Expire
  <1>6. CASE Destroy
    <2>1. CASE DropRuntime("ROOM_DELETED")
      <3>1. \A c \in Conns : (sock'[c] = "closed" <=> sock[c] = "closed") /\ ctx'[c] = ctx[c]
        BY <2>1, CloseAllSock DEF DropRuntime, CloseAll, RecordInv
      <3>2. QED BY <2>1, <3>1, NoRuntimeKeepsRecords DEF DropRuntime, RecordInv, GoneIsUnbound
    <2>2. QED BY <1>4, <1>6, <2>1 DEF Destroy
  <1>7. CASE Advance BY <1>7, AdvanceKeepsRecords
  <1>8. CASE Restart
    BY <1>8, NoRuntimeKeepsRecords DEF Restart
  <1>9. CASE UNCHANGED vars BY <1>4, <1>9 DEF vars, sockVars
  <1>10. QED
    BY <1>1, <1>2, <1>3, <1>5, <1>6, <1>7, <1>8, <1>9 DEF Next

\* A record names a socket that is still to be closed and that speaks for it,
\* or it is a tombstone - however long sockets take to drain
\* (MessageRouter::onClose, JoinHandler, ClientConnection).
THEOREM RecordsAreBacked == Spec => []SocketBacksRecord
  <1>1. Init => RecordInv
    <2>1. Init => TypeOK BY InitTypes
    <2>2. QED
      BY <2>1 DEF Init, RecordInv, SocketBacksRecord, GoneIsUnbound, BlockedHasNoRecord,
         NoClients, NoBlocks, IsMember, HasSocket
  <1>2. RecordInv => SocketBacksRecord BY DEF RecordInv
  <1>3. QED BY <1>1, <1>2, StepKeepsRecords, PTL DEF Spec
-----------------------------------------------------------------------------
(* The grace of a tombstone.                                               *)

GraceStep(i) == IsTombstoned(i) /\ ~IsMember(i)' => blocks'[i] # 0 \/ ~runtime'

LEMMA JoinKeepsMembers ==
  ASSUME TypeOK, NEW c \in Conns, NEW want \in Ids \cup {NoId}, NEW pwOk \in BOOLEAN,
         Join(c, want, pwOk), NEW i \in Ids, IsMember(i)
  PROVE  IsMember(i)'
  <1>1. CASE (\E code : Reject(c, code)) \/ (\E code : Refuse(c, code))
    BY <1>1 DEF Reject, Refuse, IsMember
  <1>2. ASSUME NEW j \in Ids, NEW client \in Client, Admit(c, j, client) PROVE IsMember(i)'
    <2>1. clients'[i] = client \/ clients'[i] = clients[i] BY <1>2 DEF Admit, TypeOK
    <2>2. client # Absent BY SentinelsAssumption DEF Client
    <2>3. QED BY <2>1, <2>2 DEF IsMember
  <1>3. QED
    BY <1>1, <1>2, NewRecords DEF Join, FreshIds, IsTombstoned, IsTombstone

LEMMA SocketKeepsMembers ==
  ASSUME TypeOK, NEW c \in Conns, SocketNext(c), NEW i \in Ids, IsMember(i)
  PROVE  IsMember(i)'
  <1>1. CASE UNCHANGED clients BY <1>1 DEF IsMember
  <1>2. CASE OnClose(c)
    <2>1. CASE ctx[c] # NoId /\ runtime /\ IsMember(ctx[c])
      <3>1. Tombstoned(ctx[c]) \in Client BY <2>1, NewRecords DEF TypeOK
      <3>2. Tombstoned(ctx[c]) # Absent BY <3>1, SentinelsAssumption DEF Client
      <3>3. QED BY <1>2, <2>1, <3>2 DEF OnClose, IsMember, TypeOK
    <2>2. QED BY <1>1, <1>2, <2>1 DEF OnClose
  <1>3. CASE \E want \in Ids \cup {NoId}, pwOk \in BOOLEAN : Join(c, want, pwOk)
    BY <1>3, JoinKeepsMembers
  <1>4. CASE ctx[c] # NoId /\ IsMember(ctx[c]) /\ Seen(ctx[c])
    <2>1. ctx[c] \in Ids BY <1>4 DEF TypeOK
    <2>2. clients[ctx[c]] \in Client BY <1>4, <2>1 DEF TypeOK, IsMember
    <2>3. [clients[ctx[c]] EXCEPT !.silence = 0] \in Client BY <2>2, ZeroTicks DEF Client
    <2>4. clients' = [clients EXCEPT ![ctx[c]] = [clients[ctx[c]] EXCEPT !.silence = 0]]
      BY <1>4 DEF Seen, MarkSeen
    <2>5. [clients[ctx[c]] EXCEPT !.silence = 0] # Absent BY <2>3, SentinelsAssumption DEF Client
    <2>6. QED BY <2>4, <2>5 DEF IsMember, TypeOK
  <1>5. QED
    BY <1>1, <1>2, <1>3, <1>4
    DEF SocketNext, Open, JoinTimeout, SocketError, EventFrame, EditFrame, BufferFrame,
        Heartbeat, NotJoined, RoomGone, Reject, HasSocket

LEMMA StepHonoursGrace ==
  ASSUME TypeOK, [Next]_vars, NEW i \in Ids PROVE GraceStep(i)
  <1> SUFFICES ASSUME IsTombstoned(i), ~IsMember(i)' PROVE blocks'[i] # 0 \/ ~runtime'
    BY DEF GraceStep
  <1>1. IsMember(i) BY DEF IsTombstoned, IsTombstone
  <1>2. CASE \E c \in Conns : SocketNext(c) BY <1>1, <1>2, SocketKeepsMembers
  <1>3. ASSUME NEW j \in Ids, Kick(j) PROVE blocks'[i] # 0 \/ ~runtime'
    <2>1. i # j => clients'[i] = clients[i] BY <1>3 DEF Kick, TypeOK
    <2>2. i # j => IsMember(i)' BY <1>1, <2>1 DEF IsMember
    <2>3. QED BY <1>3, <2>2, TicksAssumption DEF Kick, TypeOK
  <1>4. CASE Tick
    BY <1>1, <1>4 DEF Tick, DropRuntime, IsExpiredTombstone, IsTombstoned, IsMember
  <1>5. CASE UNCHANGED clients BY <1>1, <1>5 DEF IsMember
  <1>6. CASE Destroy BY <1>5, <1>6 DEF Destroy, DropRuntime
  <1>7. CASE DeleteRoom \/ DestroyLost \/ PruneRow \/ Expire
    BY <1>5, <1>7 DEF DeleteRoom, DestroyLost, PruneRow, Expire
  <1>8. CASE Advance
    <2>1. clients'[i] = Aged(clients[i]) /\ clients[i] \in Client
      BY <1>1, <1>8 DEF Advance, TypeOK, IsMember
    <2>2. \A client \in Client : Aged(client) # Absent
      BY AgedTypes, SentinelsAssumption DEF Client
    <2>3. QED BY <2>1, <2>2 DEF IsMember
  <1>9. CASE Restart BY <1>9 DEF Restart
  <1>10. CASE UNCHANGED vars BY <1>5, <1>10 DEF vars
  <1>11. QED BY <1>2, <1>3, <1>4, <1>6, <1>7, <1>8, <1>9, <1>10 DEF Next

\* A record with grace left is dropped only by a kick or with the whole room
\* (Tick::runOnce, RoomRuntime::pruneExpiredTombstones, kickClient).
THEOREM GraceIsHonoured == Spec => GraceHonoured
  <1>1. TypeOK /\ [Next]_vars =>
          [\A i \in Ids : IsTombstoned(i) /\ ~IsMember(i)' => blocks'[i] # 0 \/ ~runtime']_vars
    BY StepHonoursGrace DEF GraceStep
  <1>2. QED BY <1>1, TypeCorrect, PTL DEF Spec, GraceHonoured

-----------------------------------------------------------------------------
(* What holds when a closing socket drains before time passes: who is in   *)
(* the room, who may speak, and that the room keeps what Seats promises.   *)
(* First, bound sockets.                                                   *)

\* Steps that bind no socket, free no record that has one and lift no block.
LEMMA BoundStable ==
  ASSUME PromptInv, ctx' = ctx, runtime' = runtime,
         \A c \in Conns : sock'[c] = sock[c] \/ sock'[c] = "closing",
         \A i \in Ids : HasSocket(i) => IsMember(i)' /\ clients'[i].conn = clients[i].conn,
         \A i \in Ids : blocks[i] # 0 => blocks'[i] # 0,
         row = "gone" => row' = "gone", expired => expired'
  PROVE  BoundSockets'
  <1>1. \A c \in Conns : ctx[c] \in Ids \cup {NoId} BY DEF PromptInv, RecordInv, TypeOK
  <1>2. NoConn \notin Conns BY SentinelsAssumption
  <1>3. QED BY <1>1, <1>2 DEF PromptInv, BoundSockets, HasSocket

\* A room whose runtime is gone but whose row is good has no bound socket.
LEMMA NoRuntimeNoBinding ==
  ASSUME PromptInv, ~runtime, row = "present", ~expired
  PROVE  \A c \in Conns : ctx[c] = NoId
  BY DEF PromptInv, BoundSockets

LEMMA JoinKeepsBound ==
  ASSUME PromptInv, NEW c \in Conns, NEW want \in Ids \cup {NoId}, NEW pwOk \in BOOLEAN,
         Join(c, want, pwOk)
  PROVE  BoundSockets'
  <1>1. CASE \E code : Reject(c, code)
    <2>1. PICK code : Reject(c, code) BY <1>1
    <2>2. CloseAll({c}, code) BY <2>1 DEF Reject
    <2>3. \A d \in Conns : sock'[d] = sock[d] \/ sock'[d] = "closing"
      BY <2>2, CloseAllSock DEF PromptInv, RecordInv
    <2>4. UNCHANGED <<row, expired, runtime, ctx, clients, blocks>>
      BY <2>1, <2>2 DEF Reject, CloseAll, roomVars
    <2>5. QED BY <2>3, <2>4, BoundStable DEF HasSocket, IsMember
  <1>2. ASSUME NEW code, row = "present", ~expired, Refuse(c, code) PROVE BoundSockets'
    <2>1. CloseAll({c}, code) BY <1>2 DEF Refuse
    <2>2. \A d \in Conns : sock'[d] = sock[d] \/ sock'[d] = "closing"
      BY <2>1, CloseAllSock DEF PromptInv, RecordInv
    <2>3. UNCHANGED <<row, expired, ctx, clients, blocks>> /\ runtime' = TRUE
      BY <1>2, <2>1 DEF Refuse, CloseAll, roomVars
    <2>4. CASE runtime
      <3>1. runtime' = runtime BY <2>3, <2>4 DEF PromptInv, RecordInv, TypeOK
      <3>2. QED BY <2>2, <2>3, <3>1, BoundStable DEF HasSocket, IsMember
    <2>5. CASE ~runtime BY <1>2, <2>3, <2>5, NoRuntimeNoBinding DEF BoundSockets
    <2>6. QED BY <2>4, <2>5
  <1>3. ASSUME NEW i \in Ids, NEW client \in Client, client.conn = c, ~HasSocket(i),
               row = "present", ~expired, Admit(c, i, client)
        PROVE  BoundSockets'
    <2>1. /\ UNCHANGED <<row, expired, sock, blocks>> /\ runtime'
          /\ clients'[i] = client /\ ctx'[c] = i
          /\ \A j \in Ids \ {i} : clients'[j] = clients[j]
          /\ \A d \in Conns \ {c} : ctx'[d] = ctx[d]
      BY <1>3 DEF Admit, roomVars, PromptInv, RecordInv, TypeOK
    <2>2. client # Absent BY SentinelsAssumption DEF Client
    <2>3. \A d \in Conns \ {c} : ctx[d] # NoId =>
            runtime /\ ctx[d] \in Ids
      BY <1>3, NoRuntimeNoBinding DEF PromptInv, RecordInv, TypeOK
    <2>4. \A d \in Conns \ {c} : ctx[d] # NoId /\ clients[ctx[d]].conn = d /\ IsMember(ctx[d]) => ctx[d] # i
      BY <1>3, SentinelsAssumption DEF HasSocket
    <2>5. QED BY <1>3, <2>1, <2>2, <2>3, <2>4 DEF PromptInv, BoundSockets, IsMember
  <1>4. ASSUME NEW i \in Ids, ~IsMember(i), row = "present", ~expired, Admit(c, i, NewClient(c))
        PROVE  BoundSockets'
    <2>1. NewClient(c) \in Client /\ NewClient(c).conn = c
      BY NewRecords DEF PromptInv, RecordInv, NewClient
    <2>2. QED BY <1>3, <1>4, <2>1 DEF HasSocket
  <1>5. ASSUME want \in Ids, IsTombstoned(want), row = "present", ~expired,
               Admit(c, want, Reattached(want, c))
        PROVE  BoundSockets'
    <2>1. IsMember(want) BY <1>5 DEF IsTombstoned, IsTombstone
    <2>2. clients[want] \in Client BY <1>5, <2>1 DEF PromptInv, RecordInv, TypeOK, IsMember
    <2>3. Reattached(want, c) \in Client /\ Reattached(want, c).conn = c
      BY <1>5, <2>1, <2>2, NewRecords DEF PromptInv, RecordInv, Reattached, Client
    <2>4. ~HasSocket(want)
      BY <1>5, <2>1
      DEF PromptInv, RecordInv, SocketBacksRecord, IsTombstoned, IsTombstone, HasSocket
    <2>5. QED BY <1>3, <1>5, <2>3, <2>4
  <1>6. QED BY <1>1, <1>2, <1>4, <1>5 DEF Join, FreshIds

LEMMA OnCloseKeepsBound ==
  ASSUME PromptInv, NEW c \in Conns, OnClose(c)
  PROVE  BoundSockets'
  <1>1. /\ UNCHANGED <<row, expired, runtime, blocks>> /\ ctx'[c] = NoId
        /\ \A d \in Conns \ {c} : sock'[d] = sock[d] /\ ctx'[d] = ctx[d]
    BY DEF OnClose, roomVars, PromptInv, RecordInv, TypeOK
  <1>2. \A d \in Conns : ctx[d] \in Ids \cup {NoId} BY DEF PromptInv, RecordInv, TypeOK
  <1>3. \A i \in Ids : IsMember(i) /\ clients'[i] # clients[i] =>
          i = ctx[c] /\ ctx[c] # NoId /\ runtime
    BY DEF OnClose, PromptInv, RecordInv, TypeOK
  <1>4. \A i \in Ids : IsMember(i) /\ clients'[i] # clients[i] => clients[i].conn = c
    BY <1>3 DEF PromptInv, RecordInv, BoundSockets, BlockedHasNoRecord
  <1>5. QED BY <1>1, <1>2, <1>4 DEF PromptInv, BoundSockets, IsMember

LEMMA SocketKeepsBound ==
  ASSUME PromptInv, NEW c \in Conns, SocketNext(c)
  PROVE  BoundSockets'
  <1>1. CASE Open(c)
    <2>1. /\ UNCHANGED <<row, expired, runtime, clients, blocks>> /\ ctx'[c] = NoId
          /\ \A d \in Conns \ {c} : sock'[d] = sock[d] /\ ctx'[d] = ctx[d]
      BY <1>1 DEF Open, roomVars, PromptInv, RecordInv, TypeOK
    <2>2. QED BY <2>1 DEF PromptInv, BoundSockets, IsMember
  <1>2. ASSUME NEW code, CloseAll({c}, code), UNCHANGED <<roomVars, runtime, clients, blocks>>
        PROVE  BoundSockets'
    <2>1. \A d \in Conns : sock'[d] = sock[d] \/ sock'[d] = "closing"
      BY <1>2, CloseAllSock DEF PromptInv, RecordInv
    <2>2. UNCHANGED <<row, expired, runtime, ctx, clients, blocks>>
      BY <1>2 DEF CloseAll, roomVars
    <2>3. QED BY <2>1, <2>2, BoundStable DEF HasSocket, IsMember
  <1>3. CASE (\E code : Reject(c, code)) \/ SocketError(c)
    BY <1>2, <1>3 DEF Reject, SocketError
  <1>4. CASE OnClose(c) BY <1>4, OnCloseKeepsBound
  <1>5. CASE \E want \in Ids \cup {NoId}, pwOk \in BOOLEAN : Join(c, want, pwOk)
    BY <1>5, JoinKeepsBound
  <1>6. CASE ctx[c] # NoId /\ IsMember(ctx[c]) /\ Seen(ctx[c])
    <2>1. ctx[c] \in Ids BY <1>6 DEF PromptInv, RecordInv, TypeOK
    <2>2. clients[ctx[c]] \in Client BY <1>6, <2>1 DEF PromptInv, RecordInv, TypeOK, IsMember
    <2>3. [clients[ctx[c]] EXCEPT !.silence = 0] \in Client
      BY <2>2, ZeroTicks DEF Client
    <2>4. clients' = [clients EXCEPT ![ctx[c]] = [clients[ctx[c]] EXCEPT !.silence = 0]]
      BY <1>6 DEF Seen, MarkSeen
    <2>5. [clients[ctx[c]] EXCEPT !.silence = 0] # Absent BY <2>3, SentinelsAssumption DEF Client
    <2>6. [clients[ctx[c]] EXCEPT !.silence = 0].conn = clients[ctx[c]].conn
      BY <2>2 DEF Client
    <2>7. \A i \in Ids : HasSocket(i) => IsMember(i)' /\ clients'[i].conn = clients[i].conn
      BY <2>1, <2>4, <2>5, <2>6 DEF HasSocket, IsMember, PromptInv, RecordInv, TypeOK
    <2>8. UNCHANGED <<row, expired, runtime, sock, ctx, blocks>>
      BY <1>6 DEF Seen, roomVars, sockVars
    <2>9. QED BY <2>7, <2>8, BoundStable
  <1>7. QED
    BY <1>1, <1>3, <1>4, <1>5, <1>6
    DEF SocketNext, JoinTimeout, EventFrame, EditFrame, BufferFrame, Heartbeat,
        NotJoined, RoomGone, HasSocket

\* Dropping the runtime of a room that cannot come back closes what is bound.
LEMMA DropKeepsBound ==
  ASSUME PromptInv, NEW code, DropRuntime(code), row' = row, expired' = expired,
         runtime, row = "gone" \/ expired
  PROVE  BoundSockets'
  <1>1. CloseAll(MemberSockets, code) BY DEF DropRuntime
  <1>2. \A c \in Conns : sock'[c] = IF c \in MemberSockets /\ sock[c] = "open"
                                      THEN "closing" ELSE sock[c]
    BY <1>1, CloseAllSock DEF PromptInv, RecordInv
  <1>3. ctx' = ctx /\ runtime' = FALSE BY <1>1 DEF CloseAll, DropRuntime
  <1>4. \A c \in Conns : ctx[c] # NoId => sock'[c] = "closing"
    <2>1. SUFFICES ASSUME NEW c \in Conns, ctx[c] # NoId PROVE sock'[c] = "closing" OBVIOUS
    <2>2. CASE IsMember(ctx[c]) /\ clients[ctx[c]].conn = c
      <3>1. ctx[c] \in Ids BY <2>1 DEF PromptInv, RecordInv, TypeOK
      <3>2. HasSocket(ctx[c]) BY <2>2, SentinelsAssumption DEF HasSocket
      <3>3. c \in MemberSockets BY <2>2, <3>1, <3>2 DEF MemberSockets
      <3>4. sock[c] \in {"open", "closing"}
        BY <2>1 DEF PromptInv, RecordInv, TypeOK, GoneIsUnbound
      <3>5. QED BY <1>2, <3>3, <3>4
    <2>3. CASE sock[c] = "closing" BY <1>2, <2>3
    <2>4. QED BY <2>1, <2>2, <2>3 DEF PromptInv, BoundSockets
  <1>5. QED BY <1>3, <1>4 DEF BoundSockets

LEMMA StepKeepsDestroyMeansGone == DestroyMeansGone /\ [Next]_vars => DestroyMeansGone'
  <1> SUFFICES ASSUME DestroyMeansGone, [Next]_vars PROVE DestroyMeansGone'
    OBVIOUS
  <1>1. CASE UNCHANGED roomVars BY <1>1 DEF roomVars, DestroyMeansGone
  <1>2. CASE \E c \in Conns : SocketNext(c)
    <2>1. PICK c \in Conns : SocketNext(c) BY <1>2
    <2>2. CASE \E want \in Ids \cup {NoId}, pwOk \in BOOLEAN : Join(c, want, pwOk)
      BY <1>1, <2>2 DEF Join, Reject, Refuse, Admit
    <2>3. QED
      BY <1>1, <2>1, <2>2
      DEF SocketNext, Open, JoinTimeout, SocketError, OnClose, EventFrame, EditFrame,
          BufferFrame, Heartbeat, NotJoined, RoomGone, Reject, Seen
  <1>3. CASE (\E i \in Ids : Kick(i)) \/ Tick \/ Advance \/ Restart
    BY <1>1, <1>3 DEF Kick, Tick, Advance, Restart
  <1>4. CASE DeleteRoom \/ Destroy \/ DestroyLost \/ PruneRow \/ Expire
    BY <1>4 DEF DeleteRoom, Destroy, DestroyLost, PruneRow, Expire, DestroyMeansGone
  <1>5. CASE UNCHANGED vars BY <1>1, <1>5 DEF vars, roomVars
  <1>6. QED BY <1>2, <1>3, <1>4, <1>5 DEF Next

LEMMA StepKeepsPrompt ==
  ASSUME PromptClose PROVE PromptInv /\ [Next]_vars => PromptInv'
  <1> SUFFICES ASSUME PromptInv, [Next]_vars PROVE BoundSockets'
    BY StepKeepsRecords, StepKeepsDestroyMeansGone DEF PromptInv
  <1>1. CASE \E c \in Conns : SocketNext(c) BY <1>1, SocketKeepsBound
  <1>2. ASSUME NEW i \in Ids, Kick(i) PROVE BoundSockets'
    <2>1. CloseAll({clients[i].conn} \ {NoConn}, "KICKED") BY <1>2 DEF Kick
    <2>2. \A c \in Conns :
            sock'[c] = IF c = clients[i].conn /\ sock[c] = "open" THEN "closing" ELSE sock[c]
      BY <2>1, CloseAllSock, SentinelsAssumption DEF PromptInv, RecordInv
    <2>3. UNCHANGED <<row, expired, runtime, ctx>> /\ runtime
      BY <1>2, <2>1 DEF Kick, CloseAll, roomVars
    <2>4. /\ blocks'[i] # 0
          /\ \A j \in Ids \ {i} : clients'[j] = clients[j] /\ blocks'[j] = blocks[j]
      BY <1>2, TicksAssumption DEF Kick, PromptInv, RecordInv, TypeOK
    <2>5. \A c \in Conns : ctx[c] \in Ids \cup {NoId} BY DEF PromptInv, RecordInv, TypeOK
    <2>6. \A c \in Conns : ctx[c] # NoId => sock[c] \in {"open", "closing"}
      BY DEF PromptInv, RecordInv, TypeOK, GoneIsUnbound
    <2>7. QED BY <2>2, <2>3, <2>4, <2>5, <2>6 DEF PromptInv, BoundSockets, IsMember
  <1>3. CASE Tick
    <2>1. CASE expired /\ DropRuntime("ROOM_EXPIRED")
      BY <1>3, <2>1, DropKeepsBound DEF Tick, roomVars
    <2>2. CASE ~expired
      <3>1. CloseAll({clients[i].conn : i \in {j \in Ids : IsIdle(j)}}, None)
        BY <1>3, <2>2 DEF Tick
      <3>2. \A c \in Conns : sock'[c] = sock[c] \/ sock'[c] = "closing"
        BY <3>1, CloseAllSock DEF PromptInv, RecordInv
      <3>3. UNCHANGED <<row, expired, runtime, ctx, blocks>>
        BY <1>3, <2>2, <3>1 DEF Tick, CloseAll, roomVars
      <3>4. \A i \in Ids : HasSocket(i) => ~IsExpiredTombstone(i)
        BY DEF PromptInv, RecordInv, SocketBacksRecord, HasSocket, IsExpiredTombstone, IsTombstone
      <3>5. \A i \in Ids : HasSocket(i) => IsMember(i)' /\ clients'[i].conn = clients[i].conn
        BY <1>3, <2>2, <3>4 DEF Tick, HasSocket, IsMember
      <3>6. QED BY <3>2, <3>3, <3>5, BoundStable
    <2>3. QED BY <1>3, <2>1, <2>2 DEF Tick
  <1>4. ASSUME UNCHANGED <<runtime, sockVars, clients, blocks>>,
               row = "gone" => row' = "gone", expired => expired'
        PROVE  BoundSockets'
    BY <1>4, BoundStable DEF sockVars, HasSocket, IsMember
  <1>5. CASE DeleteRoom \/ DestroyLost \/ PruneRow \/ Expire
    BY <1>4, <1>5 DEF DeleteRoom, DestroyLost, PruneRow, Expire
  <1>6. CASE Destroy
    <2>1. CASE runtime
      BY <1>6, <2>1, DropKeepsBound DEF Destroy, PromptInv, DestroyMeansGone
    <2>2. CASE ~runtime BY <1>4, <1>6, <2>2 DEF Destroy
    <2>3. QED BY <2>1, <2>2
  <1>7. CASE Advance
    <2>1. \A c \in Conns : sock[c] # "closing" BY <1>7 DEF Advance
    <2>2. \A i \in Ids : IsMember(i) =>
            clients'[i] = Aged(clients[i]) /\ clients[i] \in Client
      BY <1>7 DEF Advance, PromptInv, RecordInv, TypeOK, IsMember
    <2>3. \A i \in Ids : IsMember(i) => IsMember(i)' /\ clients'[i].conn = clients[i].conn
      <3>1. \A client \in Client : Aged(client) # Absent
        BY AgedTypes, SentinelsAssumption DEF Client
      <3>2. \A client \in Client : Aged(client).conn = client.conn BY DEF Aged, Client
      <3>3. QED BY <2>2, <3>1, <3>2 DEF IsMember
    <2>4. UNCHANGED <<row, expired, runtime, sock, ctx>> BY <1>7 DEF Advance, roomVars
    <2>5. QED BY <2>1, <2>3, <2>4 DEF PromptInv, RecordInv, TypeOK, BoundSockets
  <1>8. CASE Restart BY <1>8 DEF Restart, BoundSockets
  <1>9. CASE UNCHANGED vars BY <1>4, <1>9 DEF vars, sockVars
  <1>10. QED
    BY <1>1, <1>2, <1>3, <1>5, <1>6, <1>7, <1>8, <1>9 DEF Next

LEMMA InitPrompt == Init => PromptInv
  <1>1. Init => TypeOK BY InitTypes
  <1>2. QED
    BY <1>1 DEF Init, PromptInv, RecordInv, SocketBacksRecord, GoneIsUnbound, BlockedHasNoRecord,
       DestroyMeansGone, BoundSockets, NoClients, NoBlocks, IsMember, HasSocket

LEMMA PromptInvariant == ASSUME PromptClose PROVE Spec => []PromptInv
  BY InitPrompt, StepKeepsPrompt, PTL DEF Spec

\* Prompt sockets: an open socket that joined holds the record of its id, so no
\* id has two, and no joined socket is left behind when its record goes
\* (MessageRouter::onClose, JoinHandler::reattachOrCreateClient, Tick).
THEOREM OpenSocketsAreMembers == ASSUME PromptClose PROVE Spec => []OpenMeansMember
  <1>1. PromptInv => OpenMeansMember BY DEF PromptInv, BoundSockets, OpenMeansMember
  <1>2. QED BY <1>1, PromptInvariant, PTL

\* Prompt sockets: while a kick block runs, the kicked id has no record and no
\* open socket (RoomRuntime::kickClient, isClientBlocked).
THEOREM KickedClientsStayOut == ASSUME PromptClose PROVE Spec => []KickedStaysOut
  <1>1. PromptInv => KickedStaysOut
    BY SentinelsAssumption DEF PromptInv, RecordInv, TypeOK, BoundSockets, BlockedHasNoRecord, KickedStaysOut
  <1>2. QED BY <1>1, PromptInvariant, PTL
-----------------------------------------------------------------------------
(* The refinement: RoomMembership implements Seats.                        *)

SeatStays(i) == SeatOf(i)' = SeatOf(i) /\ SpeakersOf(i)' = SpeakersOf(i)
SeatFades(i) ==
  \/ SeatOf(i) = "in" /\ SeatOf(i)' = "in" /\ SpeakersOf(i)' = {}
  \/ SeatOf(i) = "away" /\ SeatOf(i)' = "out" /\ SpeakersOf(i)' = {}
  \/ SeatOf(i) = "banned" /\ SeatOf(i)' = "out" /\ SpeakersOf(i)' = {}
SeatMoves(i) ==
  \/ /\ SeatOf(i) \in {"out", "away"} /\ SeatOf(i)' = "in"
     /\ \E c \in Conns : SpeakersOf(i)' = {c}
  \/ SeatOf(i) = "in" /\ SeatOf(i)' = "away" /\ SpeakersOf(i)' = {}
  \/ SeatOf(i) \in {"in", "away"} /\ SeatOf(i)' = "banned" /\ SpeakersOf(i)' = {}

\* Steps in which seats only stay or fade are steps of Seats.
LEMMA FadingIsLive ==
  ASSUME \A i \in Ids : SeatStays(i) \/ SeatFades(i)
  PROVE  Promise!Next
  BY DEF SeatStays, SeatFades, Promise!Next, Promise!Live, Promise!Stay, Promise!Sit,
         Promise!FallSilent, Promise!Leave, Promise!GiveUp, Promise!Ban, Promise!Pardon

\* Steps in which one seat moves are steps of Seats.
LEMMA MovingIsLive ==
  ASSUME NEW i \in Ids, SeatMoves(i), \A j \in Ids \ {i} : SeatStays(j)
  PROVE  Promise!Next
  BY DEF SeatStays, SeatMoves, Promise!Next, Promise!Live, Promise!Stay, Promise!Sit,
         Promise!FallSilent, Promise!Leave, Promise!GiveUp, Promise!Ban, Promise!Pardon

\* Steps after which everyone is out are steps of Seats.
LEMMA EmptyIsClose ==
  ASSUME \A i \in Ids : SeatOf(i)' = "out" /\ SpeakersOf(i)' = {}
  PROVE  Promise!Next
  BY DEF Promise!Next, Promise!Close

\* Only a viewer who is in has a speaker, and it is the record's socket.
LEMMA OneSpeaker ==
  ASSUME PromptInv, NEW i \in Ids
  PROVE  /\ SpeakersOf(i) = {} \/ (SeatOf(i) = "in" /\ SpeakersOf(i) = {clients[i].conn})
         /\ IsMember(i) => SeatOf(i) \in {"in", "away"}
  <1>1. NoId \notin Ids /\ NoConn \notin Conns BY SentinelsAssumption
  <1>2. \A c \in SpeakersOf(i) : runtime /\ IsMember(i) /\ clients[i].conn = c /\ c \in Conns
    BY <1>1 DEF SpeakersOf, PromptInv, BoundSockets
  <1>3. IsMember(i) => blocks[i] = 0 BY DEF PromptInv, RecordInv, BlockedHasNoRecord
  <1>4. IsMember(i) => SeatOf(i) \in {"in", "away"} BY <1>3 DEF SeatOf
  <1>5. \A c \in SpeakersOf(i) : SeatOf(i) = "in" BY <1>1, <1>2, <1>3 DEF SeatOf, HasSocket
  <1>6. QED BY <1>2, <1>4, <1>5

\* Closing sockets only silences the viewers they belong to.
LEMMA ClosingFades ==
  ASSUME PromptInv, NEW S, NEW code, CloseAll(S, code), NEW i \in Ids,
         SeatOf(i)' = SeatOf(i)
  PROVE  SeatStays(i) \/ SeatFades(i)
  <1>1. SpeakersOf(i)' = SpeakersOf(i) \ S
    BY CloseAllSock DEF CloseAll, SpeakersOf, PromptInv, RecordInv
  <1>2. QED BY <1>1, OneSpeaker DEF SeatStays, SeatFades

\* Seats look at records and blocks alone.
LEMMA SameRecordsSameSeats ==
  ASSUME NEW i \in Ids, clients'[i] = clients[i], blocks'[i] = blocks[i]
  PROVE  SeatOf(i)' = SeatOf(i)
  BY DEF SeatOf, HasSocket, IsMember

LEMMA UnchangedSeats ==
  ASSUME NEW i \in Ids, clients'[i] = clients[i], blocks'[i] = blocks[i], sock' = sock, ctx' = ctx
  PROVE  SeatStays(i)
  BY SameRecordsSameSeats DEF SeatStays, SpeakersOf

LEMMA RejectIsLive ==
  ASSUME PromptInv, NEW S, NEW code, CloseAll(S, code), UNCHANGED <<clients, blocks>>
  PROVE  Promise!Next
  BY ClosingFades, SameRecordsSameSeats, FadingIsLive

\* Admitting a client seats it.
LEMMA AdmitIsLive ==
  ASSUME PromptInv, NEW c \in Conns, NEW i \in Ids, NEW client \in Client,
         sock[c] = "open", ctx[c] = NoId, client.conn = c, ~HasSocket(i), blocks[i] = 0,
         Admit(c, i, client)
  PROVE  Promise!Next
  <1>1. /\ sock' = sock /\ blocks' = blocks /\ clients'[i] = client /\ ctx'[c] = i
        /\ \A j \in Ids \ {i} : clients'[j] = clients[j]
        /\ \A d \in Conns \ {c} : ctx'[d] = ctx[d]
    BY DEF Admit, PromptInv, RecordInv, TypeOK
  <1>2. client # Absent /\ NoConn \notin Conns /\ NoId \notin Ids
    BY SentinelsAssumption DEF Client
  <1>3. SeatOf(i) \in {"out", "away"} BY DEF SeatOf
  <1>4. SeatOf(i)' = "in" BY <1>1, <1>2 DEF SeatOf, HasSocket, IsMember
  <1>5. SpeakersOf(i) = {} BY <1>3, OneSpeaker
  <1>6. SpeakersOf(i)' = {c} BY <1>1, <1>5 DEF SpeakersOf
  <1>7. ASSUME NEW j \in Ids \ {i} PROVE SeatStays(j)
    <2>1. SeatOf(j)' = SeatOf(j) BY <1>1, SameRecordsSameSeats
    <2>2. SpeakersOf(j)' = SpeakersOf(j) BY <1>1, <1>2 DEF SpeakersOf
    <2>3. QED BY <2>1, <2>2 DEF SeatStays
  <1>8. SeatMoves(i) BY <1>3, <1>4, <1>6 DEF SeatMoves
  <1>9. QED BY <1>7, <1>8, MovingIsLive

LEMMA JoinIsLive ==
  ASSUME PromptInv, NEW c \in Conns, NEW want \in Ids \cup {NoId}, NEW pwOk \in BOOLEAN,
         Join(c, want, pwOk)
  PROVE  Promise!Next
  <1>1. sock[c] = "open" /\ ctx[c] = NoId BY DEF Join
  <1>2. CASE (\E code : Reject(c, code)) \/ (\E code : Refuse(c, code))
    BY <1>2, RejectIsLive DEF Reject, Refuse
  <1>3. ASSUME NEW i \in Ids, ~IsMember(i), blocks[i] = 0, Admit(c, i, NewClient(c))
        PROVE  Promise!Next
    <2>1. NewClient(c) \in Client /\ NewClient(c).conn = c
      BY NewRecords DEF PromptInv, RecordInv, NewClient
    <2>2. QED BY <1>1, <1>3, <2>1, AdmitIsLive DEF HasSocket
  <1>4. ASSUME NEW i \in Ids, ~Blocked(i) PROVE blocks[i] = 0
    BY <1>4 DEF Blocked, PromptInv, RecordInv, SocketBacksRecord, NoBlocks
  <1>5. ASSUME want \in Ids, ~Blocked(want), IsTombstoned(want),
               Admit(c, want, Reattached(want, c))
        PROVE  Promise!Next
    <2>1. IsMember(want) BY <1>5 DEF IsTombstoned, IsTombstone
    <2>2. clients[want] \in Client BY <1>5, <2>1 DEF PromptInv, RecordInv, TypeOK, IsMember
    <2>3. Reattached(want, c) \in Client /\ Reattached(want, c).conn = c
      BY <1>5, <2>1, <2>2, NewRecords DEF PromptInv, RecordInv, Reattached, Client
    <2>4. ~HasSocket(want)
      BY <1>5, <2>1
      DEF PromptInv, RecordInv, SocketBacksRecord, IsTombstoned, IsTombstone, HasSocket
    <2>5. QED BY <1>1, <1>4, <1>5, <2>3, <2>4, AdmitIsLive
  <1>6. QED BY <1>2, <1>3, <1>4, <1>5 DEF Join, FreshIds

LEMMA OnCloseIsLive ==
  ASSUME PromptInv, NEW c \in Conns, OnClose(c)
  PROVE  Promise!Next
  <1>1. /\ blocks' = blocks /\ sock'[c] = "closed" /\ ctx'[c] = NoId
        /\ \A d \in Conns \ {c} : sock'[d] = sock[d] /\ ctx'[d] = ctx[d]
    BY DEF OnClose, PromptInv, RecordInv, TypeOK
  <1>2. NoId \notin Ids /\ NoConn \notin Conns BY SentinelsAssumption
  <1>3. \A i \in Ids : ctx[c] # i => SpeakersOf(i)' = SpeakersOf(i)
    BY <1>1, <1>2 DEF SpeakersOf
  <1>4. CASE ctx[c] # NoId /\ runtime /\ IsMember(ctx[c])
    <2>1. ctx[c] \in Ids BY <1>4 DEF PromptInv, RecordInv, TypeOK
    <2>2. clients[ctx[c]].conn = c
      BY <1>4, <2>1 DEF PromptInv, RecordInv, BoundSockets, BlockedHasNoRecord
    <2>3. clients[ctx[c]] \in Client BY <1>4, <2>1 DEF PromptInv, RecordInv, TypeOK, IsMember
    <2>4. clients' = [clients EXCEPT ![ctx[c]] = Tombstoned(ctx[c])] BY <1>4 DEF OnClose
    <2>5. Tombstoned(ctx[c]) # Absent /\ Tombstoned(ctx[c]).conn = NoConn
      <3>1. Tombstoned(ctx[c]) \in Client
        BY <1>4, <2>1, NewRecords DEF PromptInv, RecordInv
      <3>2. QED BY <2>3, <3>1, SentinelsAssumption DEF Tombstoned, Client
    <2>6. /\ clients'[ctx[c]] = Tombstoned(ctx[c])
          /\ \A j \in Ids \ {ctx[c]} : clients'[j] = clients[j]
      BY <2>1, <2>4 DEF PromptInv, RecordInv, TypeOK
    <2>7. blocks[ctx[c]] = 0 BY <1>4, <2>1 DEF PromptInv, RecordInv, BlockedHasNoRecord
    <2>8. SeatOf(ctx[c]) = "in" BY <1>2, <1>4, <2>2, <2>7 DEF SeatOf, HasSocket
    <2>9. \A i \in Ids : i = ctx[c] => SeatOf(i)' = "away"
      BY <1>1, <2>5, <2>6, <2>7 DEF SeatOf, HasSocket, IsMember
    <2>10. \A i \in Ids : i = ctx[c] => SpeakersOf(i)' = {}
      <3>1. SUFFICES ASSUME NEW i \in Ids, i = ctx[c], NEW d \in SpeakersOf(i)' PROVE FALSE
        OBVIOUS
      <3>2. d \in Conns /\ d # c /\ d \in SpeakersOf(i)
        BY <1>1, <1>2, <3>1 DEF SpeakersOf
      <3>3. QED BY <2>2, <3>1, <3>2, OneSpeaker
    <2>11. ASSUME NEW j \in Ids \ {ctx[c]} PROVE SeatStays(j)
      BY <1>1, <1>3, <2>6, SameRecordsSameSeats DEF SeatStays
    <2>12. PICK i \in Ids : i = ctx[c] BY <2>1
    <2>13. SeatMoves(i) BY <2>8, <2>9, <2>10, <2>12 DEF SeatMoves
    <2>14. QED BY <2>11, <2>12, <2>13, MovingIsLive
  <1>5. CASE ~(ctx[c] # NoId /\ runtime /\ IsMember(ctx[c]))
    <2>1. clients' = clients BY <1>5 DEF OnClose
    <2>2. ASSUME NEW i \in Ids PROVE SpeakersOf(i)' = SpeakersOf(i)
      <3>1. c \notin SpeakersOf(i)
        BY <1>2, <1>5 DEF SpeakersOf, PromptInv, BoundSockets
      <3>2. QED BY <1>1, <3>1 DEF SpeakersOf
    <2>3. \A i \in Ids : SeatStays(i) BY <1>1, <2>1, <2>2, SameRecordsSameSeats DEF SeatStays
    <2>4. QED BY <2>3, FadingIsLive
  <1>6. QED BY <1>4, <1>5

LEMMA SocketIsLive ==
  ASSUME PromptInv, NEW c \in Conns, SocketNext(c)
  PROVE  Promise!Next
  <1>1. CASE Open(c)
    <2>1. UNCHANGED <<clients, blocks>> /\ ctx[c] = NoId /\ ctx'[c] = NoId
          /\ \A d \in Conns \ {c} : sock'[d] = sock[d] /\ ctx'[d] = ctx[d]
      BY <1>1 DEF Open, PromptInv, RecordInv, TypeOK, GoneIsUnbound
    <2>2. \A i \in Ids : SpeakersOf(i)' = SpeakersOf(i)
      BY <2>1, SentinelsAssumption DEF SpeakersOf
    <2>3. \A i \in Ids : SeatStays(i) BY <2>1, <2>2, SameRecordsSameSeats DEF SeatStays
    <2>4. QED BY <2>3, FadingIsLive
  <1>2. CASE (\E code : Reject(c, code)) \/ SocketError(c)
    BY <1>2, RejectIsLive DEF Reject, SocketError
  <1>3. CASE OnClose(c) BY <1>3, OnCloseIsLive
  <1>4. CASE \E want \in Ids \cup {NoId}, pwOk \in BOOLEAN : Join(c, want, pwOk)
    BY <1>4, JoinIsLive
  <1>5. CASE ctx[c] # NoId /\ IsMember(ctx[c]) /\ Seen(ctx[c])
    <2>1. ctx[c] \in Ids BY <1>5 DEF PromptInv, RecordInv, TypeOK
    <2>2. clients[ctx[c]] \in Client BY <1>5, <2>1 DEF PromptInv, RecordInv, TypeOK, IsMember
    <2>3. [clients[ctx[c]] EXCEPT !.silence = 0] \in Client BY <2>2, ZeroTicks DEF Client
    <2>4. clients' = [clients EXCEPT ![ctx[c]] = [clients[ctx[c]] EXCEPT !.silence = 0]]
      BY <1>5 DEF Seen, MarkSeen
    <2>5. /\ [clients[ctx[c]] EXCEPT !.silence = 0] # Absent
          /\ [clients[ctx[c]] EXCEPT !.silence = 0].conn = clients[ctx[c]].conn
      BY <2>2, <2>3, SentinelsAssumption DEF Client
    <2>6. UNCHANGED <<sock, ctx, blocks>> BY <1>5 DEF Seen, sockVars
    <2>7. \A i \in Ids : (IsMember(i)' <=> IsMember(i)) /\ (HasSocket(i)' <=> HasSocket(i))
      BY <1>5, <2>1, <2>4, <2>5 DEF HasSocket, IsMember, PromptInv, RecordInv, TypeOK
    <2>8. \A i \in Ids : SeatStays(i) BY <2>6, <2>7 DEF SeatStays, SeatOf, SpeakersOf
    <2>9. QED BY <2>8, FadingIsLive
  <1>6. QED
    BY <1>1, <1>2, <1>3, <1>4, <1>5
    DEF SocketNext, JoinTimeout, EventFrame, EditFrame, BufferFrame, Heartbeat,
        NotJoined, RoomGone, HasSocket

LEMMA KickIsLive ==
  ASSUME PromptInv, NEW i \in Ids, Kick(i)
  PROVE  Promise!Next
  <1>1. CloseAll({clients[i].conn} \ {NoConn}, "KICKED") BY DEF Kick
  <1>2. /\ blocks'[i] # 0 /\ clients'[i] = Absent /\ IsMember(i)
        /\ \A j \in Ids \ {i} : clients'[j] = clients[j] /\ blocks'[j] = blocks[j]
    BY TicksAssumption DEF Kick, PromptInv, RecordInv, TypeOK
  <1>3. \A j \in Ids : SpeakersOf(j)' = SpeakersOf(j) \ {clients[i].conn}
    BY <1>1, CloseAllSock, SentinelsAssumption DEF CloseAll, SpeakersOf, PromptInv, RecordInv
  <1>4. SpeakersOf(i)' = {} BY <1>3, OneSpeaker
  <1>5. SeatOf(i) \in {"in", "away"} BY <1>2, OneSpeaker
  <1>6. SeatOf(i)' = "banned" BY <1>2 DEF SeatOf
  <1>7. SeatMoves(i) BY <1>4, <1>5, <1>6 DEF SeatMoves
  <1>8. ASSUME NEW j \in Ids \ {i} PROVE SeatStays(j)
    <2>1. clients[i].conn \notin SpeakersOf(j)
      <3>1. CASE HasSocket(i)
        BY <3>1 DEF PromptInv, RecordInv, SocketBacksRecord, HasSocket, SpeakersOf
      <3>2. CASE ~HasSocket(i) BY <1>2, <3>2, SentinelsAssumption DEF HasSocket, SpeakersOf
      <3>3. QED BY <3>1, <3>2
    <2>2. SpeakersOf(j)' = SpeakersOf(j) BY <1>3, <2>1
    <2>3. QED BY <1>2, <2>2, SameRecordsSameSeats DEF SeatStays
  <1>9. QED BY <1>7, <1>8, MovingIsLive

LEMMA DropIsClose ==
  ASSUME PromptInv, NEW code, DropRuntime(code)
  PROVE  Promise!Next
  <1>1. CloseAll(MemberSockets, code) /\ clients' = NoClients /\ blocks' = NoBlocks
    BY DEF DropRuntime
  <1>2. \A i \in Ids : SeatOf(i)' = "out"
    BY <1>1 DEF SeatOf, NoClients, NoBlocks, IsMember
  <1>3. ASSUME NEW i \in Ids PROVE SpeakersOf(i)' = {}
    <2>1. SpeakersOf(i)' = SpeakersOf(i) \ MemberSockets
      BY <1>1, CloseAllSock DEF CloseAll, SpeakersOf, PromptInv, RecordInv
    <2>2. SpeakersOf(i) \subseteq MemberSockets
      <3>1. SpeakersOf(i) = {} \/ (SpeakersOf(i) = {clients[i].conn} /\ SeatOf(i) = "in")
        BY OneSpeaker
      <3>2. SeatOf(i) = "in" => clients[i].conn \in MemberSockets
        BY DEF SeatOf, MemberSockets
      <3>3. QED BY <3>1, <3>2
    <2>3. QED BY <2>1, <2>2
  <1>4. QED BY <1>2, <1>3, EmptyIsClose

LEMMA TickIsLive ==
  ASSUME PromptInv, Tick
  PROVE  Promise!Next
  <1>1. CASE expired /\ DropRuntime("ROOM_EXPIRED") BY <1>1, DropIsClose
  <1>2. CASE ~expired
    <2>1. CloseAll({clients[i].conn : i \in {j \in Ids : IsIdle(j)}}, None) BY <1>2 DEF Tick
    <2>2. /\ blocks' = blocks
          /\ \A i \in Ids : clients'[i] = IF IsExpiredTombstone(i) THEN Absent ELSE clients[i]
      BY <1>2 DEF Tick
    <2>3. ASSUME NEW i \in Ids PROVE SeatStays(i) \/ SeatFades(i)
      <3>1. CASE IsExpiredTombstone(i)
        <4>1. IsMember(i) /\ ~HasSocket(i)
          BY <3>1 DEF PromptInv, RecordInv, SocketBacksRecord, IsExpiredTombstone, IsTombstone,
             HasSocket
        <4>2. SeatOf(i) = "away" /\ blocks[i] = 0
          BY <4>1 DEF SeatOf, PromptInv, RecordInv, BlockedHasNoRecord
        <4>3. SeatOf(i)' = "out" BY <2>2, <3>1, <4>2 DEF SeatOf, IsMember
        <4>4. SpeakersOf(i) = {} BY <4>2, OneSpeaker
        <4>5. SpeakersOf(i)' = {}
          BY <2>1, <4>4, CloseAllSock DEF CloseAll, SpeakersOf, PromptInv, RecordInv
        <4>6. QED BY <4>2, <4>3, <4>5 DEF SeatFades
      <3>2. CASE ~IsExpiredTombstone(i)
        BY <2>1, <2>2, <3>2, ClosingFades, SameRecordsSameSeats
      <3>3. QED BY <3>1, <3>2
    <2>4. QED BY <2>3, FadingIsLive
  <1>3. QED BY <1>1, <1>2 DEF Tick

LEMMA AdvanceIsLive ==
  ASSUME PromptInv, Advance
  PROVE  Promise!Next
  <1>1. UNCHANGED <<sock, ctx>> BY DEF Advance
  <1>2. \A i \in Ids : IsMember(i) => clients'[i] = Aged(clients[i]) /\ clients[i] \in Client
    BY DEF Advance, PromptInv, RecordInv, TypeOK, IsMember
  <1>3. \A client \in Client : Aged(client) # Absent /\ Aged(client).conn = client.conn
    BY AgedTypes, SentinelsAssumption DEF Aged, Client
  <1>4. \A i \in Ids : (IsMember(i)' <=> IsMember(i)) /\ (HasSocket(i)' <=> HasSocket(i))
    BY <1>2, <1>3 DEF Advance, IsMember, HasSocket
  <1>5. \A i \in Ids : blocks'[i] # 0 => blocks[i] # 0
    BY DEF Advance, PromptInv, RecordInv, TypeOK, Less
  <1>6. ASSUME NEW i \in Ids PROVE SeatStays(i) \/ SeatFades(i)
    <2>1. SpeakersOf(i)' = SpeakersOf(i) BY <1>1 DEF SpeakersOf
    <2>2. CASE blocks[i] # 0 /\ blocks'[i] = 0
      <3>1. SeatOf(i) = "banned" BY <2>2 DEF SeatOf
      <3>2. ~IsMember(i) BY <2>2 DEF PromptInv, RecordInv, BlockedHasNoRecord
      <3>3. SeatOf(i)' = "out" BY <1>4, <2>2, <3>2 DEF SeatOf
      <3>4. QED BY <2>1, <3>1, <3>3, OneSpeaker DEF SeatFades
    <2>3. CASE ~(blocks[i] # 0 /\ blocks'[i] = 0)
      BY <1>4, <1>5, <2>1, <2>3 DEF SeatStays, SeatOf
    <2>4. QED BY <2>2, <2>3
  <1>7. QED BY <1>6, FadingIsLive

LEMMA StepIsLive == PromptInv /\ [Next]_vars => Promise!Next
  <1> SUFFICES ASSUME PromptInv, [Next]_vars PROVE Promise!Next
    OBVIOUS
  <1>1. CASE \E c \in Conns : SocketNext(c) BY <1>1, SocketIsLive
  <1>2. CASE \E i \in Ids : Kick(i) BY <1>2, KickIsLive
  <1>3. CASE Tick BY <1>3, TickIsLive
  <1>4. CASE UNCHANGED <<sockVars, clients, blocks>>
    <2>1. \A i \in Ids : SeatStays(i) BY <1>4, UnchangedSeats DEF sockVars
    <2>2. QED BY <2>1, FadingIsLive
  <1>5. CASE DeleteRoom \/ DestroyLost \/ PruneRow \/ Expire
    BY <1>4, <1>5 DEF DeleteRoom, DestroyLost, PruneRow, Expire
  <1>6. CASE Destroy BY <1>4, <1>6, DropIsClose DEF Destroy
  <1>7. CASE Advance BY <1>7, AdvanceIsLive
  <1>8. CASE Restart
    BY <1>8, EmptyIsClose DEF Restart, SeatOf, SpeakersOf, IsMember, NoClients, NoBlocks
  <1>9. CASE UNCHANGED vars BY <1>4, <1>9 DEF vars, sockVars
  <1>10. QED BY <1>1, <1>2, <1>3, <1>5, <1>6, <1>7, <1>8, <1>9 DEF Next

\* Prompt sockets: the room implements Seats - every step of the daemon's
\* callbacks moves, silences, bans or pardons viewers only as Seats allows.
THEOREM RoomKeepsSeats == ASSUME PromptClose PROVE Spec => KeepsSeats
  <1>1. Init => Promise!Init
    BY DEF Init, Promise!Init, SeatOf, SpeakersOf, IsMember, NoClients, NoBlocks
  <1>2. QED BY <1>1, StepIsLive, PromptInvariant, PTL DEF Spec, KeepsSeats, Promise!Spec
=============================================================================
