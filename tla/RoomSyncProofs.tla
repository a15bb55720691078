--------------------------- MODULE RoomSyncProofs ---------------------------
(***************************************************************************)
(* Theorems about RoomSync, for any viewers, videos, modes and bounds.     *)
(***************************************************************************)
EXTENDS RoomSync, SequenceTheorems, TLAPS

-----------------------------------------------------------------------------
(* What a handler in progress stands for: TypeOK is not inductive without  *)
(* it, since a CURSOR_CHANGE carries a video and never None.               *)

Joining == {"read", "merged", "reread", "seeded", "moved", "answer"}

HandlerOK ==
  /\ handler.step = "idle" => handler = Idle
  /\ handler.step = "cursor" => handler.outcome.cursor \in Videos
  /\ handler.step = "seeded" => handler.showing \in Videos
  /\ IF handler.step \in Joining THEN handler.client \in seated ELSE handler.client = None

-----------------------------------------------------------------------------
(* Types.                                                                  *)

LEMMA FramesTyped ==
  ASSUME NEW id \in 0..MaxVersion
  PROVE  /\ \A plays \in BOOLEAN : StateFrame(id, plays) \in Frame
         /\ \A v \in Videos : CursorFrame(v, id) \in Frame
         /\ \A list \in SUBSET Videos : PlaylistFrame(list) \in Frame
  BY DEF StateFrame, CursorFrame, PlaylistFrame, Frame

LEMMA SendTyped ==
  ASSUME chan \in [Clients -> Seq(Frame)], NEW S, NEW frames \in Seq(Frame), Send(S, frames)
  PROVE  chan' \in [Clients -> Seq(Frame)]
  <1>1. \A c \in Clients : chan[c] \o frames \in Seq(Frame) BY ConcatProperties
  <1>2. QED BY <1>1 DEF Send

LEMMA ToldTyped ==
  ASSUME untold \in [Clients -> SUBSET Aspects]
  PROVE  /\ \A S, aspects : Told(S, aspects) => untold' \in [Clients -> SUBSET Aspects]
         /\ \A aspects \in SUBSET Aspects : Untell(aspects) => untold' \in [Clients -> SUBSET Aspects]
         /\ Silently => untold' \in [Clients -> SUBSET Aspects]
  <1>1. \A S, aspects : Told(S, aspects) => untold' \in [Clients -> SUBSET Aspects] BY DEF Told
  <1>2. \A aspects \in SUBSET Aspects : Untell(aspects) => untold' \in [Clients -> SUBSET Aspects]
    BY DEF Untell
  <1>3. If(row'.cursor # row.cursor, "cursor") \cup If(row'.list # row.list, "list")
          \in SUBSET Aspects
    BY DEF If, Aspects
  <1>4. QED BY <1>1, <1>2, <1>3 DEF Silently

\* What a transaction leaves is a row with the cursor and the list it should.
LEMMA OutcomesTyped ==
  ASSUME row \in Row
  PROVE  /\ \A videos \in SUBSET Videos : MergeOutcomes(videos) \subseteq Row
         /\ \A v \in Videos : \A outcome \in MoveOutcomes(v) :
              outcome \in Row /\ outcome.cursor = v
  <1>1. \A list \in SUBSET Videos : \A cursor : Stored(list, cursor) \subseteq SUBSET Videos
    BY DEF Stored
  <1>2. ASSUME NEW videos \in SUBSET Videos PROVE MergeOutcomes(videos) \subseteq Row
    <2>1. row.list \cup videos \in SUBSET Videos BY DEF Row
    <2>2. QED BY <1>1, <2>1 DEF MergeOutcomes, Row
  <1>3. ASSUME NEW v \in Videos, NEW outcome \in MoveOutcomes(v)
        PROVE  outcome \in Row /\ outcome.cursor = v
    <2>1. row.list \cup {v} \in SUBSET Videos BY DEF Row
    <2>2. CASE v \in row.list BY <2>2 DEF MoveOutcomes, Row
    <2>3. CASE v \notin row.list
      <3>1. PICK list \in Stored(row.list \cup {v}, v) :
              outcome = [row EXCEPT !.list = list, !.cursor = v]
        BY <2>3 DEF MoveOutcomes
      <3>2. list \in SUBSET Videos BY <1>1, <2>1
      <3>3. QED BY <3>1, <3>2 DEF Row
    <2>4. QED BY <2>2, <2>3
  <1>4. QED BY <1>2, <1>3

LEMMA CommitTyped ==
  ASSUME TypeOK, NEW outcomes \in SUBSET Row, Commit(outcomes)
  PROVE  row' \in Row /\ commits' \in 0..MaxCommits
  BY BoundsAssumption DEF Commit, TypeOK

LEMMA CallsTyped ==
  ASSUME TypeOK, NEW kind \in Kinds
  PROVE  /\ Call(kind) => calls' \in [Kinds -> 0..MaxCalls]
         /\ (calls[kind] > 0 /\ calls' = [calls EXCEPT ![kind] = @ - 1]) =>
              calls' \in [Kinds -> 0..MaxCalls]
  <1>1. calls[kind] \in 0..MaxCalls /\ MaxCalls \in Nat BY BoundsAssumption DEF TypeOK
  <1>2. calls[kind] < MaxCalls => calls[kind] + 1 \in 0..MaxCalls BY <1>1
  <1>3. calls[kind] > 0 => calls[kind] - 1 \in 0..MaxCalls BY <1>1
  <1>4. \A n \in 0..MaxCalls : [calls EXCEPT ![kind] = n] \in [Kinds -> 0..MaxCalls] BY DEF TypeOK
  <1>5. QED BY <1>2, <1>3, <1>4 DEF Call

LEMMA IdleTyped == Idle \in Handler /\ NoRow \in Row /\ NewSession \in Session
  BY BoundsAssumption DEF Idle, Handler, Steps, NoRow, Row, NewSession, Session

LEMMA FoldedTyped ==
  ASSUME NEW s \in Session, NEW frame \in Frame
  PROVE  Folded(s, frame) \in Session
  <1>1. CASE frame \in [type : {"STATE"}, id : 0..MaxVersion, playing : BOOLEAN]
    BY <1>1 DEF Folded, Later, Session
  <1>2. CASE frame \in [type : {"ROOM_STATE"}, id : 0..MaxVersion, playing : BOOLEAN,
                        cursor : Videos \cup {None}, whole : BOOLEAN, join : BOOLEAN]
    BY <1>2 DEF Folded, Session
  <1>3. CASE frame \in [type : {"CURSOR_CHANGE"}, id : 0..MaxVersion, cursor : Videos]
    BY <1>3 DEF Folded, Later, Session
  <1>4. CASE frame \in [type : {"PLAYLIST_UPDATE"}, list : SUBSET Videos]
    BY <1>4 DEF Folded, Session
  <1>5. QED BY <1>1, <1>2, <1>3, <1>4 DEF Frame

LEMMA InitTyped == Init => TypeOK
  <1> SUFFICES ASSUME Init PROVE TypeOK OBVIOUS
  <1>1. \A c \in Clients : <<>> \in Seq(Frame) OBVIOUS
  <1>2. /\ row \in Row /\ cache \in Row /\ handler \in Handler
        /\ session \in [Clients -> Session] /\ chan \in [Clients -> Seq(Frame)]
    BY <1>1, IdleTyped DEF Init
  <1>3. /\ commits \in 0..MaxCommits /\ version \in 0..MaxVersion
        /\ calls \in [Kinds -> 0..MaxCalls] /\ cursorEvent \in 0..version
    BY BoundsAssumption DEF Init
  <1>4. QED BY <1>2, <1>3 DEF Init, TypeOK

\* Whatever the daemon announces is typed.
LEMMA PlaybackTyped ==
  ASSUME TypeOK, version' \in 0..MaxVersion, playing' \in BOOLEAN, NEW S,
         Send(S, <<StateFrame(version', playing')>>)
  PROVE  chan' \in [Clients -> Seq(Frame)]
  <1>1. <<StateFrame(version', playing')>> \in Seq(Frame) BY FramesTyped
  <1>2. QED BY <1>1, SendTyped DEF TypeOK

LEMMA PlaybackStepTyped ==
  ASSUME TypeOK
  PROVE  /\ \A c \in Clients, event \in {"play", "pause", "seek"} : EventFrame(c, event) => TypeOK'
         /\ \A event \in {"play", "pause", "seek"} : OwnerPlayback(event) => TypeOK'
         /\ OwnerReset => TypeOK'
  <1>1. \A event \in {"play", "pause", "seek"} : After(event) \in BOOLEAN BY DEF After, TypeOK
  <1>2. /\ version < MaxVersion => version + 1 \in 0..MaxVersion
        /\ version + 1 < MaxVersion => version + 2 \in 0..MaxVersion
    BY BoundsAssumption DEF TypeOK
  <1>3. ASSUME NEW c \in Clients, NEW event \in {"play", "pause", "seek"}, EventFrame(c, event)
        PROVE  TypeOK'
    <2>1. version' \in 0..MaxVersion /\ playing' \in BOOLEAN BY <1>1, <1>2, <1>3 DEF EventFrame
    <2>2. chan' \in [Clients -> Seq(Frame)] BY <1>3, <2>1, PlaybackTyped DEF EventFrame
    <2>3. QED BY <1>3, <2>1, <2>2 DEF EventFrame, TypeOK, rowVars
  <1>4. ASSUME NEW event \in {"play", "pause", "seek"}, OwnerPlayback(event) PROVE TypeOK'
    <2>1. version' \in 0..MaxVersion /\ playing' \in BOOLEAN
      BY <1>1, <1>2, <1>4 DEF OwnerPlayback
    <2>2. chan' \in [Clients -> Seq(Frame)] BY <1>4, <2>1, PlaybackTyped DEF OwnerPlayback
    <2>3. QED BY <1>4, <2>1, <2>2 DEF OwnerPlayback, TypeOK, rowVars
  <1>5. ASSUME OwnerReset PROVE TypeOK'
    <2>1. version' \in 0..MaxVersion /\ playing' \in BOOLEAN BY <1>2, <1>5 DEF OwnerReset
    <2>2. playing' = FALSE BY <1>5 DEF OwnerReset
    <2>3. Send(seated, <<StateFrame(version', playing')>>) BY <1>5, <2>2 DEF OwnerReset
    <2>4. chan' \in [Clients -> Seq(Frame)] BY <2>1, <2>3, PlaybackTyped
    <2>5. QED BY <1>5, <2>1, <2>4 DEF OwnerReset, TypeOK, rowVars
  <1>6. QED BY <1>3, <1>4, <1>5

\* The requests of a viewer and their answers.
LEMMA RequestStepTyped ==
  ASSUME TypeOK
  PROVE  /\ \A v \in Videos : RequestCursor(v) => TypeOK'
         /\ \A videos \in SUBSET Videos : SendPlaylist(videos) => TypeOK'
  <1>1. row \in Row BY DEF TypeOK
  <1>2. ASSUME NEW outcome \in Row, NEW appended \in BOOLEAN, NEW step \in {"cursor", "playlist"}
        PROVE  /\ [Idle EXCEPT !.step = step, !.outcome = outcome] \in Handler
               /\ [Idle EXCEPT !.step = step, !.outcome = outcome, !.appended = appended] \in Handler
    BY DEF Idle, Handler, Steps
  <1>3. ASSUME NEW v \in Videos, RequestCursor(v) PROVE TypeOK'
    <2>1. PICK outcome \in MoveOutcomes(v) :
            /\ Commit({outcome})
            /\ handler' = [Idle EXCEPT !.step = "cursor", !.outcome = outcome,
                                       !.appended = v \notin row.list]
      BY <1>3 DEF RequestCursor
    <2>2. outcome \in Row BY <1>1, OutcomesTyped
    <2>3. row' \in Row /\ commits' \in 0..MaxCommits BY <2>1, <2>2, CommitTyped
    <2>4. handler' \in Handler BY <1>2, <2>1, <2>2
    <2>5. QED BY <1>3, <2>3, <2>4 DEF RequestCursor, TypeOK
  <1>4. ASSUME NEW videos \in SUBSET Videos, SendPlaylist(videos) PROVE TypeOK'
    <2>1. PICK outcome \in MergeOutcomes(videos) :
            /\ Commit({outcome})
            /\ handler' = [Idle EXCEPT !.step = "playlist", !.outcome = outcome]
      BY <1>4 DEF SendPlaylist
    <2>2. outcome \in Row BY <1>1, OutcomesTyped
    <2>3. row' \in Row /\ commits' \in 0..MaxCommits BY <2>1, <2>2, CommitTyped
    <2>4. handler' \in Handler BY <1>2, <2>1, <2>2
    <2>5. QED BY <1>4, <2>3, <2>4 DEF SendPlaylist, TypeOK
  <1>5. QED BY <1>3, <1>4

LEMMA EpisodeTyped ==
  ASSUME TypeOK, EpisodeReset
  PROVE  version' \in 0..MaxVersion /\ playing' \in BOOLEAN /\ cursorEvent' \in 0..version'
  <1>1. version \in 0..MaxVersion /\ MaxVersion \in Nat BY BoundsAssumption DEF TypeOK
  <1>2. version' \in 0..MaxVersion /\ version' \in 0..version' /\ cursorEvent' = version'
    BY <1>1 DEF EpisodeReset
  <1>3. playing' = FALSE BY DEF EpisodeReset
  <1>4. QED BY <1>2, <1>3

LEMMA AnnounceTyped ==
  ASSUME TypeOK, HandlerOK
  PROVE  (AnnounceCursor \/ AnnouncePlaylist) => TypeOK'
  <1>1. row \in Row /\ handler.outcome \in Row BY DEF TypeOK, Handler
  <1>2. handler.outcome.list \in SUBSET Videos BY <1>1 DEF Row
  <1>3. ASSUME AnnounceCursor PROVE TypeOK'
    <2>1. version' \in 0..MaxVersion /\ playing' \in BOOLEAN /\ cursorEvent' \in 0..version'
      BY <1>3, EpisodeTyped DEF AnnounceCursor
    <2>2. handler.outcome.cursor \in Videos BY <1>3 DEF AnnounceCursor, HandlerOK
    <2> DEFINE move == CursorFrame(handler.outcome.cursor, version')
               news == PlaylistFrame(handler.outcome.list)
    <2>3. move \in Frame /\ news \in Frame BY <1>2, <2>1, <2>2, FramesTyped
    <2>4. <<news, move>> \in Seq(Frame) /\ <<move>> \in Seq(Frame) BY <2>3
    <2>5. Send(seated, IF handler.appended THEN <<news, move>> ELSE <<move>>)
      BY <1>3 DEF AnnounceCursor
    <2> HIDE DEF move, news
    <2>6. (IF handler.appended THEN <<news, move>> ELSE <<move>>) \in Seq(Frame) BY <2>4
    <2>7. chan' \in [Clients -> Seq(Frame)] BY <2>5, <2>6, SendTyped DEF TypeOK
    <2>8. untold' \in [Clients -> SUBSET Aspects] BY <1>3, ToldTyped DEF AnnounceCursor, TypeOK
    <2>9. QED BY <1>1, <1>3, <2>1, <2>7, <2>8, IdleTyped DEF AnnounceCursor, TypeOK, rowVars
  <1>4. ASSUME AnnouncePlaylist PROVE TypeOK'
    <2> DEFINE news == <<PlaylistFrame(handler.outcome.list)>>
    <2>1. news \in Seq(Frame) BY <1>2, FramesTyped, BoundsAssumption DEF PlaylistFrame, Frame
    <2>2. Send(seated, news) BY <1>4 DEF AnnouncePlaylist
    <2>3. chan' \in [Clients -> Seq(Frame)] BY <2>1, <2>2, SendTyped DEF TypeOK
    <2>4. untold' \in [Clients -> SUBSET Aspects] BY <1>4, ToldTyped DEF AnnouncePlaylist, TypeOK
    <2>5. QED BY <1>1, <1>4, <2>3, <2>4, IdleTyped DEF AnnouncePlaylist, TypeOK, rowVars
  <1>5. QED BY <1>3, <1>4

\* The steps of a JOIN that touch the row or the copy.
LEMMA JoinStepTyped ==
  ASSUME TypeOK, HandlerOK
  PROVE  /\ \A c \in Clients, showing \in Videos \cup {None} : JoinRead(c, showing) => TypeOK'
         /\ \A videos \in SUBSET Videos : JoinMerge(videos) => TypeOK'
         /\ JoinReread \/ JoinSeed \/ JoinMove \/ JoinMoveRefused => TypeOK'
  <1>1. row \in Row /\ handler \in Handler BY DEF TypeOK
  <1>2. \A step \in Steps : [handler EXCEPT !.step = step] \in Handler BY <1>1 DEF Handler
  <1>3. ASSUME NEW c \in Clients, NEW showing \in Videos \cup {None}, JoinRead(c, showing)
        PROVE  TypeOK'
    <2>1. [Idle EXCEPT !.step = "read", !.client = c, !.showing = showing] \in Handler
      BY IdleTyped DEF Handler, Steps, Idle
    <2>2. untold' \in [Clients -> SUBSET Aspects] BY <1>3 DEF JoinRead, TypeOK
    <2>3. QED BY <1>1, <1>3, <2>1, <2>2 DEF JoinRead, TypeOK, rowVars
  <1>4. ASSUME NEW videos \in SUBSET Videos, JoinMerge(videos) PROVE TypeOK'
    <2>1. row' \in Row /\ commits' \in 0..MaxCommits
      BY <1>1, <1>4, OutcomesTyped, CommitTyped DEF JoinMerge
    <2>2. untold' \in [Clients -> SUBSET Aspects] BY <1>4, ToldTyped DEF JoinMerge, TypeOK
    <2>3. handler' \in Handler BY <1>2, <1>4 DEF JoinMerge, Steps
    <2>4. QED BY <1>4, <2>1, <2>2, <2>3 DEF JoinMerge, TypeOK
  <1>5. ASSUME JoinReread PROVE TypeOK'
    <2>1. handler' \in Handler BY <1>2, <1>5 DEF JoinReread, Steps
    <2>2. QED BY <1>1, <1>5, <2>1 DEF JoinReread, TypeOK, rowVars
  <1>6. ASSUME JoinSeed PROVE TypeOK'
    <2>1. {handler.showing} \in SUBSET Videos
      BY <1>1, <1>6 DEF JoinSeed, SeedDue, Handler
    <2>2. row' \in Row /\ commits' \in 0..MaxCommits
      BY <1>1, <1>6, <2>1, OutcomesTyped, CommitTyped DEF JoinSeed
    <2>3. untold' \in [Clients -> SUBSET Aspects] BY <1>6, ToldTyped DEF JoinSeed, TypeOK
    <2>4. handler' \in Handler BY <1>2, <1>6 DEF JoinSeed, Steps
    <2>5. QED BY <1>6, <2>2, <2>3, <2>4 DEF JoinSeed, TypeOK
  <1>7. ASSUME JoinMove PROVE TypeOK'
    <2>1. handler.showing \in Videos BY <1>1, <1>7 DEF JoinMove, SeedDue, Handler, HandlerOK
    <2>2. MoveOutcomes(handler.showing) \in SUBSET Row BY <1>1, <2>1, OutcomesTyped
    <2>3. row' \in Row /\ commits' \in 0..MaxCommits
      BY <1>7, <2>2, CommitTyped DEF JoinMove, TypeOK
    <2>4. untold' \in [Clients -> SUBSET Aspects] BY <1>7, ToldTyped DEF JoinMove, TypeOK
    <2>5. handler' \in Handler BY <1>2, <1>7 DEF JoinMove, Steps
    <2>6. QED BY <1>7, <2>3, <2>4, <2>5 DEF JoinMove, TypeOK
  <1>8. ASSUME JoinMoveRefused PROVE TypeOK'
    <2>1. handler' \in Handler BY <1>2, <1>8 DEF JoinMoveRefused, Steps
    <2>2. QED BY <1>8, <2>1 DEF JoinMoveRefused, TypeOK, rowVars
  <1>9. QED BY <1>3, <1>4, <1>5, <1>6, <1>7, <1>8

LEMMA Joined ==
  ASSUME NEW x, NEW y, NEW z
  PROVE  /\ <<x>> \o <<>> = <<x>> /\ <<x>> \o <<y>> = <<x, y>>
         /\ <<x, y>> \o <<>> = <<x, y>> /\ <<x, y>> \o <<z>> = <<x, y, z>>
  <1> DEFINE S == {x, y, z}
  <1>1. /\ <<>> \in Seq(S) /\ <<x>> \in Seq(S) /\ <<y>> \in Seq(S) /\ <<z>> \in Seq(S)
        /\ <<x, y>> \in Seq(S)
    OBVIOUS
  <1>2. <<x>> \o <<>> = <<x>> /\ <<x, y>> \o <<>> = <<x, y>> BY <1>1, ConcatEmptySeq
  <1>3. <<x>> \o <<y>> = <<x, y>>
    <2>1. <<x>> \o <<y>> \in Seq(S) /\ <<x, y>> \in Seq(S) BY <1>1, ConcatProperties
    <2>2. Len(<<x>> \o <<y>>) = 2 /\ Len(<<x, y>>) = 2 BY <1>1, ConcatProperties
    <2>3. (<<x>> \o <<y>>)[1] = x /\ (<<x>> \o <<y>>)[2] = y BY <1>1, ConcatProperties
    <2>4. \A i \in 1..2 : (<<x>> \o <<y>>)[i] = <<x, y>>[i] BY <2>3
    <2>5. QED BY <2>1, <2>2, <2>4, SeqEqual
  <1>4. <<x, y>> \o <<z>> = <<x, y, z>>
    <2>1. <<x, y>> \o <<z>> \in Seq(S) /\ <<x, y, z>> \in Seq(S) BY <1>1, ConcatProperties
    <2>2. Len(<<x, y>> \o <<z>>) = 3 /\ Len(<<x, y, z>>) = 3 BY <1>1, ConcatProperties
    <2>3. /\ (<<x, y>> \o <<z>>)[1] = x /\ (<<x, y>> \o <<z>>)[2] = y
          /\ (<<x, y>> \o <<z>>)[3] = z
      BY <1>1, ConcatProperties
    <2>4. \A i \in 1..3 : (<<x, y>> \o <<z>>)[i] = <<x, y, z>>[i] BY <2>3
    <2>5. QED BY <2>1, <2>2, <2>4, SeqEqual
  <1>5. QED BY <1>2, <1>3, <1>4

\* What a JOIN is answered with is one of four sequences.
AnswerFrames ==
  <<RoomStateFrame(session[handler.client].last, TRUE)>> \o
  (IF cache.list = {} THEN <<>> ELSE <<PlaylistFrame(cache.list)>>) \o
  (IF handler.showing # None /\ cache.cursor \notin {None, handler.showing}
     THEN <<CursorFrame(cache.cursor, version)>> ELSE <<>>)

LEMMA AnswerIs ==
  LET r == RoomStateFrame(session[handler.client].last, TRUE)
      p == PlaylistFrame(cache.list)
      f == CursorFrame(cache.cursor, version)
  IN  /\ AnswerFrames \in {<<r>>, <<r, p>>, <<r, f>>, <<r, p, f>>}
      /\ cache.list # {} => AnswerFrames \in {<<r, p>>, <<r, p, f>>}
  <1> DEFINE r == RoomStateFrame(session[handler.client].last, TRUE)
             p == PlaylistFrame(cache.list)
             f == CursorFrame(cache.cursor, version)
             list == IF cache.list = {} THEN <<>> ELSE <<p>>
             steer == IF handler.showing # None /\ cache.cursor \notin {None, handler.showing}
                        THEN <<f>> ELSE <<>>
  <1>1. AnswerFrames = <<r>> \o list \o steer BY DEF AnswerFrames
  <1> HIDE DEF r, p, f
  <1>2. <<r>> \o <<>> = <<r>> /\ <<r>> \o <<p>> = <<r, p>> BY Joined
  <1>3. <<r, p>> \o <<>> = <<r, p>> /\ <<r, p>> \o <<f>> = <<r, p, f>> BY Joined
  <1>4. <<r>> \o <<f>> = <<r, f>> BY Joined
  <1>5. /\ IF cache.list = {} THEN list = <<>> ELSE list = <<p>>
        /\ steer \in {<<>>, <<f>>}
    OBVIOUS
  <1> HIDE DEF list, steer
  <1>6. IF cache.list = {} THEN <<r>> \o list = <<r>> ELSE <<r>> \o list = <<r, p>> BY <1>2, <1>5
  <1>7. CASE cache.list = {}
    <2>1. AnswerFrames \in {<<r>>, <<r, f>>} BY <1>1, <1>2, <1>4, <1>5, <1>6, <1>7
    <2>2. QED BY <1>7, <2>1 DEF r, p, f
  <1>8. CASE cache.list # {}
    <2>1. AnswerFrames \in {<<r, p>>, <<r, p, f>>} BY <1>1, <1>3, <1>5, <1>6, <1>8
    <2>2. QED BY <2>1 DEF r, p, f
  <1>9. QED BY <1>7, <1>8

LEMMA AnswerTyped ==
  ASSUME TypeOK
  PROVE  AnswerFrames \in Seq(Frame)
  <1> DEFINE list == IF cache.list = {} THEN <<>> ELSE <<PlaylistFrame(cache.list)>>
             steer == IF handler.showing # None /\ cache.cursor \notin {None, handler.showing}
                        THEN <<CursorFrame(cache.cursor, version)>> ELSE <<>>
             state == <<RoomStateFrame(session[handler.client].last, TRUE)>>
  <1>1. cache \in Row /\ version \in 0..MaxVersion /\ playing \in BOOLEAN BY DEF TypeOK
  <1>2. state \in Seq(Frame) BY <1>1 DEF RoomStateFrame, Replayable, Frame, Row
  <1>3. list \in Seq(Frame)
    <2>1. cache.list \in SUBSET Videos BY <1>1 DEF Row
    <2>2. PlaylistFrame(cache.list) \in Frame BY <1>1, <2>1, FramesTyped
    <2>3. QED BY <2>2
  <1>4. steer \in Seq(Frame)
    <2>1. CASE cache.cursor = None BY <2>1
    <2>2. CASE cache.cursor # None
      <3>1. cache.cursor \in Videos BY <1>1, <2>2 DEF Row
      <3>2. CursorFrame(cache.cursor, version) \in Frame BY <1>1, <3>1, FramesTyped
      <3>3. QED BY <3>2
    <2>3. QED BY <2>1, <2>2
  <1>5. AnswerFrames = state \o list \o steer BY DEF AnswerFrames
  <1> HIDE DEF list, steer, state
  <1>6. QED BY <1>2, <1>3, <1>4, <1>5, ConcatProperties

LEMMA JoinAnswerTyped ==
  ASSUME TypeOK, JoinAnswer
  PROVE  TypeOK'
  <1>1. Send({handler.client}, AnswerFrames) BY DEF JoinAnswer, AnswerFrames
  <1>2. chan' \in [Clients -> Seq(Frame)] BY <1>1, AnswerTyped, SendTyped DEF TypeOK
  <1>3. untold' \in [Clients -> SUBSET Aspects] BY ToldTyped DEF JoinAnswer, TypeOK
  <1>4. QED BY <1>2, <1>3, IdleTyped DEF JoinAnswer, TypeOK, rowVars

\* What a BUFFER_END is answered with: it is whole, and is no answer to a JOIN.
LEMMA ResyncTyped ==
  ASSUME TypeOK
  PROVE  /\ RoomStateFrame(0, FALSE) \in Frame /\ <<RoomStateFrame(0, FALSE)>> \in Seq(Frame)
         /\ RoomStateFrame(0, FALSE).type = "ROOM_STATE" /\ RoomStateFrame(0, FALSE).id = version
         /\ RoomStateFrame(0, FALSE).cursor = cache.cursor
         /\ RoomStateFrame(0, FALSE).whole = TRUE /\ RoomStateFrame(0, FALSE).join = FALSE
  <1>1. cache \in Row /\ version \in 0..MaxVersion /\ playing \in BOOLEAN BY DEF TypeOK
  <1> DEFINE r == RoomStateFrame(0, FALSE)
  <1>2. r \in Frame BY <1>1 DEF RoomStateFrame, Replayable, Frame, Row
  <1>3. /\ r.type = "ROOM_STATE" /\ r.id = version /\ r.cursor = cache.cursor
        /\ r.whole = Replayable(0) /\ r.join = FALSE
    BY DEF RoomStateFrame
  <1>4. Replayable(0) = TRUE BY DEF Replayable
  <1> HIDE DEF r
  <1>5. <<r>> \in Seq(Frame) BY <1>2
  <1>6. QED BY <1>2, <1>3, <1>4, <1>5 DEF r

LEMMA BufferEndTyped ==
  ASSUME TypeOK, NEW c \in Clients, BufferEnd(c)
  PROVE  TypeOK'
  <1>1. chan' \in [Clients -> Seq(Frame)] BY ResyncTyped, SendTyped DEF BufferEnd, TypeOK
  <1>2. untold' \in [Clients -> SUBSET Aspects] BY ToldTyped DEF BufferEnd, TypeOK
  <1>3. QED BY <1>1, <1>2 DEF BufferEnd, TypeOK, rowVars, daemonVars

LEMMA OwnerStepTyped ==
  ASSUME TypeOK
  PROVE  /\ \A v \in Videos : OwnerSetCursor(v) \/ OwnerAdd(v) \/ OwnerUpdate(v) \/ OwnerRemove(v)
                              => TypeOK'
         /\ OwnerClear => TypeOK'
         /\ \A mode \in Modes : OwnerMode(mode) => TypeOK'
  <1>1. row \in Row BY DEF TypeOK
  <1>2. ASSUME NEW outcomes \in SUBSET Row, Commit(outcomes), NEW kind \in Kinds, Call(kind),
               untold' \in [Clients -> SUBSET Aspects], Unmoved
        PROVE  TypeOK'
    <2>1. row' \in Row /\ commits' \in 0..MaxCommits BY <1>2, CommitTyped
    <2>2. calls' \in [Kinds -> 0..MaxCalls] BY <1>2, CallsTyped
    <2>3. QED BY <1>2, <2>1, <2>2 DEF Unmoved, TypeOK
  <1>3. ASSUME NEW v \in Videos
        PROVE  /\ {[row EXCEPT !.cursor = v]} \in SUBSET Row
               /\ MergeOutcomes({v}) \in SUBSET Row
               /\ {row} \in SUBSET Row
               /\ {[row EXCEPT !.list = @ \ {v}]} \in SUBSET Row
    <2>1. [row EXCEPT !.cursor = v] \in Row BY <1>1 DEF Row
    <2>2. [row EXCEPT !.list = @ \ {v}] \in Row BY <1>1 DEF Row
    <2>3. MergeOutcomes({v}) \in SUBSET Row BY <1>1, OutcomesTyped
    <2>4. QED BY <1>1, <2>1, <2>2, <2>3
  <1>4. [row EXCEPT !.list = {}, !.cursor = None] \in Row BY <1>1 DEF Row
  <1>5. \A mode \in Modes : [row EXCEPT !.mode = mode] \in Row BY <1>1 DEF Row
  <1>6. /\ {"cursor_change", "playlist_update", "room_state"} = Kinds
        /\ UNCHANGED untold => untold' \in [Clients -> SUBSET Aspects]
    BY DEF Kinds, TypeOK
  <1>7. ASSUME NEW v \in Videos, OwnerSetCursor(v) PROVE TypeOK'
    BY <1>2, <1>3, <1>6, <1>7 DEF OwnerSetCursor
  <1>8. ASSUME NEW v \in Videos, OwnerAdd(v) PROVE TypeOK'
    BY <1>2, <1>3, <1>6, <1>8 DEF OwnerAdd
  <1>9. ASSUME NEW v \in Videos, OwnerUpdate(v) PROVE TypeOK'
    BY <1>2, <1>3, <1>6, <1>9 DEF OwnerUpdate
  <1>10. ASSUME NEW v \in Videos, OwnerRemove(v) PROVE TypeOK'
    BY <1>2, <1>3, <1>6, <1>10 DEF OwnerRemove
  <1>11. ASSUME OwnerClear PROVE TypeOK'
    <2>1. untold' \in [Clients -> SUBSET Aspects]
      BY <1>11, ToldTyped DEF OwnerClear, TypeOK, If, Aspects
    <2>2. {[row EXCEPT !.list = {}, !.cursor = None]} \in SUBSET Row BY <1>4
    <2>3. QED BY <1>2, <1>6, <1>11, <2>1, <2>2 DEF OwnerClear
  <1>12. ASSUME NEW mode \in Modes, OwnerMode(mode) PROVE TypeOK'
    <2>1. {[row EXCEPT !.mode = mode]} \in SUBSET Row BY <1>5
    <2>2. QED BY <1>2, <1>6, <1>12, <2>1 DEF OwnerMode
  <1>13. QED BY <1>7, <1>8, <1>9, <1>10, <1>11, <1>12

LEMMA CallStepTyped ==
  ASSUME TypeOK
  PROVE  /\ \A kind \in Kinds : CallUnheard(kind) \/ CallLost(kind) => TypeOK'
         /\ CursorCall \/ PlaylistCall => TypeOK'
  <1>1. row \in Row BY DEF TypeOK
  <1>2. \A kind \in Kinds : Arrive(kind) => calls' \in [Kinds -> 0..MaxCalls]
    BY CallsTyped DEF Arrive
  <1>3. ASSUME NEW kind \in Kinds, CallUnheard(kind) PROVE TypeOK'
    <2>1. calls' \in [Kinds -> 0..MaxCalls] BY <1>2, <1>3 DEF CallUnheard
    <2>2. cache' \in Row /\ missed' \in BOOLEAN BY <1>1, <1>3 DEF CallUnheard, TypeOK
    <2>3. QED BY <1>3, <2>1, <2>2 DEF CallUnheard, TypeOK
  <1>4. ASSUME NEW kind \in Kinds, CallLost(kind) PROVE TypeOK'
    <2>1. calls' \in [Kinds -> 0..MaxCalls] BY <1>4, CallsTyped DEF CallLost
    <2>2. untold' \in [Clients -> SUBSET Aspects]
      <3>1. If(kind = "cursor_change", "cursor") \cup If(kind = "playlist_update", "list")
              \in SUBSET Aspects
        BY DEF If, Aspects
      <3>2. QED BY <1>4, <3>1, ToldTyped DEF CallLost, TypeOK
    <2>3. QED BY <1>4, <2>1, <2>2 DEF CallLost, TypeOK, daemonVars
  <1>5. ASSUME CursorCall PROVE TypeOK'
    <2>1. version' \in 0..MaxVersion /\ playing' \in BOOLEAN /\ cursorEvent' \in 0..version'
      BY <1>5, EpisodeTyped DEF CursorCall
    <2>2. row.cursor \in Videos BY <1>1, <1>5 DEF CursorCall, Row
    <2>3. <<CursorFrame(row.cursor, version')>> \in Seq(Frame) BY <2>1, <2>2, FramesTyped
    <2>4. chan' \in [Clients -> Seq(Frame)] BY <1>5, <2>3, SendTyped DEF CursorCall, TypeOK
    <2>5. untold' \in [Clients -> SUBSET Aspects] BY <1>5, ToldTyped DEF CursorCall, TypeOK
    <2>6. calls' \in [Kinds -> 0..MaxCalls] BY <1>2, <1>5 DEF CursorCall, Kinds
    <2>7. QED BY <1>1, <1>5, <2>1, <2>4, <2>5, <2>6 DEF CursorCall, TypeOK
  <1>6. ASSUME PlaylistCall PROVE TypeOK'
    <2>1. <<PlaylistFrame(row.list)>> \in Seq(Frame) BY <1>1 DEF PlaylistFrame, Frame, Row
    <2>2. chan' \in [Clients -> Seq(Frame)] BY <1>6, <2>1, SendTyped DEF PlaylistCall, TypeOK
    <2>3. untold' \in [Clients -> SUBSET Aspects] BY <1>6, ToldTyped DEF PlaylistCall, TypeOK
    <2>4. calls' \in [Kinds -> 0..MaxCalls] BY <1>2, <1>6 DEF PlaylistCall, Kinds
    <2>5. QED BY <1>1, <1>6, <2>2, <2>3, <2>4 DEF PlaylistCall, TypeOK
  <1>7. QED BY <1>3, <1>4, <1>5, <1>6

LEMMA ViewerStepTyped ==
  ASSUME TypeOK
  PROVE  /\ \A c \in Clients : Deliver(c) \/ Leave(c) => TypeOK'
         /\ Restart => TypeOK'
  <1>1. \A c \in Clients : <<>> \in Seq(Frame) /\ chan[c] \in Seq(Frame) BY DEF TypeOK
  <1>2. ASSUME NEW c \in Clients, Deliver(c) PROVE TypeOK'
    <2>1. chan[c] # <<>> BY <1>2 DEF Deliver
    <2>2. Head(chan[c]) \in Frame /\ Tail(chan[c]) \in Seq(Frame) BY <1>1, <2>1
    <2>3. chan' \in [Clients -> Seq(Frame)] BY <1>2, <2>2 DEF Deliver, TypeOK
    <2>4. session' \in [Clients -> Session] BY <1>2, <2>2, FoldedTyped DEF Deliver, TypeOK
    <2>5. QED BY <1>2, <2>3, <2>4 DEF Deliver, TypeOK, rowVars, daemonVars
  <1>3. ASSUME NEW c \in Clients, Leave(c) PROVE TypeOK'
    <2>1. chan' \in [Clients -> Seq(Frame)] BY <1>1, <1>3 DEF Leave, TypeOK
    <2>2. session' \in [Clients -> Session] BY <1>3, IdleTyped DEF Leave, TypeOK
    <2>3. untold' \in [Clients -> SUBSET Aspects] BY <1>3 DEF Leave, TypeOK
    <2>4. QED BY <1>3, <2>1, <2>2, <2>3 DEF Leave, TypeOK, rowVars
  <1>4. ASSUME Restart PROVE TypeOK'
    <2>1. chan' \in [Clients -> Seq(Frame)] BY <1>1, <1>4 DEF Restart
    <2>2. version' \in 0..MaxVersion /\ cursorEvent' \in 0..version'
      BY <1>4, BoundsAssumption DEF Restart
    <2>3. QED BY <1>4, <2>1, <2>2, IdleTyped DEF Restart, TypeOK, rowVars
  <1>5. QED BY <1>2, <1>3, <1>4

\* Each step of the program leaves a handler as its own next step finds it.
LEMMA HandlerStep ==
  ASSUME TypeOK, HandlerOK, Next
  PROVE  HandlerOK'
  <1>1. CASE UNCHANGED <<handler, seated>> BY <1>1 DEF HandlerOK
  <1>2. CASE handler' = Idle BY <1>2 DEF HandlerOK, Idle, Joining
  <1>3. ASSUME NEW v \in Videos, RequestCursor(v) PROVE HandlerOK'
    <2>1. row \in Row BY DEF TypeOK
    <2>2. PICK outcome \in MoveOutcomes(v) :
            handler' = [Idle EXCEPT !.step = "cursor", !.outcome = outcome,
                                    !.appended = v \notin row.list]
      BY <1>3 DEF RequestCursor
    <2>3. outcome.cursor = v BY <2>1, OutcomesTyped
    <2>4. QED BY <2>2, <2>3 DEF HandlerOK, Idle, Joining
  <1>4. ASSUME NEW videos \in SUBSET Videos, SendPlaylist(videos) PROVE HandlerOK'
    BY <1>4 DEF SendPlaylist, HandlerOK, Idle, Joining
  <1>5. ASSUME NEW c \in Clients, NEW showing \in Videos \cup {None}, JoinRead(c, showing)
        PROVE  HandlerOK'
    BY <1>5 DEF JoinRead, HandlerOK, Idle, Joining
  <1>6. ASSUME handler.step \in Joining, NEW step \in Joining \ {"seeded"},
               handler' = [handler EXCEPT !.step = step], seated' = seated
        PROVE  HandlerOK'
    BY <1>6 DEF HandlerOK, Joining, TypeOK, Handler
  <1>7. ASSUME NEW videos \in SUBSET Videos, JoinMerge(videos) PROVE HandlerOK'
    BY <1>6, <1>7 DEF JoinMerge, Joining
  <1>8. CASE JoinReread BY <1>6, <1>8 DEF JoinReread, Joining
  <1>9. CASE JoinSeed
    <2>1. handler.showing \in Videos /\ handler.step \in Joining
      BY <1>9 DEF JoinSeed, SeedDue, TypeOK, Handler, Joining
    <2>2. QED BY <1>9, <2>1 DEF JoinSeed, HandlerOK, Joining, TypeOK, Handler
  <1>10. CASE JoinMove BY <1>6, <1>10 DEF JoinMove, SeedDue, Joining
  <1>11. CASE JoinMoveRefused BY <1>6, <1>11 DEF JoinMoveRefused, Joining
  <1>12. CASE AnnounceCursor \/ AnnouncePlaylist \/ JoinAnswer
    BY <1>2, <1>12 DEF AnnounceCursor, AnnouncePlaylist, JoinAnswer
  <1>13. CASE \/ \E c \in Clients, event \in {"play", "pause", "seek"} : EventFrame(c, event)
              \/ \E event \in {"play", "pause", "seek"} : OwnerPlayback(event)
              \/ OwnerReset
    BY <1>1, <1>13 DEF EventFrame, OwnerPlayback, OwnerReset
  <1>14. CASE \/ \E v \in Videos : OwnerSetCursor(v) \/ OwnerAdd(v) \/ OwnerUpdate(v) \/ OwnerRemove(v)
              \/ OwnerClear
              \/ \E mode \in Modes : OwnerMode(mode)
    BY <1>1, <1>14
       DEF OwnerSetCursor, OwnerAdd, OwnerUpdate, OwnerRemove, OwnerClear, OwnerMode, Unmoved
  <1>15. CASE (\E kind \in Kinds : CallUnheard(kind) \/ CallLost(kind)) \/ CursorCall \/ PlaylistCall
    BY <1>1, <1>15 DEF CallUnheard, CallLost, CursorCall, PlaylistCall, daemonVars
  <1>16. ASSUME NEW c \in Clients, Deliver(c) PROVE HandlerOK'
    BY <1>1, <1>16 DEF Deliver, daemonVars
  <1>17. ASSUME NEW c \in Clients, Leave(c) PROVE HandlerOK' BY <1>2, <1>17 DEF Leave
  <1>18. CASE Restart BY <1>2, <1>18 DEF Restart
  <1>19. ASSUME NEW c \in Clients, BufferEnd(c) PROVE HandlerOK'
    BY <1>1, <1>19 DEF BufferEnd, daemonVars
  <1>20. QED
    BY <1>3, <1>4, <1>5, <1>7, <1>8, <1>9, <1>10, <1>11, <1>12, <1>13, <1>14, <1>15, <1>16, <1>17,
       <1>18, <1>19
    DEF Next, Handle

LEMMA TypeStep ==
  ASSUME TypeOK, HandlerOK, Next
  PROVE  TypeOK'
  BY PlaybackStepTyped, RequestStepTyped, AnnounceTyped, JoinStepTyped, JoinAnswerTyped,
     BufferEndTyped, OwnerStepTyped, CallStepTyped, ViewerStepTyped
  DEF Next, Handle

LEMMA HandlersTyped == Spec => [](TypeOK /\ HandlerOK)
  <1>1. Init => TypeOK /\ HandlerOK
    BY InitTyped DEF Init, HandlerOK, Idle, Joining
  <1>2. TypeOK /\ HandlerOK /\ [Next]_vars => (TypeOK /\ HandlerOK)'
    <2>1. TypeOK /\ HandlerOK /\ Next => (TypeOK /\ HandlerOK)' BY TypeStep, HandlerStep
    <2>2. TypeOK /\ HandlerOK /\ UNCHANGED vars => (TypeOK /\ HandlerOK)'
      BY DEF vars, TypeOK, HandlerOK
    <2>3. QED BY <2>1, <2>2
  <1>3. QED BY <1>1, <1>2, PTL DEF Spec

\* Type correctness: in particular the daemon never announces a cursor that
\* is not a video, though the row it reads may have lost its cursor since.
THEOREM SyncTypes == Spec => []TypeOK
  BY HandlersTyped, PTL

-----------------------------------------------------------------------------
(* The daemon's copy.  Between its writes and its next read the copy may   *)
(* be behind; a JOIN whose seed is refused ends without that read, which   *)
(* is harmless only because the refusal itself shows that a PHP request    *)
(* has changed the row, and its call is still to come.                     *)

News == missed \/ \E kind \in Kinds : calls[kind] > 0

Behind == {"cursor", "playlist", "merged", "seeded", "moved"}

Fresh ==
  /\ runtime /\ handler.step \notin Behind => cache = row \/ News
  /\ runtime /\ handler.step = "seeded" => handler.showing \in row.list \/ News

LEMMA NewsKept ==
  /\ UNCHANGED <<missed, calls>> => News' = News
  /\ \A kind \in Kinds : TypeOK /\ Call(kind) => News'
  <1>1. UNCHANGED <<missed, calls>> => News' = News BY DEF News
  <1>2. ASSUME NEW kind \in Kinds, TypeOK, Call(kind) PROVE News'
    <2>1. calls[kind] \in Nat BY <1>2, BoundsAssumption DEF TypeOK
    <2>2. calls'[kind] = calls[kind] + 1 BY <1>2 DEF Call, TypeOK
    <2>3. calls'[kind] > 0 BY <2>1, <2>2
    <2>4. QED BY <2>3 DEF News
  <1>3. QED BY <1>1, <1>2

LEMMA FreshStep ==
  ASSUME TypeOK, HandlerOK, Fresh, Next
  PROVE  Fresh'
  <1>1. CASE UNCHANGED <<row, calls, runtime, cache, handler, missed>>
    BY <1>1, NewsKept DEF Fresh
  <1>2. CASE cache' = row /\ row' = row /\ handler'.step # "seeded" BY <1>2 DEF Fresh
  <1>3. CASE handler'.step \in Behind \ {"seeded"} BY <1>3 DEF Fresh, Behind
  <1>4. CASE News' BY <1>4 DEF Fresh
  <1>5. CASE runtime' = FALSE BY <1>5 DEF Fresh
  <1>6. Idle.step = "idle" BY DEF Idle
  <1>7. CASE \/ \E c \in Clients, event \in {"play", "pause", "seek"} : EventFrame(c, event)
             \/ \E event \in {"play", "pause", "seek"} : OwnerPlayback(event)
             \/ OwnerReset
    BY <1>1, <1>7 DEF EventFrame, OwnerPlayback, OwnerReset, rowVars
  <1>8. CASE \/ \E v \in Videos : RequestCursor(v)
             \/ \E videos \in SUBSET Videos : SendPlaylist(videos)
    BY <1>3, <1>8 DEF RequestCursor, SendPlaylist, Behind, Idle
  <1>9. CASE \E c \in Clients, showing \in Videos \cup {None} : JoinRead(c, showing)
    BY <1>2, <1>9 DEF JoinRead, rowVars, Idle
  <1>10. handler \in Handler BY DEF TypeOK
  <1>11. CASE \E videos \in SUBSET Videos \ {{}} : JoinMerge(videos)
    BY <1>3, <1>10, <1>11 DEF JoinMerge, Behind, Handler
  <1>12. CASE AnnounceCursor \/ AnnouncePlaylist
    BY <1>2, <1>6, <1>12 DEF AnnounceCursor, AnnouncePlaylist, rowVars
  <1>13. CASE JoinReread
    BY <1>2, <1>10, <1>13 DEF JoinReread, rowVars, Handler
  <1>14. CASE JoinSeed
    <2>1. runtime => cache = row \/ News BY <1>14 DEF JoinSeed, SeedDue, Fresh, Behind
    <2>2. News' = News BY <1>14, NewsKept DEF JoinSeed
    <2>3. ASSUME cache = row PROVE handler.showing \in row'.list
      <3>1. row.mode # "single" /\ row.mode # "freeform"
        BY <1>14, <2>3 DEF JoinSeed, SeedDue
      <3>2. row' \in MergeOutcomes({handler.showing}) BY <1>14 DEF JoinSeed, Commit
      <3>3. row' = [row EXCEPT !.list = row.list \cup {handler.showing}]
        BY <3>1, <3>2 DEF MergeOutcomes, Stored
      <3>4. QED BY <3>3 DEF TypeOK, Row
    <2>4. handler'.step = "seeded" /\ handler'.showing = handler.showing /\ runtime' = runtime
      BY <1>10, <1>14 DEF JoinSeed, Handler
    <2>5. QED BY <2>1, <2>2, <2>3, <2>4 DEF Fresh, Behind
  <1>15. CASE JoinMove BY <1>3, <1>10, <1>15 DEF JoinMove, Behind, Handler
  <1>16. CASE JoinMoveRefused
    <2>1. runtime => News BY <1>16 DEF JoinMoveRefused, Fresh
    <2>2. News' = News /\ runtime' = runtime BY <1>16, NewsKept DEF JoinMoveRefused, rowVars
    <2>3. QED BY <1>4, <1>5, <2>1, <2>2 DEF Fresh
  <1>17. CASE JoinAnswer
    <2>1. UNCHANGED <<row, calls, runtime, cache, missed>> BY <1>17 DEF JoinAnswer, rowVars
    <2>2. handler.step \notin Behind /\ handler'.step = "idle"
      BY <1>6, <1>17 DEF JoinAnswer, Behind
    <2>3. QED BY <2>1, <2>2, NewsKept DEF Fresh
  <1>18. CASE \/ \E v \in Videos : OwnerSetCursor(v) \/ OwnerAdd(v) \/ OwnerUpdate(v) \/ OwnerRemove(v)
              \/ OwnerClear
              \/ \E mode \in Modes : OwnerMode(mode)
    <2>1. PICK kind \in Kinds : Call(kind)
      BY <1>18 DEF OwnerSetCursor, OwnerAdd, OwnerUpdate, OwnerRemove, OwnerClear, OwnerMode, Kinds
    <2>2. QED BY <1>4, <2>1, NewsKept
  <1>19. ASSUME NEW kind \in Kinds, CallUnheard(kind) PROVE Fresh'
    <2>1. handler'.step # "seeded" /\ runtime' = runtime /\ row' = row
      BY <1>6, <1>19 DEF CallUnheard, Arrive, Free
    <2>2. CASE runtime BY <1>2, <1>19, <2>1, <2>2 DEF CallUnheard
    <2>3. CASE ~runtime BY <2>1, <2>3 DEF Fresh
    <2>4. QED BY <2>2, <2>3
  <1>20. ASSUME NEW kind \in Kinds, CallLost(kind) PROVE Fresh'
    <2>1. missed' = runtime /\ runtime' = runtime BY <1>20 DEF CallLost, daemonVars
    <2>2. CASE runtime BY <1>4, <2>1, <2>2 DEF News
    <2>3. CASE ~runtime BY <2>1, <2>3 DEF Fresh
    <2>4. QED BY <2>2, <2>3
  <1>21. CASE CursorCall \/ PlaylistCall
    BY <1>2, <1>6, <1>21 DEF CursorCall, PlaylistCall, Arrive, Free
  <1>22. ASSUME NEW c \in Clients, Deliver(c) PROVE Fresh'
    BY <1>1, <1>22 DEF Deliver, daemonVars, rowVars
  <1>23. ASSUME NEW c \in Clients, Leave(c) PROVE Fresh'
    BY <1>1, <1>23 DEF Leave, rowVars
  <1>24. CASE Restart BY <1>5, <1>24 DEF Restart
  <1>25. ASSUME NEW c \in Clients, BufferEnd(c) PROVE Fresh'
    BY <1>1, <1>25 DEF BufferEnd, daemonVars, rowVars
  <1>26. QED
    BY <1>7, <1>8, <1>9, <1>11, <1>12, <1>13, <1>14, <1>15, <1>16, <1>17, <1>18, <1>19, <1>20,
       <1>21, <1>22, <1>23, <1>24, <1>25
    DEF Next, Handle

\* When nothing is under way the daemon's copy is the row, unless a call was
\* lost and nothing was read since: however the owner's transactions fell
\* between a handler's own write and its refresh.
THEOREM CacheStaysFresh == Spec => []CacheFresh
  <1> DEFINE I == TypeOK /\ HandlerOK /\ Fresh
  <1>1. Init => I
    BY InitTyped DEF Init, HandlerOK, Fresh, Idle, Joining
  <1>2. I /\ [Next]_vars => I'
    <2>1. I /\ Next => I' BY TypeStep, HandlerStep, FreshStep
    <2>2. ASSUME I, UNCHANGED vars PROVE I'
      <3>1. TypeOK' /\ HandlerOK' BY <2>2 DEF vars, TypeOK, HandlerOK
      <3>2. Fresh' BY <2>2 DEF vars, Fresh, News
      <3>3. QED BY <3>1, <3>2
    <2>3. QED BY <2>1, <2>2
  <1>3. I => CacheFresh
    <2> SUFFICES ASSUME I, Quiet, runtime, ~missed PROVE cache = row BY DEF CacheFresh
    <2>1. handler.step = "idle" BY DEF Quiet, Idle
    <2>2. ~News BY DEF Quiet, News
    <2>3. QED BY <2>1, <2>2 DEF Fresh, Behind
  <1>4. QED BY <1>1, <1>2, <1>3, PTL DEF Spec

-----------------------------------------------------------------------------
(* What a seated viewer is owed, given the frames s on their way to it,    *)
(* the version it has last seen and the room's version v.                  *)

Numbered(s) == {n \in DOMAIN s : s[n].type # "PLAYLIST_UPDATE"}

\* The answer to the JOIN is still to come.  One that is decoded replaces
\* whatever was seen before; one that is not leaves it, and what was seen is
\* then below the version the frame was built at.  A ROOM_STATE of a BUFFER_END
\* replaces it too, and must not be below what the frames before it have shown.
Awaiting(s) == s # <<>> /\ AnswersJoin(s[1])
Renewing(s) == Awaiting(s) /\ s[1].whole

Resyncs(frame) == ~frame.join /\ frame.whole

InLine(s, sess, v) ==
  /\ \A n \in Numbered(s) : s[n].id <= v
  /\ \A m, n \in Numbered(s) : m <= n => s[m].id <= s[n].id
  /\ \A n \in DOMAIN s : s[n].type = "ROOM_STATE" => (s[n].join /\ n = 1) \/ Resyncs(s[n])
  /\ Renewing(s) \/ (sess.last <= v /\ \A n \in Numbered(s) : sess.last <= s[n].id)
  /\ \/ \E n \in Numbered(s) : s[n].id = v
     \/ ~Awaiting(s) /\ (sess.last = v \/ (sess.behind /\ Numbered(s) = {}))

InOrder ==
  \A c \in Clients :
    /\ c \notin seated \/ handler.client = c => chan[c] = <<>>
    /\ c \in seated /\ handler.client # c => InLine(chan[c], session[c], version)

LEMMA NumberedTyped ==
  ASSUME NEW s \in Seq(Frame), NEW n \in Numbered(s)
  PROVE  s[n].id \in Nat
  <1>1. s[n] \in Frame BY DEF Numbered
  <1>2. s[n].type # "PLAYLIST_UPDATE" BY DEF Numbered
  <1>3. s[n].id \in 0..MaxVersion BY <1>1, <1>2 DEF Frame
  <1>4. QED BY <1>3, BoundsAssumption

\* Frames that may follow in a session when the room goes from version v to w.
Plain(frames, v, w) ==
  /\ \A n \in DOMAIN frames : frames[n].type = "ROOM_STATE" => Resyncs(frames[n])
  /\ \A n \in Numbered(frames) : frames[n].id = w
  /\ v = w \/ Numbered(frames) # {}

LEMMA InLineAppended ==
  ASSUME NEW s \in Seq(Frame), NEW frames \in Seq(Frame), NEW sess \in Session,
         NEW v \in Nat, NEW w \in Nat, v <= w, InLine(s, sess, v), Plain(frames, v, w)
  PROVE  InLine(s \o frames, sess, w) /\ (Awaiting(s \o frames) <=> Awaiting(s))
  <1> DEFINE t == s \o frames
  <1>1. /\ t \in Seq(Frame)
        /\ DOMAIN t = 1..(Len(s) + Len(frames))
        /\ \A n \in 1..Len(s) : t[n] = s[n]
        /\ \A n \in 1..(Len(s) + Len(frames)) :
             n > Len(s) => n - Len(s) \in 1..Len(frames) /\ t[n] = frames[n - Len(s)]
        /\ Len(s) \in Nat /\ Len(frames) \in Nat
        /\ DOMAIN s = 1..Len(s) /\ DOMAIN frames = 1..Len(frames)
    BY ConcatProperties
  <1> HIDE DEF t
  <1>2. ASSUME NEW n \in Numbered(t)
        PROVE  \/ n \in Numbered(s) /\ t[n] = s[n]
               \/ n > Len(s) /\ n - Len(s) \in Numbered(frames) /\ t[n] = frames[n - Len(s)] /\ t[n].id = w
    <2>1. n \in 1..(Len(s) + Len(frames)) BY <1>1 DEF Numbered
    <2>2. CASE n <= Len(s) BY <1>1, <2>1, <2>2 DEF Numbered
    <2>3. CASE n > Len(s)
      <3>1. n - Len(s) \in Numbered(frames) /\ t[n] = frames[n - Len(s)]
        BY <1>1, <2>1, <2>3 DEF Numbered
      <3>2. QED BY <2>3, <3>1 DEF Plain
    <2>4. QED BY <1>1, <2>1, <2>2, <2>3
  <1>3. \A n \in Numbered(s) : n \in Numbered(t) /\ t[n] = s[n] /\ s[n].id \in Nat /\ n <= Len(s)
    BY <1>1, NumberedTyped DEF Numbered
  <1>4. \A n \in Numbered(frames) : n + Len(s) \in Numbered(t) /\ t[n + Len(s)] = frames[n]
    <2> SUFFICES ASSUME NEW n \in Numbered(frames)
                 PROVE  n + Len(s) \in Numbered(t) /\ t[n + Len(s)] = frames[n]
      OBVIOUS
    <2>1. n \in 1..Len(frames) /\ frames[n].type # "PLAYLIST_UPDATE" BY <1>1 DEF Numbered
    <2>2. n + Len(s) \in 1..(Len(s) + Len(frames)) /\ n + Len(s) > Len(s) /\ (n + Len(s)) - Len(s) = n
      BY <1>1, <2>1
    <2>3. t[n + Len(s)] = frames[n] BY <1>1, <2>2
    <2>4. QED BY <1>1, <2>1, <2>2, <2>3 DEF Numbered
  <1>5. (Awaiting(t) <=> Awaiting(s)) /\ (Renewing(t) <=> Renewing(s))
    <2>1. CASE s = <<>>
      <3>1. ~Awaiting(s) /\ Len(s) = 0 BY <2>1 DEF Awaiting
      <3>2. t = frames BY <2>1 DEF t
      <3>3. ~Awaiting(t)
        <4>1. frames # <<>> => 1 \in DOMAIN frames BY EmptySeq
        <4>2. QED BY <3>2, <4>1 DEF Awaiting, AnswersJoin, Plain, Resyncs
      <3>4. QED BY <3>1, <3>3 DEF Renewing
    <2>2. CASE s # <<>>
      <3>1. 1 \in 1..Len(s) BY <2>2, EmptySeq
      <3>2. t[1] = s[1] /\ t # <<>> BY <1>1, <3>1
      <3>3. QED BY <2>2, <3>2 DEF Awaiting, AnswersJoin, Renewing
    <2>3. QED BY <2>1, <2>2
  <1>6. \A n \in Numbered(t) : t[n].id <= w BY <1>2, <1>3 DEF InLine
  <1>7. \A m, n \in Numbered(t) : m <= n => t[m].id <= t[n].id
    <2> SUFFICES ASSUME NEW m \in Numbered(t), NEW n \in Numbered(t), m <= n
                 PROVE  t[m].id <= t[n].id
      OBVIOUS
    <2>1. CASE n \in Numbered(s) /\ t[n] = s[n]
      <3>1. n <= Len(s) /\ n \in Nat /\ m \in Nat BY <1>1, <1>3, <2>1 DEF Numbered
      <3>2. m \in Numbered(s) /\ t[m] = s[m] BY <1>1, <1>2, <3>1
      <3>3. QED BY <2>1, <3>2 DEF InLine
    <2>2. CASE t[n].id = w BY <1>6, <2>2
    <2>3. QED BY <1>2, <2>1, <2>2
  <1>8. \A n \in DOMAIN t : t[n].type = "ROOM_STATE" => (t[n].join /\ n = 1) \/ Resyncs(t[n])
    <2> SUFFICES ASSUME NEW n \in DOMAIN t, t[n].type = "ROOM_STATE"
                 PROVE  (t[n].join /\ n = 1) \/ Resyncs(t[n])
      OBVIOUS
    <2>1. n \in 1..(Len(s) + Len(frames)) BY <1>1
    <2>2. CASE n <= Len(s) BY <1>1, <2>1, <2>2 DEF InLine
    <2>3. CASE n > Len(s) BY <1>1, <2>1, <2>3 DEF Plain
    <2>4. QED BY <1>1, <2>1, <2>2, <2>3
  <1>9. Renewing(t) \/ (sess.last <= w /\ \A n \in Numbered(t) : sess.last <= t[n].id)
    <2>1. CASE Renewing(s) BY <1>5, <2>1
    <2>2. CASE ~Renewing(s)
      <3>1. sess.last <= v /\ \A n \in Numbered(s) : sess.last <= s[n].id BY <2>2 DEF InLine
      <3>2. sess.last \in Nat BY BoundsAssumption DEF Session
      <3>3. sess.last <= w BY <3>1, <3>2
      <3>4. QED BY <1>2, <3>1, <3>3
    <2>3. QED BY <2>1, <2>2
  <1>10. \/ \E n \in Numbered(t) : t[n].id = w
         \/ ~Awaiting(t) /\ (sess.last = w \/ (sess.behind /\ Numbered(t) = {}))
    <2>1. CASE Numbered(frames) # {} BY <1>4, <2>1 DEF Plain
    <2>2. CASE Numbered(frames) = {}
      <3>1. v = w BY <2>2 DEF Plain
      <3>2. CASE \E n \in Numbered(s) : s[n].id = v BY <1>3, <3>1, <3>2
      <3>3. CASE ~Awaiting(s) /\ sess.last = v BY <1>5, <3>1, <3>3
      <3>4. CASE ~Awaiting(s) /\ sess.behind /\ Numbered(s) = {} BY <1>2, <1>5, <2>2, <3>4
      <3>5. QED BY <3>2, <3>3, <3>4 DEF InLine
    <2>3. QED BY <2>1, <2>2
  <1>11. QED BY <1>5, <1>6, <1>7, <1>8, <1>9, <1>10 DEF InLine, t

\* Taking the first frame keeps a viewer in line, and moves it forwards only.
LEMMA InLineTaken ==
  ASSUME NEW s \in Seq(Frame), s # <<>>, NEW sess \in Session, NEW v \in Nat, InLine(s, sess, v)
  PROVE  LET now == Folded(sess, Head(s)) IN
         /\ InLine(Tail(s), now, v)
         /\ ~Awaiting(Tail(s))
         /\ now.last \in 0..v
         /\ Awaiting(s) \/ sess.last <= now.last
  <1> DEFINE now == Folded(sess, Head(s))
             t == Tail(s)
  <1>1. /\ t \in Seq(Frame) /\ Head(s) = s[1] /\ s[1] \in Frame
        /\ Len(s) \in Nat /\ 1 \in DOMAIN s /\ DOMAIN s = 1..Len(s)
        /\ DOMAIN t = 1..(Len(s) - 1)
        /\ \A n \in DOMAIN t : n \in Nat /\ n # 0 /\ n + 1 \in DOMAIN s /\ t[n] = s[n + 1]
    BY HeadTailProperties, EmptySeq
  <1>2. sess.last \in Nat BY BoundsAssumption DEF Session
  <1> HIDE DEF t
  <1>3. \A n \in Numbered(t) : n + 1 \in Numbered(s) /\ t[n] = s[n + 1] /\ s[n + 1].id \in Nat /\ n \in Nat
    BY <1>1, NumberedTyped DEF Numbered
  <1>4. ASSUME NEW n \in Numbered(s), n # 1 PROVE n - 1 \in Numbered(t) /\ t[n - 1] = s[n]
    <2>1. n - 1 \in DOMAIN t /\ (n - 1) + 1 = n BY <1>1, <1>4 DEF Numbered
    <2>2. QED BY <1>1, <1>4, <2>1 DEF Numbered
  <1>5. \A n \in DOMAIN t : t[n].type = "ROOM_STATE" => Resyncs(t[n])
    <2> SUFFICES ASSUME NEW n \in DOMAIN t, t[n].type = "ROOM_STATE" PROVE Resyncs(t[n]) OBVIOUS
    <2>1. n + 1 \in DOMAIN s /\ t[n] = s[n + 1] /\ n + 1 # 1 BY <1>1
    <2>2. QED BY <2>1 DEF InLine
  <1>6. ~Awaiting(t)
    <2>1. t # <<>> => 1 \in DOMAIN t BY <1>1, EmptySeq
    <2>2. QED BY <1>5, <2>1 DEF Awaiting, AnswersJoin, Resyncs
  <1>7. /\ \A n \in Numbered(t) : t[n].id <= v
        /\ \A m, n \in Numbered(t) : m <= n => t[m].id <= t[n].id
    BY <1>3 DEF InLine
  <1>8. CASE s[1].type = "PLAYLIST_UPDATE"
    <2>1. now.last = sess.last /\ now.behind = sess.behind BY <1>1, <1>8 DEF Folded, Session
    <2>2. ~Awaiting(s) /\ 1 \notin Numbered(s) BY <1>8 DEF Awaiting, AnswersJoin, Numbered
    <2>3. sess.last <= v /\ \A n \in Numbered(s) : sess.last <= s[n].id
      BY <2>2 DEF InLine, Renewing
    <2> HIDE DEF now
    <2>4. now.last \in 0..v BY <1>2, <2>1, <2>3
    <2>5. \/ \E n \in Numbered(t) : t[n].id = v
          \/ now.last = v \/ (now.behind /\ Numbered(t) = {})
      <3>1. CASE \E n \in Numbered(s) : s[n].id = v BY <1>4, <2>2, <3>1
      <3>2. Numbered(s) = {} => Numbered(t) = {} BY <1>3
      <3>3. QED BY <2>1, <3>1, <3>2 DEF InLine
    <2>6. now.last <= v /\ \A n \in Numbered(t) : now.last <= t[n].id BY <1>3, <2>1, <2>3
    <2>7. InLine(t, now, v) BY <1>5, <1>6, <1>7, <2>5, <2>6 DEF InLine
    <2>8. QED BY <1>2, <1>6, <2>1, <2>4, <2>7 DEF t, now
  <1>9. CASE s[1].type # "PLAYLIST_UPDATE"
    <2>1. 1 \in Numbered(s) BY <1>1, <1>9 DEF Numbered
    <2>2. s[1].id \in Nat /\ s[1].id <= v BY <2>1, NumberedTyped DEF InLine
    <2>3. \A n \in Numbered(t) : s[1].id <= t[n].id
      <3>1. \A n \in Numbered(t) : 1 <= n + 1 BY <1>3
      <3>2. QED BY <1>3, <2>1, <3>1 DEF InLine
    <2>4. (\E n \in Numbered(t) : t[n].id = v) \/ s[1].id = v \/ (~Awaiting(s) /\ sess.last = v)
      <3>1. CASE \E n \in Numbered(s) : s[n].id = v BY <1>4, <3>1
      <3>2. QED BY <2>1, <3>1 DEF InLine
    <2>5. CASE s[1].type = "ROOM_STATE" /\ ~s[1].whole
      <3>1. now.last = sess.last /\ now.behind BY <1>1, <2>5 DEF Folded, Session
      <3>2. Awaiting(s) /\ ~Renewing(s)
        <4>1. s[1].join BY <1>1, <2>5 DEF InLine, Resyncs
        <4>2. QED BY <2>5, <4>1 DEF Awaiting, AnswersJoin, Renewing
      <3>3. sess.last <= s[1].id BY <2>1, <3>2 DEF InLine
      <3> HIDE DEF now
      <3>4. now.last \in 0..v BY <1>2, <2>2, <3>1, <3>3
      <3>5. now.last <= v /\ \A n \in Numbered(t) : now.last <= t[n].id
        BY <1>2, <1>3, <2>2, <2>3, <3>1, <3>3, <3>4
      <3>6. (\E n \in Numbered(t) : t[n].id = v) \/ Numbered(t) = {}
        <4>1. CASE s[1].id = v
          <5>1. ASSUME NEW n \in Numbered(t) PROVE t[n].id = v BY <1>3, <1>7, <2>3, <4>1
          <5>2. QED BY <5>1
        <4>2. QED BY <2>4, <3>2, <4>1
      <3>7. InLine(t, now, v) BY <1>5, <1>6, <1>7, <3>1, <3>5, <3>6 DEF InLine
      <3>8. QED BY <1>2, <1>6, <3>1, <3>2, <3>4, <3>7 DEF t, now
    <2>6. CASE ~(s[1].type = "ROOM_STATE" /\ ~s[1].whole)
      <3>1. now.last = s[1].id /\ (Awaiting(s) \/ sess.last <= now.last)
        <4>1. CASE s[1].type = "ROOM_STATE"
          <5>1. now.last = s[1].id BY <1>1, <2>6, <4>1 DEF Folded, Session
          <5>2. Awaiting(s) \/ sess.last <= s[1].id BY <2>1 DEF InLine, Renewing
          <5>3. QED BY <5>1, <5>2
        <4>2. CASE s[1].type # "ROOM_STATE"
          <5>1. sess.last <= s[1].id BY <2>1, <4>2 DEF InLine, Awaiting, AnswersJoin, Renewing
          <5>2. s[1].type \in {"STATE", "CURSOR_CHANGE"} BY <1>1, <1>9, <4>2 DEF Frame
          <5>3. Later(sess, s[1]) = s[1].id BY <1>2, <2>2, <5>1 DEF Later
          <5>4. now.last = Later(sess, s[1]) BY <1>1, <5>2 DEF Folded, Session
          <5>5. QED BY <5>1, <5>3, <5>4
        <4>3. QED BY <4>1, <4>2
      <3> HIDE DEF now
      <3>2. now.last \in 0..v BY <2>2, <3>1
      <3>3. now.last <= v /\ \A n \in Numbered(t) : now.last <= t[n].id BY <2>2, <2>3, <3>1
      <3>4. (\E n \in Numbered(t) : t[n].id = v) \/ now.last = v
        <4>1. CASE ~Awaiting(s) /\ sess.last = v BY <2>2, <3>1, <4>1
        <4>2. QED BY <2>4, <3>1, <4>1
      <3>5. InLine(t, now, v) BY <1>5, <1>6, <1>7, <3>3, <3>4 DEF InLine
      <3>6. QED BY <1>6, <3>1, <3>2, <3>5 DEF t, now
    <2>7. QED BY <2>5, <2>6
  <1>10. QED BY <1>8, <1>9

-----------------------------------------------------------------------------
(* Kinds of steps.                                                         *)

\* A change of version is told to all, and frames of the same version to some.
Broadcast ==
  /\ handler.client = None /\ handler'.client = None
  /\ UNCHANGED <<seated, session>>
  /\ version' \in {version, version + 1, version + 2}
  /\ \E S \in SUBSET seated, frames \in Seq(Frame) :
       /\ Plain(frames, version, version') /\ Send(S, frames)
       /\ S = seated \/ version' = version

Unsent == handler'.client = handler.client /\ UNCHANGED <<seated, session, version, chan>>

LEMMA OneFramePlain ==
  ASSUME NEW v \in Nat, NEW w \in Nat
  PROVE  /\ \A plays : Plain(<<StateFrame(w, plays)>>, v, w)
         /\ \A x : Plain(<<CursorFrame(x, w)>>, v, w)
         /\ \A list : Plain(<<PlaylistFrame(list)>>, w, w)
         /\ \A x, list : Plain(<<PlaylistFrame(list), CursorFrame(x, w)>>, v, w)
         /\ \A f : f.type = "ROOM_STATE" /\ Resyncs(f) /\ f.id = w => Plain(<<f>>, w, w)
  <1>1. ASSUME NEW f, f.type # "PLAYLIST_UPDATE", f.type = "ROOM_STATE" => Resyncs(f), f.id = w
        PROVE  Plain(<<f>>, v, w) /\ Plain(<<f>>, w, w)
    <2>1. DOMAIN <<f>> = {1} /\ <<f>>[1] = f OBVIOUS
    <2>2. Numbered(<<f>>) = {1} BY <1>1, <2>1 DEF Numbered
    <2>3. QED BY <1>1, <2>1, <2>2 DEF Plain
  <1>2. ASSUME NEW p, p.type = "PLAYLIST_UPDATE" PROVE Plain(<<p>>, w, w)
    <2>1. DOMAIN <<p>> = {1} /\ <<p>>[1] = p OBVIOUS
    <2>2. Numbered(<<p>>) = {} BY <1>2, <2>1 DEF Numbered
    <2>3. QED BY <1>2, <2>1, <2>2 DEF Plain
  <1>3. ASSUME NEW p, NEW f, p.type = "PLAYLIST_UPDATE", f.type = "CURSOR_CHANGE", f.id = w
        PROVE  Plain(<<p, f>>, v, w)
    <2>1. DOMAIN <<p, f>> = {1, 2} /\ <<p, f>>[1] = p /\ <<p, f>>[2] = f OBVIOUS
    <2>2. Numbered(<<p, f>>) = {2} BY <1>3, <2>1 DEF Numbered
    <2>3. QED BY <1>3, <2>1, <2>2 DEF Plain
  <1>4. /\ \A plays : StateFrame(w, plays).type = "STATE" /\ StateFrame(w, plays).id = w
        /\ \A x : CursorFrame(x, w).type = "CURSOR_CHANGE" /\ CursorFrame(x, w).id = w
        /\ \A list : PlaylistFrame(list).type = "PLAYLIST_UPDATE"
    BY DEF StateFrame, CursorFrame, PlaylistFrame
  <1>5. \A plays : Plain(<<StateFrame(w, plays)>>, v, w) BY <1>1, <1>4
  <1>6. \A x : Plain(<<CursorFrame(x, w)>>, v, w) BY <1>1, <1>4
  <1>7. \A list : Plain(<<PlaylistFrame(list)>>, w, w) BY <1>2, <1>4
  <1>8. \A x, list : Plain(<<PlaylistFrame(list), CursorFrame(x, w)>>, v, w) BY <1>3, <1>4
  <1>9. \A f : f.type = "ROOM_STATE" /\ Resyncs(f) /\ f.id = w => Plain(<<f>>, w, w) BY <1>1
  <1>10. QED BY <1>5, <1>6, <1>7, <1>8, <1>9

LEMMA BroadcastSteps ==
  ASSUME TypeOK, HandlerOK, TypeOK',
         \/ \E c \in Clients, event \in {"play", "pause", "seek"} : EventFrame(c, event)
         \/ \E event \in {"play", "pause", "seek"} : OwnerPlayback(event)
         \/ OwnerReset
         \/ AnnounceCursor \/ AnnouncePlaylist \/ CursorCall \/ PlaylistCall
         \/ \E c \in Clients : BufferEnd(c)
  PROVE  Broadcast
  <1>1. version \in Nat /\ version' \in Nat /\ version \in 0..MaxVersion /\ version' \in 0..MaxVersion
    BY BoundsAssumption DEF TypeOK
  <1>2. Idle.client = None /\ Idle.step = "idle" BY DEF Idle
  <1>3. /\ row \in Row /\ handler.outcome \in Row /\ playing' \in BOOLEAN BY DEF TypeOK, Handler
  <1>4. CASE \/ \E c \in Clients, event \in {"play", "pause", "seek"} : EventFrame(c, event)
             \/ \E event \in {"play", "pause", "seek"} : OwnerPlayback(event)
             \/ OwnerReset
    <2>1. /\ handler = Idle /\ UNCHANGED <<handler, seated, session>>
          /\ version' \in {version, version + 1, version + 2}
          /\ Send(seated, <<StateFrame(version', playing')>>)
      BY <1>4 DEF EventFrame, OwnerPlayback, OwnerReset, Free
    <2>2. <<StateFrame(version', playing')>> \in Seq(Frame) BY <1>1, <1>3, FramesTyped
    <2>3. Plain(<<StateFrame(version', playing')>>, version, version') BY <1>1, OneFramePlain
    <2>4. QED BY <1>2, <2>1, <2>2, <2>3 DEF Broadcast
  <1>5. CASE CursorCall
    <2>1. /\ handler = Idle /\ UNCHANGED <<handler, seated, session>> /\ version' = version + 1
          /\ Send(seated, <<CursorFrame(row.cursor, version')>>)
      BY <1>5 DEF CursorCall, Arrive, Free, EpisodeReset
    <2>2. row.cursor \in Videos BY <1>3, <1>5 DEF CursorCall, Row
    <2>3. <<CursorFrame(row.cursor, version')>> \in Seq(Frame) BY <1>1, <2>2, FramesTyped
    <2>4. Plain(<<CursorFrame(row.cursor, version')>>, version, version') BY <1>1, OneFramePlain
    <2>5. QED BY <1>2, <2>1, <2>3, <2>4 DEF Broadcast
  <1>6. CASE PlaylistCall
    <2>1. /\ handler = Idle /\ UNCHANGED <<handler, seated, session, version>>
          /\ Send(seated, <<PlaylistFrame(row.list)>>)
      BY <1>6 DEF PlaylistCall, Arrive, Free
    <2>2. row.list \in SUBSET Videos BY <1>3 DEF Row
    <2>3. <<PlaylistFrame(row.list)>> \in Seq(Frame) BY <1>1, <2>2, FramesTyped
    <2>4. Plain(<<PlaylistFrame(row.list)>>, version, version') BY <1>1, <2>1, OneFramePlain
    <2>5. QED BY <1>2, <2>1, <2>3, <2>4 DEF Broadcast
  <1>7. CASE AnnounceCursor
    <2> DEFINE move == CursorFrame(handler.outcome.cursor, version')
               news == PlaylistFrame(handler.outcome.list)
               frames == IF handler.appended THEN <<news, move>> ELSE <<move>>
    <2>1. /\ handler.client = None /\ handler'.client = None
          /\ UNCHANGED <<seated, session>> /\ version' = version + 1
      BY <1>2, <1>7 DEF AnnounceCursor, HandlerOK, Joining, EpisodeReset
    <2>2. Send(seated, frames) BY <1>7 DEF AnnounceCursor
    <2>3. handler.outcome.cursor \in Videos /\ handler.outcome.list \in SUBSET Videos
      BY <1>3, <1>7 DEF AnnounceCursor, HandlerOK, Row
    <2>4. move \in Frame /\ news \in Frame BY <1>1, <2>3, FramesTyped
    <2>5. Plain(<<move>>, version, version') /\ Plain(<<news, move>>, version, version')
      BY <1>1, OneFramePlain
    <2> HIDE DEF move, news
    <2>6. frames \in Seq(Frame) BY <2>4
    <2>7. Plain(frames, version, version') BY <2>5
    <2>8. QED BY <2>1, <2>2, <2>6, <2>7 DEF Broadcast
  <1>8. CASE AnnouncePlaylist
    <2>1. /\ handler.client = None /\ handler'.client = None /\ UNCHANGED <<seated, session, version>>
          /\ Send(seated, <<PlaylistFrame(handler.outcome.list)>>)
      BY <1>2, <1>8 DEF AnnouncePlaylist, HandlerOK, Joining
    <2>2. handler.outcome.list \in SUBSET Videos BY <1>3 DEF Row
    <2>3. <<PlaylistFrame(handler.outcome.list)>> \in Seq(Frame) BY <1>1, <2>2, FramesTyped
    <2>4. Plain(<<PlaylistFrame(handler.outcome.list)>>, version, version') BY <1>1, <2>1, OneFramePlain
    <2>5. QED BY <2>1, <2>3, <2>4 DEF Broadcast
  <1>9. CASE \E c \in Clients : BufferEnd(c)
    <2>1. PICK c \in Clients : BufferEnd(c) BY <1>9
    <2>2. /\ handler = Idle /\ UNCHANGED <<handler, seated, session, version>> /\ {c} \in SUBSET seated
          /\ Send({c}, <<RoomStateFrame(0, FALSE)>>)
      BY <2>1 DEF BufferEnd, Free, daemonVars
    <2>3. Plain(<<RoomStateFrame(0, FALSE)>>, version, version')
      BY <1>1, <2>2, ResyncTyped, OneFramePlain DEF Resyncs
    <2>4. QED BY <1>2, <2>2, <2>3, ResyncTyped DEF Broadcast
  <1>10. QED BY <1>4, <1>5, <1>6, <1>7, <1>8, <1>9

LEMMA UnsentSteps ==
  ASSUME TypeOK, HandlerOK,
         \/ \E v \in Videos : RequestCursor(v)
         \/ \E videos \in SUBSET Videos : SendPlaylist(videos)
         \/ \E videos \in SUBSET Videos \ {{}} : JoinMerge(videos)
         \/ JoinReread \/ JoinSeed \/ JoinMove \/ JoinMoveRefused
         \/ \E v \in Videos : OwnerSetCursor(v) \/ OwnerAdd(v) \/ OwnerUpdate(v) \/ OwnerRemove(v)
         \/ OwnerClear
         \/ \E mode \in Modes : OwnerMode(mode)
         \/ \E kind \in Kinds : CallUnheard(kind) \/ CallLost(kind)
  PROVE  Unsent
  <1>1. handler \in Handler BY DEF TypeOK
  <1>2. CASE \/ \E v \in Videos : RequestCursor(v)
             \/ \E videos \in SUBSET Videos : SendPlaylist(videos)
    BY <1>2 DEF RequestCursor, SendPlaylist, Unsent, Idle, Free
  <1>3. CASE \/ \E videos \in SUBSET Videos \ {{}} : JoinMerge(videos)
             \/ JoinReread \/ JoinSeed \/ JoinMove \/ JoinMoveRefused
    BY <1>1, <1>3
       DEF JoinMerge, JoinReread, JoinSeed, JoinMove, JoinMoveRefused, Unsent, Handler
  <1>4. CASE \/ \E v \in Videos : OwnerSetCursor(v) \/ OwnerAdd(v) \/ OwnerUpdate(v) \/ OwnerRemove(v)
             \/ OwnerClear
             \/ \E mode \in Modes : OwnerMode(mode)
    BY <1>4 DEF OwnerSetCursor, OwnerAdd, OwnerUpdate, OwnerRemove, OwnerClear, OwnerMode, Unmoved,
                Unsent
  <1>5. CASE \E kind \in Kinds : CallUnheard(kind) \/ CallLost(kind)
    BY <1>5 DEF CallUnheard, CallLost, daemonVars, Unsent
  <1>6. QED BY <1>2, <1>3, <1>4, <1>5

-----------------------------------------------------------------------------
(* The frames on their way stay in order, and what each kind of step does  *)
(* to what the viewers have seen.                                          *)

Seen(c) == IF Answered(c) THEN session[c].last ELSE None

SameSeen == \A c \in Clients : Seen(c)' = Seen(c)

LEMMA AwaitingMeans ==
  ASSUME NEW s \in Seq(Frame), NEW sess, NEW v, InLine(s, sess, v)
  PROVE  Awaiting(s) <=> ~\A n \in DOMAIN s : ~AnswersJoin(s[n])
  <1>1. s # <<>> => 1 \in DOMAIN s BY EmptySeq
  <1>2. s = <<>> => DOMAIN s = {} OBVIOUS
  <1>3. QED BY <1>1, <1>2 DEF InLine, Awaiting, AnswersJoin, Resyncs

LEMMA AnsweredMeans ==
  ASSUME NEW c \in Clients
  PROVE  /\ TypeOK /\ InOrder =>
              (Answered(c) <=> c \in seated /\ handler.client # c /\ ~Awaiting(chan[c]))
         /\ (TypeOK /\ InOrder)' =>
              (Answered(c)' <=> c \in seated' /\ handler'.client # c /\ ~Awaiting(chan'[c]))
  BY AwaitingMeans DEF TypeOK, InOrder, Answered

LEMMA UnsentStep ==
  ASSUME InOrder, Unsent
  PROVE  InOrder' /\ SameSeen
  <1>1. InOrder' BY DEF InOrder, Unsent
  <1>2. SameSeen BY DEF SameSeen, Seen, Answered, Unsent
  <1>3. QED BY <1>1, <1>2

LEMMA BroadcastStep ==
  ASSUME TypeOK, TypeOK', InOrder, Broadcast
  PROVE  InOrder' /\ SameSeen
  <1>1. PICK S \in SUBSET seated, frames \in Seq(Frame) :
          /\ Plain(frames, version, version') /\ Send(S, frames)
          /\ S = seated \/ version' = version
    BY DEF Broadcast
  <1>2. version \in Nat /\ version' \in Nat /\ version <= version'
    BY BoundsAssumption DEF TypeOK, Broadcast
  <1>3. ASSUME NEW c \in Clients, c \in seated
        PROVE  /\ InLine(chan'[c], session[c], version')
               /\ Awaiting(chan'[c]) <=> Awaiting(chan[c])
    <2>1. chan[c] \in Seq(Frame) /\ session[c] \in Session BY DEF TypeOK
    <2>2. InLine(chan[c], session[c], version)
      BY <1>3, NoneAssumption DEF InOrder, Broadcast
    <2>3. CASE c \in S
      <3>1. chan'[c] = chan[c] \o frames BY <1>1, <2>3 DEF Send
      <3>2. QED BY <1>1, <1>2, <2>1, <2>2, <3>1, InLineAppended
    <2>4. CASE c \notin S
      <3>1. chan'[c] = chan[c] /\ version' = version BY <1>1, <1>3, <2>4 DEF Send
      <3>2. QED BY <2>2, <3>1
    <2>5. QED BY <2>3, <2>4
  <1>4. \A c \in Clients : c \notin seated => chan'[c] = <<>>
    BY <1>1 DEF Send, InOrder
  <1>5. InOrder' BY <1>3, <1>4, NoneAssumption DEF InOrder, Broadcast
  <1>6. ASSUME NEW c \in Clients PROVE Seen(c)' = Seen(c)
    <2>1. Answered(c)' <=> Answered(c) BY <1>3, <1>5, NoneAssumption, AnsweredMeans DEF Broadcast
    <2>2. QED BY <2>1 DEF Seen, Broadcast
  <1>7. QED BY <1>5, <1>6 DEF SameSeen

LEMMA DeliverStep ==
  ASSUME TypeOK, TypeOK', InOrder, NEW c \in Clients, Deliver(c)
  PROVE  InOrder' /\ (Line!Next \/ (SameSeen /\ version' = version))
  <1> DEFINE last == Folded(session[c], Head(chan[c])).last
  <1>1. /\ chan[c] # <<>> /\ chan[c] \in Seq(Frame) /\ session[c] \in Session /\ version \in Nat
        /\ UNCHANGED <<seated, handler, version>>
    BY BoundsAssumption DEF Deliver, TypeOK, daemonVars
  <1>2. c \in seated /\ handler.client # c BY <1>1 DEF InOrder
  <1>3. InLine(chan[c], session[c], version) BY <1>2 DEF InOrder
  <1>4. /\ InLine(Tail(chan[c]), Folded(session[c], Head(chan[c])), version) /\ ~Awaiting(Tail(chan[c])) /\ last \in 0..version
        /\ Awaiting(chan[c]) \/ session[c].last <= last
    BY <1>1, <1>3, InLineTaken
  <1>5. chan'[c] = Tail(chan[c]) /\ session'[c] = Folded(session[c], Head(chan[c]))
    BY DEF Deliver, TypeOK
  <1>6. \A d \in Clients \ {c} : chan'[d] = chan[d] /\ session'[d] = session[d]
    BY DEF Deliver, TypeOK
  <1>7. session'[c].last = last BY <1>5
  <1> HIDE DEF last
  <1>8. InOrder'
    <2> SUFFICES ASSUME NEW d \in Clients
                 PROVE  /\ d \notin seated \/ handler.client = d => chan'[d] = <<>>
                        /\ d \in seated /\ handler.client # d => InLine(chan'[d], session'[d], version)
      BY <1>1 DEF InOrder
    <2>1. CASE d = c BY <1>2, <1>4, <1>5, <1>7, <2>1
    <2>2. CASE d # c BY <1>6, <2>2 DEF InOrder
    <2>3. QED BY <2>1, <2>2
  <1>9. \A d \in Clients \ {c} : Seen(d)' = Seen(d) BY <1>1, <1>6 DEF Seen, Answered
  <1>10. Seen(c)' = last BY <1>1, <1>2, <1>4, <1>5, <1>7, <1>8, AnsweredMeans DEF Seen
  <1>11. CASE Awaiting(chan[c])
    <2>1. Seen(c) = None BY <1>11, AnsweredMeans DEF Seen
    <2>2. [d \in Clients |-> Seen(d)]' = [[d \in Clients |-> Seen(d)] EXCEPT ![c] = last]
      BY <1>9, <1>10
    <2>3. Line!Enter(c) BY <1>1, <1>4, <2>1, <2>2 DEF Line!Enter, Seen
    <2>4. Line!Next BY <2>3 DEF Line!Next
    <2>5. QED BY <1>8, <2>4
  <1>12. CASE ~Awaiting(chan[c]) /\ last # session[c].last
    <2>1. Seen(c) = session[c].last BY <1>2, <1>12, AnsweredMeans DEF Seen
    <2>2. [d \in Clients |-> Seen(d)]' = [[d \in Clients |-> Seen(d)] EXCEPT ![c] = last]
      BY <1>9, <1>10
    <2>3. session[c].last \in Nat BY <1>1, BoundsAssumption DEF Session
    <2>4. last > session[c].last /\ session[c].last # None
      BY <1>4, <1>12, <2>3, NoneAssumption
    <2>5. Line!Follow(c) BY <1>1, <1>4, <2>1, <2>2, <2>4 DEF Line!Follow, Seen
    <2>6. Line!Next BY <2>5 DEF Line!Next
    <2>7. QED BY <1>8, <2>6
  <1>13. CASE ~Awaiting(chan[c]) /\ last = session[c].last
    <2>1. Seen(c) = session[c].last BY <1>2, <1>13, AnsweredMeans DEF Seen
    <2>2. QED BY <1>1, <1>8, <1>9, <1>10, <1>13, <2>1 DEF SameSeen
  <1>14. QED BY <1>11, <1>12, <1>13

LEMMA JoinReadStep ==
  ASSUME TypeOK, HandlerOK, InOrder, NEW c \in Clients, NEW showing, JoinRead(c, showing)
  PROVE  InOrder' /\ SameSeen
  <1>1. handler.client = None /\ handler'.client = c /\ c \notin seated /\ seated' = seated \cup {c}
    BY DEF JoinRead, Free, Idle
  <1>2. UNCHANGED <<chan, session, version>> BY DEF JoinRead
  <1>3. InOrder' BY <1>1, <1>2, NoneAssumption DEF InOrder
  <1>4. SameSeen BY <1>1, <1>2, NoneAssumption DEF SameSeen, Seen, Answered
  <1>5. QED BY <1>3, <1>4

\* The answer to a JOIN is the whole of what the joiner has been sent.
LEMMA WelcomeInLine ==
  ASSUME NEW r, NEW p, NEW f, NEW sess, NEW v \in Nat, r.whole \/ sess.last <= v,
         AnswersJoin(r), r.id = v, p.type = "PLAYLIST_UPDATE", f.type = "CURSOR_CHANGE", f.id = v,
         NEW s \in {<<r>>, <<r, p>>, <<r, f>>, <<r, p, f>>}
  PROVE  InLine(s, sess, v) /\ Awaiting(s)
  <1>1. CASE s = <<r>>
    <2>1. DOMAIN s = {1} /\ s[1] = r /\ s # <<>> BY <1>1
    <2>2. Numbered(s) = {1} BY <2>1 DEF Numbered, AnswersJoin
    <2>3. QED BY <2>1, <2>2 DEF InLine, Awaiting, AnswersJoin, Renewing
  <1>2. CASE s = <<r, p>>
    <2>1. DOMAIN s = {1, 2} /\ s[1] = r /\ s[2] = p /\ s # <<>> BY <1>2
    <2>2. Numbered(s) = {1} BY <2>1 DEF Numbered, AnswersJoin
    <2>3. QED BY <2>1, <2>2 DEF InLine, Awaiting, AnswersJoin, Renewing
  <1>3. CASE s = <<r, f>>
    <2>1. DOMAIN s = {1, 2} /\ s[1] = r /\ s[2] = f /\ s # <<>> BY <1>3
    <2>2. Numbered(s) = {1, 2} BY <2>1 DEF Numbered, AnswersJoin
    <2>3. QED BY <2>1, <2>2 DEF InLine, Awaiting, AnswersJoin, Renewing
  <1>4. CASE s = <<r, p, f>>
    <2>1. DOMAIN s = {1, 2, 3} /\ s[1] = r /\ s[2] = p /\ s[3] = f /\ s # <<>> BY <1>4
    <2>2. Numbered(s) = {1, 3} BY <2>1 DEF Numbered, AnswersJoin
    <2>3. QED BY <2>1, <2>2 DEF InLine, Awaiting, AnswersJoin, Renewing
  <1>5. QED BY <1>1, <1>2, <1>3, <1>4

LEMMA JoinAnswerStep ==
  ASSUME TypeOK, TypeOK', HandlerOK, InOrder, JoinAnswer
  PROVE  InOrder' /\ SameSeen
  <1> DEFINE p == PlaylistFrame(cache.list)
             f == CursorFrame(cache.cursor, version)
             r == RoomStateFrame(session[handler.client].last, TRUE)
  <1>1. PICK c \in Clients : c = handler.client /\ c \in seated
    BY DEF JoinAnswer, HandlerOK, Joining, TypeOK
  <1>2. chan[c] = <<>> BY <1>1 DEF InOrder
  <1>3. Send({c}, AnswerFrames) BY <1>1 DEF JoinAnswer, AnswerFrames
  <1>4. /\ AnswersJoin(r) /\ r.id = version
        /\ p.type = "PLAYLIST_UPDATE" /\ f.type = "CURSOR_CHANGE" /\ f.id = version
    BY DEF RoomStateFrame, AnswersJoin, PlaylistFrame, CursorFrame
  <1>5. handler'.client = None /\ UNCHANGED <<seated, session, version>>
    BY DEF JoinAnswer, Idle
  <1>6. AnswerFrames \in {<<r>>, <<r, p>>, <<r, f>>, <<r, p, f>>} BY AnswerIs
  <1>6a. r.whole \/ session[c].last <= version
    <2>1. session[c].last \in Nat /\ version \in Nat /\ cursorEvent \in 0..version
      BY BoundsAssumption DEF TypeOK, Session
    <2>2. r.whole <=> Replayable(session[c].last) BY <1>1 DEF RoomStateFrame
    <2> HIDE DEF r
    <2>3. QED BY <2>1, <2>2 DEF Replayable
  <1> HIDE DEF r, p, f
  <1>7. chan'[c] = AnswerFrames
    <2>1. chan'[c] = <<>> \o AnswerFrames BY <1>1, <1>2, <1>3 DEF Send
    <2>2. <<>> \o AnswerFrames = AnswerFrames BY AnswerTyped, ConcatEmptySeq
    <2>3. QED BY <2>1, <2>2
  <1>8. InLine(chan'[c], session[c], version) /\ Awaiting(chan'[c])
    <2>1. version \in Nat BY BoundsAssumption DEF TypeOK
    <2>2. QED BY <1>4, <1>6, <1>7, <1>6a, <2>1, WelcomeInLine
  <1>9. \A d \in Clients \ {c} : chan'[d] = chan[d] BY <1>3 DEF Send
  <1>10. InOrder' BY <1>1, <1>5, <1>8, <1>9, NoneAssumption DEF InOrder
  <1>11. \A d \in Clients \ {c} : Seen(d)' = Seen(d)
    BY <1>1, <1>5, <1>9, NoneAssumption DEF Seen, Answered
  <1>12. Seen(c) = None BY <1>1 DEF Seen, Answered
  <1>13. Seen(c)' = None BY <1>1, <1>8, <1>10, AnsweredMeans DEF Seen
  <1>14. QED BY <1>10, <1>11, <1>12, <1>13 DEF SameSeen

LEMMA GoingStep ==
  ASSUME TypeOK, InOrder
  PROVE  /\ \A c \in Clients : Leave(c) => InOrder' /\ Line!Leave(c)
         /\ Restart => InOrder' /\ Line!Restart
  <1>1. ASSUME NEW c \in Clients, Leave(c) PROVE InOrder' /\ Line!Leave(c)
    <2>1. /\ seated' = seated \ {c} /\ UNCHANGED <<handler, version>> /\ chan'[c] = <<>>
          /\ \A d \in Clients \ {c} : chan'[d] = chan[d] /\ session'[d] = session[d]
      BY <1>1 DEF Leave, TypeOK
    <2>2. InOrder' BY <2>1 DEF InOrder
    <2>3. Seen(c)' = None BY <2>1 DEF Seen, Answered
    <2>4. \A d \in Clients \ {c} : Seen(d)' = Seen(d) BY <2>1 DEF Seen, Answered
    <2>5. [d \in Clients |-> Seen(d)]' = [[d \in Clients |-> Seen(d)] EXCEPT ![c] = None]
      BY <2>3, <2>4
    <2>6. QED BY <2>1, <2>2, <2>5 DEF Line!Leave, Seen
  <1>2. ASSUME Restart PROVE InOrder' /\ Line!Restart
    BY <1>2 DEF Restart, InOrder, Line!Restart, Answered
  <1>3. QED BY <1>1, <1>2

LEMMA SameSeenStep ==
  ASSUME SameSeen, version' \in {version, version + 1, version + 2}
  PROVE  [Line!Next]_(Line!vars)
  <1>1. [c \in Clients |-> Seen(c)]' = [c \in Clients |-> Seen(c)] BY DEF SameSeen
  <1>2. CASE version' = version BY <1>1, <1>2 DEF Line!vars, Seen
  <1>3. CASE version' # version BY <1>1, <1>3 DEF Line!Next, Line!Advance, Seen
  <1>4. QED BY <1>2, <1>3

LineInv == TypeOK /\ HandlerOK /\ InOrder

LEMMA LineStep ==
  ASSUME LineInv, Next
  PROVE  LineInv' /\ [Line!Next]_(Line!vars)
  <1>1. TypeOK' /\ HandlerOK' BY TypeStep, HandlerStep DEF LineInv
  <1>2. CASE Broadcast
    <2>1. version' \in {version, version + 1, version + 2} BY <1>2 DEF Broadcast
    <2>2. QED BY <1>1, <1>2, <2>1, BroadcastStep, SameSeenStep DEF LineInv
  <1>3. CASE Unsent
    <2>1. version' = version BY <1>3 DEF Unsent
    <2>2. QED BY <1>1, <1>3, <2>1, UnsentStep, SameSeenStep DEF LineInv
  <1>4. ASSUME NEW c \in Clients, NEW showing \in Videos \cup {None}, JoinRead(c, showing)
        PROVE  InOrder' /\ [Line!Next]_(Line!vars)
    <2>1. version' = version BY <1>4 DEF JoinRead
    <2>2. QED BY <1>4, <2>1, JoinReadStep, SameSeenStep DEF LineInv
  <1>5. CASE JoinAnswer
    <2>1. version' = version BY <1>5 DEF JoinAnswer
    <2>2. QED BY <1>1, <1>5, <2>1, JoinAnswerStep, SameSeenStep DEF LineInv
  <1>6. ASSUME NEW c \in Clients, Deliver(c) PROVE InOrder' /\ [Line!Next]_(Line!vars)
    BY <1>1, <1>6, DeliverStep, SameSeenStep DEF LineInv
  <1>7. ASSUME NEW c \in Clients, Leave(c) PROVE InOrder' /\ [Line!Next]_(Line!vars)
    BY <1>7, GoingStep DEF LineInv, Line!Next
  <1>8. CASE Restart BY <1>1, <1>8, GoingStep DEF LineInv, Line!Next
  <1>9. QED
    BY <1>1, <1>2, <1>3, <1>4, <1>5, <1>6, <1>7, <1>8, BroadcastSteps, UnsentSteps
    DEF Next, Handle, LineInv

THEOREM LineInvariant == Spec => []LineInv
  <1>1. Init => LineInv
    BY InitTyped DEF Init, LineInv, HandlerOK, InOrder, Idle, Joining
  <1>2. LineInv /\ [Next]_vars => LineInv'
    <2>1. ASSUME LineInv, UNCHANGED vars PROVE LineInv'
      BY <2>1 DEF vars, LineInv, TypeOK, HandlerOK, InOrder
    <2>2. QED BY <2>1, LineStep
  <1>3. QED BY <1>1, <1>2, PTL DEF Spec

\* A seated viewer that has taken everything has seen the room's version: no
\* broadcast skips anyone (activeConnectionsExcept(null), ROOM_STATE).
THEOREM ViewersCatchUp == Spec => []CaughtUp
  <1>1. LineInv => CaughtUp
    <2> SUFFICES ASSUME LineInv, handler = Idle, NEW c \in Clients, Drained(c),
                        ~session[c].behind
                 PROVE  session[c].last = version
      BY DEF CaughtUp
    <2>1. chan[c] = <<>> /\ c \in seated /\ handler.client # c
      BY NoneAssumption DEF Drained, Idle
    <2>2. Numbered(chan[c]) = {} /\ InLine(chan[c], session[c], version)
      BY <2>1 DEF LineInv, InOrder, Numbered
    <2>3. QED BY <2>2 DEF InLine
  <1>2. QED BY <1>1, LineInvariant, PTL

\* What a viewer has seen moves only forwards along the room's versions, across
\* reconnects and restarts (applyRoomState, applyState, applyCursorChange).
THEOREM ViewersKeepTheLine == Spec => KeepsTimeline
  <1>1. Init => Line!Init BY DEF Init, Line!Init, Answered
  <1>2. LineInv /\ [Next]_vars => [Line!Next]_(Line!vars)
    <2>1. ASSUME UNCHANGED vars PROVE UNCHANGED Line!vars
      BY <2>1 DEF vars, Line!vars, Answered
    <2>2. QED BY <2>1, LineStep
  <1>3. QED BY <1>1, <1>2, LineInvariant, PTL DEF Spec, KeepsTimeline, Line!Spec

-----------------------------------------------------------------------------
(* What a session will hold of an aspect once it has taken the frames s.   *)

\* The value of an aspect in a row, a session, or a frame that bears it.
Holds(r, a) == IF a = "cursor" THEN r.cursor ELSE r.list

\* A ROOM_STATE that is not decoded tells nothing.
Bears(frame, a) ==
  IF a = "list" THEN frame.type = "PLAYLIST_UPDATE"
  ELSE frame.type = "CURSOR_CHANGE" \/ (frame.type = "ROOM_STATE" /\ frame.whole)

Bearing(s, a) == {n \in DOMAIN s : Bears(s[n], a)}

Mute(s, a) == Bearing(s, a) = {}

Tells(s, a, x) ==
  \E n \in Bearing(s, a) : Holds(s[n], a) = x /\ \A m \in Bearing(s, a) : m <= n

EndsAt(s, base, a, x) == (Mute(s, a) /\ Holds(base, a) = x) \/ Tells(s, a, x)

LEMMA EndsAtAppended ==
  ASSUME NEW s \in Seq(Frame), NEW frames \in Seq(Frame), NEW base, NEW a, NEW x
  PROVE  /\ Mute(frames, a) /\ EndsAt(s, base, a, x) => EndsAt(s \o frames, base, a, x)
         /\ Tells(frames, a, x) => EndsAt(s \o frames, base, a, x)
  <1> DEFINE t == s \o frames
  <1>1. /\ DOMAIN t = 1..(Len(s) + Len(frames))
        /\ \A n \in 1..Len(s) : t[n] = s[n]
        /\ \A n \in 1..(Len(s) + Len(frames)) :
             n > Len(s) => n - Len(s) \in 1..Len(frames) /\ t[n] = frames[n - Len(s)]
        /\ Len(s) \in Nat /\ Len(frames) \in Nat
        /\ DOMAIN s = 1..Len(s) /\ DOMAIN frames = 1..Len(frames)
    BY ConcatProperties
  <1> HIDE DEF t
  <1>2. \A n \in Bearing(s, a) : n \in Bearing(t, a) /\ t[n] = s[n] /\ n \in 1..Len(s)
    BY <1>1 DEF Bearing
  <1>3. ASSUME NEW n \in Bearing(frames, a)
        PROVE  n + Len(s) \in Bearing(t, a) /\ t[n + Len(s)] = frames[n] /\ n \in 1..Len(frames)
    <2>1. n \in 1..Len(frames) BY <1>1 DEF Bearing
    <2>2. n + Len(s) \in 1..(Len(s) + Len(frames)) /\ n + Len(s) > Len(s) /\ (n + Len(s)) - Len(s) = n
      BY <1>1, <2>1
    <2>3. t[n + Len(s)] = frames[n] BY <1>1, <2>2
    <2>4. QED BY <1>1, <2>1, <2>2, <2>3 DEF Bearing
  <1>4. ASSUME NEW n \in Bearing(t, a)
        PROVE  \/ n \in Bearing(s, a) /\ n \in 1..Len(s)
               \/ n - Len(s) \in Bearing(frames, a) /\ n \in Nat
    <2>1. n \in 1..(Len(s) + Len(frames)) BY <1>1 DEF Bearing
    <2>2. CASE n <= Len(s) BY <1>1, <2>1, <2>2 DEF Bearing
    <2>3. CASE n > Len(s) BY <1>1, <2>1, <2>3 DEF Bearing
    <2>4. QED BY <1>1, <2>1, <2>2, <2>3
  <1>5. ASSUME Mute(frames, a), EndsAt(s, base, a, x) PROVE EndsAt(t, base, a, x)
    <2>1. \A n \in Bearing(t, a) : n \in Bearing(s, a) BY <1>4, <1>5 DEF Mute
    <2>2. CASE Mute(s, a) /\ Holds(base, a) = x BY <2>1, <2>2 DEF Mute, EndsAt
    <2>3. CASE Tells(s, a, x) BY <1>2, <2>1, <2>3 DEF Tells, EndsAt
    <2>4. QED BY <1>5, <2>2, <2>3 DEF EndsAt
  <1>6. ASSUME Tells(frames, a, x) PROVE EndsAt(t, base, a, x)
    <2>1. PICK k \in Bearing(frames, a) :
            Holds(frames[k], a) = x /\ \A m \in Bearing(frames, a) : m <= k
      BY <1>6 DEF Tells
    <2>2. k + Len(s) \in Bearing(t, a) /\ Holds(t[k + Len(s)], a) = x /\ k \in 1..Len(frames)
      BY <1>3, <2>1
    <2>3. ASSUME NEW n \in Bearing(t, a) PROVE n <= k + Len(s)
      <3>1. CASE n \in 1..Len(s) BY <1>1, <2>2, <3>1
      <3>2. CASE n - Len(s) \in Bearing(frames, a) /\ n \in Nat BY <1>1, <2>1, <2>2, <3>2
      <3>3. QED BY <1>4, <3>1, <3>2
    <2>4. QED BY <2>2, <2>3 DEF Tells, EndsAt
  <1>7. QED BY <1>5, <1>6 DEF t

LEMMA EndsAtTaken ==
  ASSUME NEW s \in Seq(Frame), s # <<>>, NEW base \in Session, NEW a \in Aspects, NEW x,
         EndsAt(s, base, a, x)
  PROVE  EndsAt(Tail(s), Folded(base, Head(s)), a, x)
  <1> DEFINE t == Tail(s)
             after == Folded(base, Head(s))
  <1>1. /\ Head(s) = s[1] /\ s[1] \in Frame /\ Len(s) \in Nat /\ 1 \in DOMAIN s /\ DOMAIN s = 1..Len(s)
        /\ DOMAIN t = 1..(Len(s) - 1)
        /\ \A n \in DOMAIN t : n \in Nat /\ n + 1 \in DOMAIN s /\ t[n] = s[n + 1]
    BY HeadTailProperties, EmptySeq
  <1>2. \A y : y = Holds(after, a) =>
          IF 1 \in Bearing(s, a) THEN y = Holds(s[1], a) ELSE y = Holds(base, a)
    <2>1. CASE s[1].type = "PLAYLIST_UPDATE" BY <1>1, <2>1 DEF Folded, Holds, Bearing, Bears, Session, Aspects
    <2>2. CASE s[1].type = "STATE" BY <1>1, <2>2 DEF Folded, Holds, Bearing, Bears, Session, Aspects
    <2>3. CASE s[1].type = "ROOM_STATE" BY <1>1, <2>3 DEF Folded, Holds, Bearing, Bears, Session, Aspects
    <2>4. CASE s[1].type = "CURSOR_CHANGE" BY <1>1, <2>4 DEF Folded, Holds, Bearing, Bears, Session, Aspects
    <2>5. QED BY <1>1, <2>1, <2>2, <2>3, <2>4 DEF Frame
  <1> HIDE DEF t, after
  <1>3. \A n \in Bearing(t, a) : n + 1 \in Bearing(s, a) /\ t[n] = s[n + 1] /\ n \in Nat /\ n > 0
    BY <1>1 DEF Bearing
  <1>4. ASSUME NEW n \in Bearing(s, a), n # 1 PROVE n - 1 \in Bearing(t, a) /\ t[n - 1] = s[n]
    <2>1. n - 1 \in DOMAIN t /\ (n - 1) + 1 = n BY <1>1, <1>4 DEF Bearing
    <2>2. QED BY <1>1, <1>4, <2>1 DEF Bearing
  <1>5. CASE Mute(s, a) /\ Holds(base, a) = x
    <2>1. Mute(t, a) BY <1>3, <1>5 DEF Mute
    <2>2. Holds(after, a) = x BY <1>2, <1>5 DEF Mute
    <2>3. QED BY <2>1, <2>2 DEF EndsAt, t, after
  <1>6. CASE Tells(s, a, x)
    <2>1. PICK k \in Bearing(s, a) : Holds(s[k], a) = x /\ \A m \in Bearing(s, a) : m <= k
      BY <1>6 DEF Tells
    <2>2. k \in Nat BY <1>1 DEF Bearing
    <2>3. CASE k = 1
      <3>1. \A n \in Bearing(t, a) : n + 1 <= 1 /\ n \in Nat /\ n > 0 BY <1>3, <2>1, <2>3
      <3>2. \A n \in Nat : ~(n + 1 <= 1 /\ n > 0) OBVIOUS
      <3>3. Mute(t, a) BY <3>1, <3>2 DEF Mute
      <3>4. Holds(after, a) = x BY <1>2, <2>1, <2>3
      <3>5. QED BY <3>3, <3>4 DEF EndsAt, t, after
    <2>4. CASE k # 1
      <3>1. k - 1 \in Bearing(t, a) /\ t[k - 1] = s[k] BY <1>4, <2>4
      <3>2. \A n \in Bearing(t, a) : n <= k - 1 BY <1>3, <2>1, <2>2
      <3>3. Tells(t, a, x) BY <2>1, <3>1, <3>2 DEF Tells
      <3>4. QED BY <3>3 DEF EndsAt, t, after
    <2>5. QED BY <2>3, <2>4
  <1>7. QED BY <1>5, <1>6 DEF EndsAt

\* What each sequence of frames the daemon sends tells.
LEMMA FramesTell ==
  ASSUME NEW x, NEW list, NEW w
  PROVE  /\ \A plays : \A a \in Aspects : Mute(<<StateFrame(w, plays)>>, a)
         /\ Tells(<<CursorFrame(x, w)>>, "cursor", x) /\ Mute(<<CursorFrame(x, w)>>, "list")
         /\ Tells(<<PlaylistFrame(list)>>, "list", list) /\ Mute(<<PlaylistFrame(list)>>, "cursor")
         /\ Tells(<<PlaylistFrame(list), CursorFrame(x, w)>>, "cursor", x)
         /\ Tells(<<PlaylistFrame(list), CursorFrame(x, w)>>, "list", list)
         /\ \A r : r.type = "ROOM_STATE" /\ r.whole /\ r.cursor = x =>
              Tells(<<r>>, "cursor", x) /\ Mute(<<r>>, "list")
  <1>1. ASSUME NEW f
        PROVE  /\ \A a : Bearing(<<f>>, a) = IF Bears(f, a) THEN {1} ELSE {}
               /\ <<f>>[1] = f
    <2>1. DOMAIN <<f>> = {1} /\ <<f>>[1] = f OBVIOUS
    <2>2. QED BY <2>1 DEF Bearing
  <1>2. \A plays : \A a \in Aspects : Mute(<<StateFrame(w, plays)>>, a)
    BY <1>1 DEF Mute, StateFrame, Bears, Aspects
  <1>3. Tells(<<CursorFrame(x, w)>>, "cursor", x) /\ Mute(<<CursorFrame(x, w)>>, "list")
    BY <1>1 DEF Mute, Tells, Holds, Bears, CursorFrame
  <1>4. Tells(<<PlaylistFrame(list)>>, "list", list) /\ Mute(<<PlaylistFrame(list)>>, "cursor")
    BY <1>1 DEF Mute, Tells, Holds, Bears, PlaylistFrame
  <1> DEFINE p == PlaylistFrame(list)
             f == CursorFrame(x, w)
  <1>5. p.type = "PLAYLIST_UPDATE" /\ p.list = list /\ f.type = "CURSOR_CHANGE" /\ f.cursor = x
    BY DEF PlaylistFrame, CursorFrame
  <1> HIDE DEF p, f
  <1>6. DOMAIN <<p, f>> = {1, 2} /\ <<p, f>>[1] = p /\ <<p, f>>[2] = f OBVIOUS
  <1>7. Bearing(<<p, f>>, "cursor") = {2} /\ Bearing(<<p, f>>, "list") = {1} BY <1>5, <1>6 DEF Bearing, Bears
  <1>8. Tells(<<p, f>>, "cursor", x) /\ Tells(<<p, f>>, "list", list)
    BY <1>5, <1>6, <1>7 DEF Tells, Holds
  <1>9. \A r : r.type = "ROOM_STATE" /\ r.whole /\ r.cursor = x =>
          Tells(<<r>>, "cursor", x) /\ Mute(<<r>>, "list")
    BY <1>1 DEF Mute, Tells, Holds, Bears
  <1>10. QED BY <1>2, <1>3, <1>4, <1>8, <1>9 DEF p, f

LEMMA WelcomeTells ==
  ASSUME NEW r, NEW p, NEW f, NEW x, NEW list,
         r.type = "ROOM_STATE", r.cursor = x, f.type = "CURSOR_CHANGE", f.cursor = x,
         p.type = "PLAYLIST_UPDATE", p.list = list,
         NEW s \in {<<r>>, <<r, p>>, <<r, f>>, <<r, p, f>>}
  PROVE  /\ r.whole => Tells(s, "cursor", x)
         /\ s \in {<<r, p>>, <<r, p, f>>} => Tells(s, "list", list)
  <1>1. CASE s = <<r>>
    <2>1. DOMAIN s = {1} /\ s[1] = r BY <1>1
    <2>2. r.whole => Bearing(s, "cursor") = {1} BY <2>1 DEF Bearing, Bears
    <2>3. r.whole => Tells(s, "cursor", x) BY <2>1, <2>2 DEF Tells, Holds
    <2>4. Len(s) = 1 /\ Len(<<r, p>>) = 2 /\ Len(<<r, p, f>>) = 3 BY <1>1
    <2>5. QED BY <2>3, <2>4
  <1>2. CASE s = <<r, p>>
    <2>1. DOMAIN s = {1, 2} /\ s[1] = r /\ s[2] = p BY <1>2
    <2>2. (r.whole => Bearing(s, "cursor") = {1}) /\ Bearing(s, "list") = {2} BY <2>1 DEF Bearing, Bears
    <2>3. QED BY <2>1, <2>2 DEF Tells, Holds
  <1>3. CASE s = <<r, f>>
    <2>1. DOMAIN s = {1, 2} /\ s[1] = r /\ s[2] = f BY <1>3
    <2>2. r.whole => Bearing(s, "cursor") = {1, 2} BY <2>1 DEF Bearing, Bears
    <2>3. r.whole => Tells(s, "cursor", x) BY <2>1, <2>2 DEF Tells, Holds
    <2>4. f # p OBVIOUS
    <2>5. s \notin {<<r, p>>, <<r, p, f>>}
      <3>1. Len(s) = 2 /\ Len(<<r, p, f>>) = 3 BY <1>3
      <3>2. s[2] # <<r, p>>[2] BY <2>1, <2>4
      <3>3. QED BY <3>1, <3>2
    <2>6. QED BY <2>3, <2>5
  <1>4. CASE s = <<r, p, f>>
    <2>1. DOMAIN s = {1, 2, 3} /\ s[1] = r /\ s[2] = p /\ s[3] = f BY <1>4
    <2>2. (r.whole => Bearing(s, "cursor") = {1, 3}) /\ Bearing(s, "list") = {2} BY <2>1 DEF Bearing, Bears
    <2>3. QED BY <2>1, <2>2 DEF Tells, Holds
  <1>5. QED BY <1>1, <1>2, <1>3, <1>4

-----------------------------------------------------------------------------
(* Every seated viewer will come to hold an aspect of the row, or it is    *)
(* known that nobody will say so, or an owner's call is still to come, or  *)
(* the handler in progress is about to announce it.                        *)

Pending(a) ==
  IF a = "cursor" THEN calls["cursor_change"] > 0 /\ row.cursor # None
                  ELSE calls["playlist_update"] > 0

Announcing(a) ==
  \/ handler.step = "cursor" /\ (a = "cursor" \/ handler.appended)
  \/ handler.step = "playlist" /\ a = "list"

Settled(c, a) ==
  IF Announcing(a) THEN Holds(handler.outcome, a) = Holds(row, a)
                   ELSE EndsAt(chan[c], session[c], a, Holds(row, a))

Due(c, a) == a \in untold[c] \/ Pending(a) \/ Settled(c, a)

Agreeing ==
  /\ seated # {} => runtime
  /\ \A c \in seated : handler.client = c => untold[c] = Aspects
  /\ \A c \in seated, a \in Aspects : Due(c, a)

\* What is on its way to a client once it is sent more.
LEMMA SentTells ==
  ASSUME TypeOK, NEW c \in Clients, NEW S, c \in S, NEW frames \in Seq(Frame), Send(S, frames),
         NEW base, NEW a, NEW x
  PROVE  /\ Mute(frames, a) /\ EndsAt(chan[c], base, a, x) => EndsAt(chan'[c], base, a, x)
         /\ Tells(frames, a, x) => EndsAt(chan'[c], base, a, x)
  <1>1. chan[c] \in Seq(Frame) /\ chan'[c] = chan[c] \o frames BY DEF TypeOK, Send
  <1>2. QED BY <1>1, EndsAtAppended

\* Steps that leave an aspect, and who was told of it, as it is.
LEMMA DueKept ==
  ASSUME NEW c \in Clients, NEW a \in Aspects, Due(c, a),
         a \in untold[c] => a \in untold'[c],
         Holds(row', a) = Holds(row, a),
         Pending(a) => Pending(a)',
         Announcing(a)' <=> Announcing(a),
         Announcing(a) => handler'.outcome = handler.outcome,
         ~Announcing(a) => \/ UNCHANGED <<chan, session>>
                           \/ EndsAt(chan[c], session[c], a, Holds(row, a)) =>
                                EndsAt(chan'[c], session'[c], a, Holds(row, a))
  PROVE  Due(c, a)'
  <1>1. CASE a \in untold[c] BY <1>1 DEF Due
  <1>2. CASE Pending(a) BY <1>2 DEF Due
  <1>3. CASE Settled(c, a)
    <2>1. CASE Announcing(a)
      <3>1. Holds(handler'.outcome, a) = Holds(row', a) BY <1>3, <2>1 DEF Settled
      <3>2. Settled(c, a)' BY <2>1, <3>1 DEF Settled
      <3>3. QED BY <3>2 DEF Due
    <2>2. CASE ~Announcing(a)
      <3>1. EndsAt(chan[c], session[c], a, Holds(row, a)) BY <1>3, <2>2 DEF Settled
      <3>2. EndsAt(chan'[c], session'[c], a, Holds(row', a)) BY <2>2, <3>1
      <3>3. Settled(c, a)' BY <2>2, <3>2 DEF Settled
      <3>4. QED BY <3>3 DEF Due
    <2>3. QED BY <2>1, <2>2
  <1>4. QED BY <1>1, <1>2, <1>3 DEF Due

LEMMA AgreePlayback ==
  ASSUME TypeOK, TypeOK', Agreeing,
         \/ \E c \in Clients, event \in {"play", "pause", "seek"} : EventFrame(c, event)
         \/ \E event \in {"play", "pause", "seek"} : OwnerPlayback(event)
         \/ OwnerReset
  PROVE  Agreeing'
  <1>1. /\ UNCHANGED <<row, calls, runtime, handler, seated, session, untold>>
        /\ Send(seated, <<StateFrame(version', playing')>>)
    BY DEF EventFrame, OwnerPlayback, OwnerReset, rowVars
  <1>2. <<StateFrame(version', playing')>> \in Seq(Frame)
    <2>1. version' \in 0..MaxVersion /\ playing' \in BOOLEAN BY DEF TypeOK
    <2>2. QED BY <2>1, FramesTyped
  <1>3. ASSUME NEW c \in seated, NEW a \in Aspects PROVE Due(c, a)'
    <2>1. c \in Clients /\ Due(c, a) BY DEF TypeOK, Agreeing
    <2>2. Mute(<<StateFrame(version', playing')>>, a) BY FramesTell
    <2>3. EndsAt(chan[c], session[c], a, Holds(row, a)) => EndsAt(chan'[c], session[c], a, Holds(row, a))
      BY <1>1, <1>2, <2>1, <2>2, SentTells
    <2>4. (Pending(a)' <=> Pending(a)) /\ (Announcing(a)' <=> Announcing(a)) BY <1>1 DEF Pending, Announcing
    <2>5. QED BY <1>1, <2>1, <2>3, <2>4, DueKept
  <1>4. QED BY <1>1, <1>3 DEF Agreeing

LEMMA AgreeRequest ==
  ASSUME TypeOK, Agreeing,
         \/ \E v \in Videos : RequestCursor(v)
         \/ \E videos \in SUBSET Videos : SendPlaylist(videos)
  PROVE  Agreeing'
  <1>1. /\ UNCHANGED <<calls, runtime, seated, chan, session, untold>> /\ handler'.client = None
        /\ handler = Idle
    BY DEF RequestCursor, SendPlaylist, Idle, Free
  <1>2. \A a \in Aspects : ~Announcing(a) BY <1>1 DEF Announcing, Idle
  <1>3. row' = handler'.outcome
    BY DEF RequestCursor, SendPlaylist, Commit, Idle
  <1>4. \A a \in Aspects : ~Announcing(a)' => Holds(row', a) = Holds(row, a)
    <2>1. CASE \E v \in Videos : RequestCursor(v)
      <3>1. PICK v \in Videos : RequestCursor(v) BY <2>1
      <3>2. row' \in MoveOutcomes(v) /\ handler'.step = "cursor" /\ handler'.appended = (v \notin row.list)
        BY <3>1 DEF RequestCursor, Commit, Idle
      <3>3. ASSUME v \in row.list PROVE row'.list = row.list BY <3>2, <3>3 DEF MoveOutcomes, TypeOK, Row
      <3>4. QED BY <3>2, <3>3 DEF Announcing, Holds, Aspects
    <2>2. CASE \E videos \in SUBSET Videos : SendPlaylist(videos)
      <3>1. PICK videos \in SUBSET Videos : SendPlaylist(videos) BY <2>2
      <3>2. row' \in MergeOutcomes(videos) /\ handler'.step = "playlist"
        BY <3>1 DEF SendPlaylist, Commit, Idle
      <3>3. row'.cursor = row.cursor BY <3>2 DEF MergeOutcomes, TypeOK, Row
      <3>4. QED BY <3>2, <3>3 DEF Announcing, Holds, Aspects
    <2>3. QED BY <2>1, <2>2
  <1>5. ASSUME NEW c \in seated, NEW a \in Aspects PROVE Due(c, a)'
    <2>1. c \in Clients /\ Due(c, a) BY DEF TypeOK, Agreeing
    <2>2. CASE Announcing(a)' BY <1>3, <2>2 DEF Due, Settled
    <2>3. CASE ~Announcing(a)'
      <3>1. Holds(row', a) = Holds(row, a) BY <1>4, <2>3
      <3>2. Pending(a) => Pending(a)' BY <1>1, <3>1 DEF Pending, Holds
      <3>3. QED BY <1>1, <1>2, <2>1, <2>3, <3>1, <3>2, DueKept
    <2>4. QED BY <2>2, <2>3
  <1>6. QED BY <1>1, <1>5, NoneAssumption DEF Agreeing, TypeOK

LEMMA AgreeAnnounceCursor ==
  ASSUME TypeOK, TypeOK', HandlerOK, Agreeing, AnnounceCursor
  PROVE  Agreeing'
  <1> DEFINE move == CursorFrame(handler.outcome.cursor, version')
             news == PlaylistFrame(handler.outcome.list)
             frames == IF handler.appended THEN <<news, move>> ELSE <<move>>
             told == If(handler.outcome.cursor = row.cursor, "cursor") \cup
                     If(handler.appended /\ handler.outcome.list = row.list, "list")
  <1>1. /\ UNCHANGED <<row, calls, runtime, seated, session>> /\ handler' = Idle
        /\ Send(seated, frames) /\ Told(seated, told) /\ handler.step = "cursor"
    BY DEF AnnounceCursor, rowVars
  <1>2. frames \in Seq(Frame)
    <2>1. handler.outcome.cursor \in Videos /\ handler.outcome.list \in SUBSET Videos
      BY <1>1 DEF HandlerOK, TypeOK, Handler, Row
    <2>2. version' \in 0..MaxVersion BY DEF TypeOK
    <2>3. move \in Frame /\ news \in Frame BY <2>1, <2>2, FramesTyped
    <2> HIDE DEF move, news
    <2>4. QED BY <2>3
  <1>3. /\ Tells(frames, "cursor", handler.outcome.cursor)
        /\ IF handler.appended THEN Tells(frames, "list", handler.outcome.list) ELSE Mute(frames, "list")
    BY FramesTell
  <1>4. /\ "cursor" \in told <=> handler.outcome.cursor = row.cursor
        /\ "list" \in told <=> handler.appended /\ handler.outcome.list = row.list
    BY DEF If
  <1> HIDE DEF frames, told
  <1>5. ASSUME NEW c \in seated, NEW a \in Aspects PROVE Due(c, a)'
    <2>1. c \in Clients /\ Due(c, a) BY DEF TypeOK, Agreeing
    <2>2. ~Announcing(a)' BY <1>1 DEF Announcing, Idle
    <2>3. untold'[c] = untold[c] \ told BY <1>1, <2>1 DEF Told
    <2>4. Pending(a)' <=> Pending(a) BY <1>1 DEF Pending
    <2>5. CASE a \in told
      <3>1. Tells(frames, a, Holds(row, a)) BY <1>3, <1>4, <2>5 DEF Holds, Aspects
      <3>2. EndsAt(chan'[c], session[c], a, Holds(row, a)) BY <1>1, <1>2, <2>1, <3>1, SentTells
      <3>3. QED BY <1>1, <2>2, <3>2 DEF Due, Settled
    <2>6. CASE a \notin told /\ Announcing(a)
      <3>1. ~Settled(c, a) BY <1>1, <1>4, <2>6 DEF Settled, Announcing, Holds, Aspects
      <3>2. QED BY <2>1, <2>3, <2>4, <2>6, <3>1 DEF Due
    <2>7. CASE a \notin told /\ ~Announcing(a)
      <3>1. Mute(frames, a) BY <1>1, <1>3, <2>7 DEF Announcing, Aspects
      <3>2. EndsAt(chan[c], session[c], a, Holds(row, a)) => EndsAt(chan'[c], session[c], a, Holds(row, a))
        BY <1>1, <1>2, <2>1, <3>1, SentTells
      <3>3. QED BY <1>1, <2>1, <2>2, <2>3, <2>4, <2>7, <3>2, DueKept
    <2>8. QED BY <2>5, <2>6, <2>7
  <1>6. QED BY <1>1, <1>5, NoneAssumption DEF Agreeing, TypeOK, Idle

LEMMA AgreeAnnouncePlaylist ==
  ASSUME TypeOK, HandlerOK, Agreeing, AnnouncePlaylist
  PROVE  Agreeing'
  <1> DEFINE frames == <<PlaylistFrame(handler.outcome.list)>>
             told == If(handler.outcome.list = row.list, "list")
  <1>1. /\ UNCHANGED <<row, calls, runtime, seated, session>> /\ handler' = Idle
        /\ Send(seated, frames) /\ Told(seated, told) /\ handler.step = "playlist"
    BY DEF AnnouncePlaylist, rowVars
  <1>2. frames \in Seq(Frame)
    <2>1. handler.outcome.list \in SUBSET Videos BY DEF TypeOK, Handler, Row
    <2>2. QED BY <2>1, FramesTyped, BoundsAssumption DEF PlaylistFrame, Frame
  <1>3. Tells(frames, "list", handler.outcome.list) /\ Mute(frames, "cursor") BY FramesTell
  <1>4. "cursor" \notin told /\ ("list" \in told <=> handler.outcome.list = row.list) BY DEF If
  <1> HIDE DEF frames, told
  <1>5. ASSUME NEW c \in seated, NEW a \in Aspects PROVE Due(c, a)'
    <2>1. c \in Clients /\ Due(c, a) BY DEF TypeOK, Agreeing
    <2>2. ~Announcing(a)' BY <1>1 DEF Announcing, Idle
    <2>3. untold'[c] = untold[c] \ told BY <1>1, <2>1 DEF Told
    <2>4. Pending(a)' <=> Pending(a) BY <1>1 DEF Pending
    <2>5. CASE a \in told
      <3>1. Tells(frames, a, Holds(row, a)) BY <1>3, <1>4, <2>5 DEF Holds, Aspects
      <3>2. EndsAt(chan'[c], session[c], a, Holds(row, a)) BY <1>1, <1>2, <2>1, <3>1, SentTells
      <3>3. QED BY <1>1, <2>2, <3>2 DEF Due, Settled
    <2>6. CASE a \notin told /\ Announcing(a)
      <3>1. ~Settled(c, a) BY <1>1, <1>4, <2>6 DEF Settled, Announcing, Holds, Aspects
      <3>2. QED BY <2>1, <2>3, <2>4, <2>6, <3>1 DEF Due
    <2>7. CASE a \notin told /\ ~Announcing(a)
      <3>1. Mute(frames, a) BY <1>1, <1>3, <2>7 DEF Announcing, Aspects
      <3>2. EndsAt(chan[c], session[c], a, Holds(row, a)) => EndsAt(chan'[c], session[c], a, Holds(row, a))
        BY <1>1, <1>2, <2>1, <3>1, SentTells
      <3>3. QED BY <1>1, <2>1, <2>2, <2>3, <2>4, <2>7, <3>2, DueKept
    <2>8. QED BY <2>5, <2>6, <2>7
  <1>6. QED BY <1>1, <1>5, NoneAssumption DEF Agreeing, TypeOK, Idle

LEMMA AgreeJoinRead ==
  ASSUME TypeOK, Agreeing, NEW d \in Clients, NEW showing \in Videos \cup {None}, JoinRead(d, showing)
  PROVE  Agreeing'
  <1>1. /\ UNCHANGED <<row, calls, chan, session>> /\ runtime' = TRUE /\ seated' = seated \cup {d}
        /\ d \notin seated /\ handler = Idle /\ handler'.step = "read" /\ handler'.client = d
        /\ untold' = [untold EXCEPT ![d] = Aspects]
    BY DEF JoinRead, Free, Idle, rowVars
  <1>2. untold'[d] = Aspects BY <1>1 DEF TypeOK
  <1>3. ASSUME NEW c \in seated, NEW a \in Aspects PROVE Due(c, a)'
    <2>1. c \in Clients /\ Due(c, a) /\ untold'[c] = untold[c] BY <1>1 DEF TypeOK, Agreeing
    <2>2. ~Announcing(a) /\ ~Announcing(a)' BY <1>1 DEF Announcing, Idle
    <2>3. Pending(a)' <=> Pending(a) BY <1>1 DEF Pending
    <2>4. QED BY <1>1, <2>1, <2>2, <2>3, DueKept
  <1>4. \A a \in Aspects : Due(d, a)' BY <1>2 DEF Due
  <1>5. QED BY <1>1, <1>2, <1>3, <1>4 DEF Agreeing

\* A JOIN's writes are announced to nobody, and everybody present is marked.
LEMMA AgreeJoinWrites ==
  ASSUME TypeOK, Agreeing, Silently, handler.step \in Joining, handler'.step \in Joining,
         handler'.client = handler.client, UNCHANGED <<calls, runtime, seated, chan, session>>
  PROVE  Agreeing'
  <1> DEFINE changed == If(row'.cursor # row.cursor, "cursor") \cup If(row'.list # row.list, "list")
  <1>1. /\ changed \subseteq Aspects
        /\ \A a \in Aspects : a \in changed \/ Holds(row', a) = Holds(row, a)
    BY DEF If, Aspects, Holds
  <1> HIDE DEF changed
  <1>2. \A c \in seated : untold'[c] = untold[c] \cup changed
    BY DEF Silently, Untell, TypeOK, changed
  <1>3. ASSUME NEW c \in seated, NEW a \in Aspects PROVE Due(c, a)'
    <2>1. c \in Clients /\ Due(c, a) BY DEF TypeOK, Agreeing
    <2>2. CASE a \in changed BY <1>2, <2>2 DEF Due
    <2>3. CASE Holds(row', a) = Holds(row, a)
      <3>1. ~Announcing(a) /\ ~Announcing(a)' BY DEF Announcing, Joining
      <3>2. Pending(a) => Pending(a)' BY <2>3 DEF Pending, Holds
      <3>3. QED BY <1>2, <2>1, <2>3, <3>1, <3>2, DueKept
    <2>4. QED BY <1>1, <2>2, <2>3
  <1>4. \A c \in seated : handler.client = c => untold'[c] = Aspects BY <1>1, <1>2 DEF Agreeing
  <1>5. QED BY <1>3, <1>4 DEF Agreeing

LEMMA AgreeJoinSteps ==
  ASSUME TypeOK, Agreeing,
         \/ \E videos \in SUBSET Videos \ {{}} : JoinMerge(videos)
         \/ JoinReread \/ JoinSeed \/ JoinMove \/ JoinMoveRefused
  PROVE  Agreeing'
  <1>1. handler \in Handler BY DEF TypeOK
  <1>2. /\ handler.step \in Joining /\ handler'.step \in Joining /\ handler'.client = handler.client
        /\ UNCHANGED <<calls, runtime, seated, chan, session>>
    BY <1>1 DEF JoinMerge, JoinReread, JoinSeed, SeedDue, JoinMove, JoinMoveRefused, Joining, Handler,
                rowVars
  <1>3. CASE (\E videos \in SUBSET Videos \ {{}} : JoinMerge(videos)) \/ JoinSeed \/ JoinMove
    <2>1. Silently BY <1>3 DEF JoinMerge, JoinSeed, JoinMove
    <2>2. QED BY <1>2, <2>1, AgreeJoinWrites
  <1>4. CASE JoinReread \/ JoinMoveRefused
    <2>1. UNCHANGED <<row, untold>> BY <1>4 DEF JoinReread, JoinMoveRefused, rowVars
    <2>2. Silently
      <3>1. If(row'.cursor # row.cursor, "cursor") \cup If(row'.list # row.list, "list") = {}
        BY <2>1 DEF If
      <3>2. untold' = [c \in Clients |-> IF c \in seated THEN untold[c] \cup {} ELSE untold[c]]
        BY <2>1 DEF TypeOK
      <3>3. QED BY <3>1, <3>2 DEF Silently, Untell
    <2>3. QED BY <1>2, <2>2, AgreeJoinWrites
  <1>5. QED BY <1>3, <1>4

LEMMA AgreeOwner ==
  ASSUME TypeOK, Agreeing,
         \/ \E v \in Videos : OwnerSetCursor(v) \/ OwnerAdd(v) \/ OwnerUpdate(v) \/ OwnerRemove(v)
         \/ OwnerClear
         \/ \E mode \in Modes : OwnerMode(mode)
  PROVE  Agreeing'
  <1>1. UNCHANGED <<runtime, handler, seated, chan, session>>
    BY DEF OwnerSetCursor, OwnerAdd, OwnerUpdate, OwnerRemove, OwnerClear, OwnerMode, Unmoved
  <1>2. ASSUME NEW kind \in Kinds, Call(kind)
        PROVE  calls'[kind] > 0 /\ \A k \in Kinds : calls[k] > 0 => calls'[k] > 0
    <2>1. \A k \in Kinds : calls[k] \in Nat BY BoundsAssumption DEF TypeOK
    <2>2. calls'[kind] = calls[kind] + 1 /\ \A k \in Kinds \ {kind} : calls'[k] = calls[k]
      BY <1>2 DEF Call, TypeOK
    <2>3. QED BY <2>1, <2>2
  <1>3. {"cursor_change", "playlist_update", "room_state"} = Kinds BY DEF Kinds
  <1>4. ASSUME \A c \in seated : /\ untold[c] \subseteq untold'[c]
                                 /\ untold'[c] \subseteq Aspects,
               \A c \in seated, a \in Aspects :
                 \/ Pending(a)' \/ a \in untold'[c]
                 \/ Holds(row', a) = Holds(row, a) /\ (Pending(a) => Pending(a)')
        PROVE  Agreeing'
    <2>1. ASSUME NEW c \in seated, NEW a \in Aspects PROVE Due(c, a)'
      <3>1. c \in Clients /\ Due(c, a) BY DEF TypeOK, Agreeing
      <3>2. CASE Pending(a)' \/ a \in untold'[c] BY <3>2 DEF Due
      <3>3. CASE Holds(row', a) = Holds(row, a) /\ (Pending(a) => Pending(a)')
        <4>1. Announcing(a)' <=> Announcing(a) BY <1>1 DEF Announcing
        <4>2. QED BY <1>1, <1>4, <3>1, <3>3, <4>1, DueKept
      <3>4. QED BY <1>4, <3>2, <3>3
    <2>2. \A c \in seated : handler'.client = c => untold'[c] = Aspects BY <1>1, <1>4 DEF Agreeing
    <2>3. QED BY <1>1, <2>1, <2>2 DEF Agreeing
  <1>5. UNCHANGED untold => \A c \in seated : untold[c] \subseteq untold'[c] /\ untold'[c] \subseteq Aspects
    BY DEF TypeOK
  <1>6. row \in Row BY DEF TypeOK
  <1>7. ASSUME NEW v \in Videos, OwnerSetCursor(v) PROVE Agreeing'
    <2>1. /\ row'.cursor = v /\ row'.list = row.list /\ Call("cursor_change") /\ UNCHANGED untold
      BY <1>6, <1>7 DEF OwnerSetCursor, Commit, Row
    <2>2. Pending("cursor")' BY <1>2, <1>3, <2>1, NoneAssumption DEF Pending
    <2>3. Pending("list") => Pending("list")' BY <1>2, <1>3, <2>1 DEF Pending
    <2>4. Holds(row', "list") = Holds(row, "list") BY <2>1 DEF Holds
    <2>5. QED BY <1>4, <1>5, <2>1, <2>2, <2>3, <2>4 DEF Aspects
  <1>8. ASSUME row'.cursor = row.cursor, Call("playlist_update"), UNCHANGED untold PROVE Agreeing'
    <2>1. Pending("list")' BY <1>2, <1>3, <1>8 DEF Pending
    <2>2. Pending("cursor") => Pending("cursor")' BY <1>2, <1>3, <1>8 DEF Pending
    <2>3. Holds(row', "cursor") = Holds(row, "cursor") BY <1>8 DEF Holds
    <2>4. QED BY <1>4, <1>5, <1>8, <2>1, <2>2, <2>3 DEF Aspects
  <1>9. ASSUME NEW v \in Videos, OwnerAdd(v) PROVE Agreeing'
    <2>1. row' \in MergeOutcomes({v}) BY <1>9 DEF OwnerAdd, Commit
    <2>2. row'.cursor = row.cursor BY <1>6, <2>1 DEF MergeOutcomes, Row
    <2>3. QED BY <1>8, <1>9, <2>2 DEF OwnerAdd
  <1>10. ASSUME NEW v \in Videos, OwnerUpdate(v) PROVE Agreeing'
    BY <1>8, <1>10 DEF OwnerUpdate, Commit
  <1>11. ASSUME NEW v \in Videos, OwnerRemove(v) PROVE Agreeing'
    <2>1. row'.cursor = row.cursor BY <1>6, <1>11 DEF OwnerRemove, Commit, Row
    <2>2. QED BY <1>8, <1>11, <2>1 DEF OwnerRemove
  <1>12. CASE OwnerClear
    <2>1. /\ row'.cursor = None /\ Call("playlist_update")
          /\ Untell(If(row.cursor # None, "cursor"))
      BY <1>6, <1>12 DEF OwnerClear, Commit, Row
    <2>2. Pending("list")' BY <1>2, <1>3, <2>1 DEF Pending
    <2>3. \A c \in seated : untold'[c] = untold[c] \cup If(row.cursor # None, "cursor")
      BY <2>1 DEF Untell, TypeOK
    <2>4. \A c \in seated : untold[c] \subseteq untold'[c] /\ untold'[c] \subseteq Aspects
      BY <2>3 DEF If, Aspects, TypeOK
    <2>5. CASE row.cursor # None
      <3>1. \A c \in seated : "cursor" \in untold'[c] BY <2>3, <2>5 DEF If
      <3>2. QED BY <1>4, <2>2, <2>4, <3>1 DEF Aspects
    <2>6. CASE row.cursor = None
      <3>1. ~Pending("cursor") /\ Holds(row', "cursor") = Holds(row, "cursor")
        BY <2>1, <2>6 DEF Pending, Holds
      <3>2. QED BY <1>4, <2>2, <2>4, <3>1 DEF Aspects
    <2>7. QED BY <2>5, <2>6
  <1>13. ASSUME NEW mode \in Modes, OwnerMode(mode) PROVE Agreeing'
    <2>1. /\ row'.cursor = row.cursor /\ row'.list = row.list /\ Call("room_state") /\ UNCHANGED untold
      BY <1>6, <1>13 DEF OwnerMode, Commit, Row
    <2>2. \A a \in Aspects : Holds(row', a) = Holds(row, a) BY <2>1 DEF Holds
    <2>3. \A a \in Aspects : Pending(a) => Pending(a)' BY <1>2, <1>3, <2>1 DEF Pending
    <2>4. QED BY <1>4, <1>5, <2>1, <2>2, <2>3
  <1>14. QED BY <1>7, <1>9, <1>10, <1>11, <1>12, <1>13

LEMMA AgreeCallUnheard ==
  ASSUME TypeOK, Agreeing, NEW kind \in Kinds, CallUnheard(kind)
  PROVE  Agreeing'
  <1>1. UNCHANGED <<row, runtime, handler, seated, chan, session, untold>>
        /\ calls' = [calls EXCEPT ![kind] = @ - 1]
    BY DEF CallUnheard, Arrive
  <1>2. CASE ~runtime BY <1>1, <1>2 DEF Agreeing
  <1>3. CASE runtime
    <2>1. kind = "room_state" \/ (kind = "cursor_change" /\ row.cursor = None)
      BY <1>3 DEF CallUnheard
    <2>2. \A k \in Kinds \ {kind} : calls'[k] = calls[k] BY <1>1 DEF TypeOK
    <2>3. {"cursor_change", "playlist_update"} \subseteq Kinds BY DEF Kinds
    <2>4. \A a \in Aspects : Pending(a) => Pending(a)' BY <1>1, <2>1, <2>2, <2>3 DEF Pending
    <2>5. \A a \in Aspects : Announcing(a)' <=> Announcing(a) BY <1>1 DEF Announcing
    <2>6. ASSUME NEW c \in seated, NEW a \in Aspects PROVE Due(c, a)'
      <3>1. c \in Clients /\ Due(c, a) BY DEF TypeOK, Agreeing
      <3>2. QED BY <1>1, <2>4, <2>5, <3>1, DueKept
    <2>7. QED BY <1>1, <2>6 DEF Agreeing
  <1>4. QED BY <1>2, <1>3

LEMMA AgreeCallLost ==
  ASSUME TypeOK, Agreeing, NEW kind \in Kinds, CallLost(kind)
  PROVE  Agreeing'
  <1> DEFINE lost == If(kind = "cursor_change", "cursor") \cup If(kind = "playlist_update", "list")
  <1>1. /\ UNCHANGED <<row, runtime, handler, seated, chan, session>>
        /\ calls' = [calls EXCEPT ![kind] = @ - 1] /\ Untell(lost)
    BY DEF CallLost, daemonVars
  <1>2. /\ lost \subseteq Aspects
        /\ kind = "cursor_change" => "cursor" \in lost
        /\ kind = "playlist_update" => "list" \in lost
    BY DEF If, Aspects
  <1> HIDE DEF lost
  <1>3. \A c \in seated : untold'[c] = untold[c] \cup lost BY <1>1 DEF Untell, TypeOK
  <1>4. \A k \in Kinds \ {kind} : calls'[k] = calls[k] BY <1>1 DEF TypeOK
  <1>5. {"cursor_change", "playlist_update"} \subseteq Kinds BY DEF Kinds
  <1>6. \A a \in Aspects : a \in lost \/ (Pending(a) => Pending(a)')
    BY <1>1, <1>2, <1>4, <1>5 DEF Pending, Aspects
  <1>7. \A a \in Aspects : Announcing(a)' <=> Announcing(a) BY <1>1 DEF Announcing
  <1>8. ASSUME NEW c \in seated, NEW a \in Aspects PROVE Due(c, a)'
    <2>1. c \in Clients /\ Due(c, a) BY DEF TypeOK, Agreeing
    <2>2. CASE a \in lost BY <1>3, <2>2 DEF Due
    <2>3. CASE Pending(a) => Pending(a)' BY <1>1, <1>3, <1>7, <2>1, <2>3, DueKept
    <2>4. QED BY <1>6, <2>2, <2>3
  <1>9. \A c \in seated : handler.client = c => untold'[c] = Aspects BY <1>2, <1>3 DEF Agreeing
  <1>10. QED BY <1>1, <1>8, <1>9 DEF Agreeing

\* A call that is heard tells every seated client the aspect b of the row.
LEMMA AgreeHeard ==
  ASSUME TypeOK, Agreeing, NEW b \in Aspects, NEW frames \in Seq(Frame), Send(seated, frames),
         Told(seated, {b}), Tells(frames, b, Holds(row, b)), \A a \in Aspects \ {b} : Mute(frames, a),
         handler = Idle, UNCHANGED <<row, runtime, handler, seated, session>>,
         \A a \in Aspects \ {b} : Pending(a) => Pending(a)'
  PROVE  Agreeing'
  <1>1. \A a \in Aspects : ~Announcing(a) /\ ~Announcing(a)' BY DEF Announcing, Idle
  <1>2. ASSUME NEW c \in seated, NEW a \in Aspects PROVE Due(c, a)'
    <2>1. c \in Clients /\ Due(c, a) BY DEF TypeOK, Agreeing
    <2>2. untold'[c] = untold[c] \ {b} BY <2>1 DEF Told
    <2>3. CASE a = b
      <3>1. EndsAt(chan'[c], session[c], a, Holds(row, a)) BY <2>1, <2>3, SentTells
      <3>2. QED BY <1>1, <3>1 DEF Due, Settled
    <2>4. CASE a # b
      <3>1. EndsAt(chan[c], session[c], a, Holds(row, a)) => EndsAt(chan'[c], session[c], a, Holds(row, a))
        BY <2>1, <2>4, SentTells
      <3>2. QED BY <1>1, <2>1, <2>2, <2>4, <3>1, DueKept
    <2>5. QED BY <2>3, <2>4
  <1>3. \A c \in seated : handler'.client # c BY NoneAssumption DEF Idle, TypeOK
  <1>4. QED BY <1>2, <1>3 DEF Agreeing

LEMMA AgreeCallHeard ==
  ASSUME TypeOK, TypeOK', Agreeing, CursorCall \/ PlaylistCall
  PROVE  Agreeing'
  <1>1. row \in Row /\ {"cursor_change", "playlist_update"} \subseteq Kinds BY DEF TypeOK, Kinds
  <1>2. CASE CursorCall
    <2> DEFINE frames == <<CursorFrame(row.cursor, version')>>
    <2>1. /\ Send(seated, frames) /\ Told(seated, {"cursor"}) /\ handler = Idle
          /\ UNCHANGED <<row, runtime, handler, seated, session>>
          /\ calls' = [calls EXCEPT !["cursor_change"] = @ - 1]
      BY <1>2 DEF CursorCall, Arrive, Free
    <2>2. row.cursor \in Videos /\ version' \in 0..MaxVersion BY <1>1, <1>2 DEF CursorCall, Row, TypeOK
    <2>3. frames \in Seq(Frame) BY <2>2, FramesTyped
    <2>4. Tells(frames, "cursor", Holds(row, "cursor")) /\ Mute(frames, "list")
      BY FramesTell DEF Holds
    <2>5. Pending("list") => Pending("list")' BY <1>1, <2>1 DEF Pending, TypeOK
    <2> HIDE DEF frames
    <2>6. QED BY <2>1, <2>3, <2>4, <2>5, AgreeHeard DEF Aspects
  <1>3. CASE PlaylistCall
    <2> DEFINE frames == <<PlaylistFrame(row.list)>>
    <2>1. /\ Send(seated, frames) /\ Told(seated, {"list"}) /\ handler = Idle
          /\ UNCHANGED <<row, runtime, handler, seated, session>>
          /\ calls' = [calls EXCEPT !["playlist_update"] = @ - 1]
      BY <1>3 DEF PlaylistCall, Arrive, Free
    <2>2. frames \in Seq(Frame) BY <1>1 DEF PlaylistFrame, Frame, Row
    <2>3. Tells(frames, "list", Holds(row, "list")) /\ Mute(frames, "cursor")
      BY FramesTell DEF Holds
    <2>4. Pending("cursor") => Pending("cursor")' BY <1>1, <2>1 DEF Pending, TypeOK
    <2> HIDE DEF frames
    <2>5. QED BY <2>1, <2>2, <2>3, <2>4, AgreeHeard DEF Aspects
  <1>4. QED BY <1>2, <1>3

LEMMA AgreeViewer ==
  ASSUME TypeOK, Agreeing
  PROVE  /\ \A c \in Clients : Deliver(c) \/ Leave(c) => Agreeing'
         /\ Restart => Agreeing'
  <1>1. ASSUME NEW d \in Clients, Deliver(d) PROVE Agreeing'
    <2>1. /\ UNCHANGED <<row, calls, runtime, handler, seated, untold>> /\ chan[d] # <<>>
          /\ chan'[d] = Tail(chan[d]) /\ session'[d] = Folded(session[d], Head(chan[d]))
          /\ \A c \in Clients \ {d} : chan'[c] = chan[c] /\ session'[c] = session[c]
      BY <1>1 DEF Deliver, TypeOK, rowVars, daemonVars
    <2>2. ASSUME NEW c \in seated, NEW a \in Aspects PROVE Due(c, a)'
      <3>1. c \in Clients /\ Due(c, a) /\ chan[c] \in Seq(Frame) /\ session[c] \in Session
        BY DEF TypeOK, Agreeing
      <3>2. EndsAt(chan[c], session[c], a, Holds(row, a)) => EndsAt(chan'[c], session'[c], a, Holds(row, a))
        BY <2>1, <3>1, EndsAtTaken
      <3>3. (Pending(a)' <=> Pending(a)) /\ (Announcing(a)' <=> Announcing(a))
        BY <2>1 DEF Pending, Announcing
      <3>4. QED BY <2>1, <3>1, <3>2, <3>3, DueKept
    <2>3. QED BY <2>1, <2>2 DEF Agreeing
  <1>2. ASSUME NEW d \in Clients, Leave(d) PROVE Agreeing'
    <2>1. /\ UNCHANGED <<row, calls, runtime, handler>> /\ seated' = seated \ {d}
          /\ \A c \in Clients \ {d} : /\ chan'[c] = chan[c] /\ session'[c] = session[c]
                                     /\ untold'[c] = untold[c]
      BY <1>2 DEF Leave, TypeOK, rowVars
    <2>2. ASSUME NEW c \in seated \ {d}, NEW a \in Aspects PROVE Due(c, a)'
      <3>1. c \in Clients /\ Due(c, a) BY DEF TypeOK, Agreeing
      <3>2. (Pending(a)' <=> Pending(a)) /\ (Announcing(a)' <=> Announcing(a))
        BY <2>1 DEF Pending, Announcing
      <3>3. QED BY <2>1, <3>1, <3>2, DueKept
    <2>3. QED BY <2>1, <2>2 DEF Agreeing, TypeOK
  <1>3. ASSUME Restart PROVE Agreeing' BY <1>3 DEF Restart, Agreeing
  <1>4. QED BY <1>1, <1>2, <1>3

-----------------------------------------------------------------------------
(* The answer to a JOIN, and the invariant.                                *)

LEMMA AgreeJoinAnswer ==
  ASSUME TypeOK, HandlerOK, Agreeing, JoinAnswer
  PROVE  Agreeing'
  <1> DEFINE p == PlaylistFrame(cache.list)
             f == CursorFrame(cache.cursor, version)
             r == RoomStateFrame(session[handler.client].last, TRUE)
             told == If(r.whole /\ cache.cursor = row.cursor, "cursor") \cup
                     If(cache.list # {} /\ cache.list = row.list, "list")
  <1>1. PICK d \in Clients : d = handler.client /\ d \in seated
    BY DEF JoinAnswer, HandlerOK, Joining, TypeOK
  <1>2. /\ UNCHANGED <<row, calls, runtime, seated, session>> /\ handler' = Idle
        /\ Send({d}, AnswerFrames) /\ Told({d}, told)
    BY <1>1 DEF JoinAnswer, AnswerFrames, RoomStateFrame, rowVars
  <1>3. \A a \in Aspects : ~Announcing(a) /\ ~Announcing(a)'
    BY <1>2 DEF JoinAnswer, Announcing, Idle
  <1>4. /\ AnswerFrames \in {<<r>>, <<r, p>>, <<r, f>>, <<r, p, f>>}
        /\ cache.list # {} => AnswerFrames \in {<<r, p>>, <<r, p, f>>}
    BY AnswerIs
  <1>5. /\ r.type = "ROOM_STATE" /\ r.cursor = cache.cursor
        /\ p.type = "PLAYLIST_UPDATE" /\ p.list = cache.list
        /\ f.type = "CURSOR_CHANGE" /\ f.cursor = cache.cursor
    BY DEF RoomStateFrame, PlaylistFrame, CursorFrame
  <1> HIDE DEF r, p, f
  <1>6. /\ r.whole => Tells(AnswerFrames, "cursor", cache.cursor)
        /\ cache.list # {} => Tells(AnswerFrames, "list", cache.list)
    BY <1>4, <1>5, WelcomeTells
  <1>7. \A a \in Aspects : a \in told => Tells(AnswerFrames, a, Holds(row, a))
    BY <1>6 DEF If, Holds, Aspects
  <1> HIDE DEF told
  <1>8. ASSUME NEW c \in seated, NEW a \in Aspects PROVE Due(c, a)'
    <2>1. c \in Clients /\ Due(c, a) BY DEF TypeOK, Agreeing
    <2>2. CASE c = d /\ a \in told
      <3>1. EndsAt(chan'[c], session[c], a, Holds(row, a))
        BY <1>2, <1>7, <2>1, <2>2, AnswerTyped, SentTells
      <3>2. QED BY <1>2, <1>3, <3>1 DEF Due, Settled
    <2>3. CASE c = d /\ a \notin told
      <3>1. a \in untold[c] BY <1>1, <2>3 DEF Agreeing
      <3>2. a \in untold'[c] BY <1>2, <2>1, <2>3, <3>1 DEF Told
      <3>3. QED BY <3>2 DEF Due
    <2>4. CASE c # d
      <3>1. chan'[c] = chan[c] /\ untold'[c] = untold[c] BY <1>2, <2>1, <2>4 DEF Send, Told
      <3>2. Pending(a)' <=> Pending(a) BY <1>2 DEF Pending
      <3>3. QED BY <1>2, <1>3, <2>1, <3>1, <3>2, DueKept
    <2>5. QED BY <2>2, <2>3, <2>4
  <1>9. QED BY <1>2, <1>8, NoneAssumption DEF Agreeing, TypeOK, Idle

-----------------------------------------------------------------------------
(* A BUFFER_END is answered from the daemon's copy, so a viewer that holds *)
(* the row's cursor would be set back by it if the copy could be behind    *)
(* with nobody owed the row.                                               *)

Copied ==
  \A c \in seated : \/ cache.cursor = row.cursor
                    \/ "cursor" \in untold[c]
                    \/ Pending("cursor")
                    \/ handler.step = "cursor"

LEMMA CopiedKept ==
  ASSUME Copied, seated' \subseteq seated, cache' = cache, row'.cursor = row.cursor,
         Pending("cursor") => Pending("cursor")',
         handler.step = "cursor" => handler'.step = "cursor",
         \A c \in seated' : "cursor" \in untold[c] =>
           "cursor" \in untold'[c] \/ cache.cursor = row.cursor
  PROVE  Copied'
  BY DEF Copied

LEMMA CopiedOwner ==
  ASSUME TypeOK, Copied,
         \/ \E v \in Videos : OwnerSetCursor(v) \/ OwnerAdd(v) \/ OwnerUpdate(v) \/ OwnerRemove(v)
         \/ OwnerClear
         \/ \E mode \in Modes : OwnerMode(mode)
  PROVE  Copied'
  <1>1. UNCHANGED <<cache, handler, seated>>
    BY DEF OwnerSetCursor, OwnerAdd, OwnerUpdate, OwnerRemove, OwnerClear, OwnerMode, Unmoved
  <1>2. ASSUME NEW kind \in Kinds, Call(kind)
        PROVE  calls'[kind] > 0 /\ (calls["cursor_change"] > 0 => calls'["cursor_change"] > 0)
    <2>1. \A k \in Kinds : calls[k] \in Nat BY BoundsAssumption DEF TypeOK
    <2>2. calls'[kind] = calls[kind] + 1 /\ \A k \in Kinds \ {kind} : calls'[k] = calls[k]
      BY <1>2 DEF Call, TypeOK
    <2>3. "cursor_change" \in Kinds BY DEF Kinds
    <2>4. QED BY <2>1, <2>2, <2>3
  <1>3. {"cursor_change", "playlist_update", "room_state"} = Kinds /\ row \in Row BY DEF Kinds, TypeOK
  <1>4. ASSUME NEW kind \in Kinds, Call(kind), row'.cursor = row.cursor, UNCHANGED untold PROVE Copied'
    <2>1. Pending("cursor") => Pending("cursor")' BY <1>2, <1>4 DEF Pending
    <2>2. QED BY <1>1, <1>4, <2>1, CopiedKept
  <1>5. ASSUME NEW v \in Videos, OwnerSetCursor(v) PROVE Copied'
    <2>1. row'.cursor = v /\ Call("cursor_change")
      BY <1>3, <1>5 DEF OwnerSetCursor, Commit, Row
    <2>2. Pending("cursor")' BY <1>2, <1>3, <2>1, NoneAssumption DEF Pending
    <2>3. QED BY <2>2 DEF Copied
  <1>6. ASSUME NEW v \in Videos, OwnerAdd(v) \/ OwnerUpdate(v) \/ OwnerRemove(v) PROVE Copied'
    <2>1. row'.cursor = row.cursor
      BY <1>3, <1>6 DEF OwnerAdd, OwnerUpdate, OwnerRemove, Commit, MergeOutcomes, Row
    <2>2. Call("playlist_update") /\ UNCHANGED untold BY <1>6 DEF OwnerAdd, OwnerUpdate, OwnerRemove
    <2>3. QED BY <1>3, <1>4, <2>1, <2>2
  <1>7. CASE OwnerClear
    <2>1. /\ row'.cursor = None /\ Untell(If(row.cursor # None, "cursor"))
      BY <1>3, <1>7 DEF OwnerClear, Commit, Row
    <2>2. \A c \in seated : untold'[c] = untold[c] \cup If(row.cursor # None, "cursor")
      BY <2>1 DEF Untell, TypeOK
    <2>3. CASE row.cursor # None
      <3>1. \A c \in seated : "cursor" \in untold'[c] BY <2>2, <2>3 DEF If
      <3>2. QED BY <1>1, <3>1 DEF Copied
    <2>4. CASE row.cursor = None
      <3>1. ~Pending("cursor") BY <2>4 DEF Pending
      <3>2. QED BY <1>1, <2>1, <2>2, <2>4, <3>1, CopiedKept
    <2>5. QED BY <2>3, <2>4
  <1>8. ASSUME NEW mode \in Modes, OwnerMode(mode) PROVE Copied'
    <2>1. row'.cursor = row.cursor /\ Call("room_state") /\ UNCHANGED untold
      BY <1>3, <1>8 DEF OwnerMode, Commit, Row
    <2>2. QED BY <1>3, <1>4, <2>1
  <1>9. QED BY <1>5, <1>6, <1>7, <1>8

LEMMA CopiedStep ==
  ASSUME TypeOK, Agreeing, Copied, Next
  PROVE  Copied'
  <1>1. ASSUME UNCHANGED <<row, calls, cache, handler, seated, untold>> PROVE Copied'
    BY <1>1 DEF Copied, Pending
  <1>2. ASSUME cache' = row, row' = row PROVE Copied' BY <1>2 DEF Copied
  <1>3. Idle.step = "idle" /\ handler \in Handler /\ row \in Row BY DEF Idle, TypeOK
  <1>4. CASE \/ \E c \in Clients, event \in {"play", "pause", "seek"} : EventFrame(c, event)
             \/ \E event \in {"play", "pause", "seek"} : OwnerPlayback(event)
             \/ OwnerReset
             \/ \E c \in Clients : Deliver(c)
    BY <1>1, <1>4 DEF EventFrame, OwnerPlayback, OwnerReset, Deliver, rowVars, daemonVars
  <1>5. CASE \/ \E c \in Clients, showing \in Videos \cup {None} : JoinRead(c, showing)
             \/ JoinReread \/ AnnounceCursor \/ AnnouncePlaylist \/ CursorCall \/ PlaylistCall
    BY <1>2, <1>5 DEF JoinRead, JoinReread, AnnounceCursor, AnnouncePlaylist, CursorCall,
                      PlaylistCall, rowVars
  <1>6. ASSUME NEW v \in Videos, RequestCursor(v) PROVE Copied'
    BY <1>6 DEF RequestCursor, Copied, Idle
  <1>7. ASSUME NEW videos \in SUBSET Videos, SendPlaylist(videos) PROVE Copied'
    <2>1. /\ row'.cursor = row.cursor /\ handler = Idle
          /\ UNCHANGED <<calls, cache, seated, untold>>
      BY <1>3, <1>7 DEF SendPlaylist, Commit, MergeOutcomes, Free, Row
    <2>2. Pending("cursor") => Pending("cursor")' BY <2>1 DEF Pending
    <2>3. QED BY <1>3, <2>1, <2>2, CopiedKept
  <1>8. CASE (\E videos \in SUBSET Videos \ {{}} : JoinMerge(videos)) \/ JoinSeed \/ JoinMove
    <2>1. Silently /\ UNCHANGED <<calls, cache, seated>> /\ handler.step # "cursor"
      BY <1>8 DEF JoinMerge, JoinSeed, JoinMove, SeedDue
    <2> DEFINE changed == If(row'.cursor # row.cursor, "cursor") \cup If(row'.list # row.list, "list")
    <2>2. \A c \in seated : untold'[c] = untold[c] \cup changed
      BY <2>1 DEF Silently, Untell, TypeOK
    <2>3. CASE row'.cursor # row.cursor
      <3>1. "cursor" \in changed BY <2>3 DEF If
      <3> HIDE DEF changed
      <3>2. QED BY <2>1, <2>2, <3>1 DEF Copied
    <2>4. CASE row'.cursor = row.cursor
      <3> HIDE DEF changed
      <3>1. Pending("cursor") => Pending("cursor")' BY <2>1, <2>4 DEF Pending
      <3>2. QED BY <2>1, <2>2, <2>4, <3>1, CopiedKept
    <2>5. QED BY <2>3, <2>4
  <1>9. CASE JoinMoveRefused \/ JoinAnswer
    <2>1. UNCHANGED <<row, calls, cache, seated>> /\ handler.step # "cursor"
      BY <1>9 DEF JoinMoveRefused, JoinAnswer, rowVars
    <2>2. \A c \in seated : "cursor" \in untold[c] => "cursor" \in untold'[c] \/ cache.cursor = row.cursor
      <3>1. CASE JoinMoveRefused BY <3>1 DEF JoinMoveRefused
      <3>2. CASE JoinAnswer BY <3>2 DEF JoinAnswer, Told, If, TypeOK
      <3>3. QED BY <1>9, <3>1, <3>2
    <2>3. Pending("cursor") => Pending("cursor")' BY <2>1 DEF Pending
    <2>4. QED BY <2>1, <2>2, <2>3, CopiedKept
  <1>10. ASSUME NEW c \in Clients, BufferEnd(c) PROVE Copied'
    <2>1. UNCHANGED <<row, calls, cache, seated, handler>> BY <1>10 DEF BufferEnd, rowVars, daemonVars
    <2>2. \A d \in seated : "cursor" \in untold[d] => "cursor" \in untold'[d] \/ cache.cursor = row.cursor
      BY <1>10 DEF BufferEnd, Told, If, TypeOK
    <2>3. Pending("cursor") => Pending("cursor")' BY <2>1 DEF Pending
    <2>4. QED BY <2>1, <2>2, <2>3, CopiedKept
  <1>11. ASSUME NEW kind \in Kinds, CallUnheard(kind) PROVE Copied'
    <2>1. CASE runtime BY <1>2, <1>11, <2>1 DEF CallUnheard
    <2>2. CASE ~runtime
      <3>1. seated' = {} BY <1>11, <2>2 DEF CallUnheard, Agreeing
      <3>2. QED BY <3>1 DEF Copied
    <2>3. QED BY <2>1, <2>2
  <1>12. ASSUME NEW kind \in Kinds, CallLost(kind) PROVE Copied'
    <2>1. /\ UNCHANGED <<row, cache, handler, seated>> /\ calls' = [calls EXCEPT ![kind] = @ - 1]
          /\ Untell(If(kind = "cursor_change", "cursor") \cup If(kind = "playlist_update", "list"))
      BY <1>12 DEF CallLost, daemonVars
    <2>2. CASE kind = "cursor_change"
      <3>1. \A c \in seated : "cursor" \in untold'[c] BY <2>1, <2>2 DEF Untell, If, TypeOK
      <3>2. QED BY <2>1, <3>1 DEF Copied
    <2>3. CASE kind # "cursor_change"
      <3>1. Pending("cursor") => Pending("cursor")' BY <2>1, <2>3 DEF Pending, TypeOK, Kinds
      <3>2. \A c \in seated : "cursor" \in untold[c] => "cursor" \in untold'[c]
        BY <2>1 DEF Untell, TypeOK
      <3>3. QED BY <2>1, <3>1, <3>2, CopiedKept
    <2>4. QED BY <2>2, <2>3
  <1>13. ASSUME NEW d \in Clients, Leave(d) PROVE Copied'
    <2>1. UNCHANGED <<row, calls, cache, handler>> /\ seated' = seated \ {d}
      BY <1>13 DEF Leave, rowVars
    <2>2. \A c \in seated' : untold'[c] = untold[c] BY <1>13 DEF Leave, TypeOK
    <2>3. Pending("cursor") => Pending("cursor")' BY <2>1 DEF Pending
    <2>4. QED BY <2>1, <2>2, <2>3, CopiedKept
  <1>14. CASE Restart BY <1>14 DEF Restart, Copied
  <1>15. QED
    BY <1>4, <1>5, <1>6, <1>7, <1>8, <1>9, <1>10, <1>11, <1>12, <1>13, <1>14, CopiedOwner
    DEF Next, Handle

LEMMA AgreeBufferEnd ==
  ASSUME TypeOK, Agreeing, Copied, NEW d \in Clients, BufferEnd(d)
  PROVE  Agreeing'
  <1> DEFINE r == RoomStateFrame(0, FALSE)
             told == If(cache.cursor = row.cursor, "cursor")
  <1>1. /\ UNCHANGED <<row, calls, runtime, handler, seated, session>> /\ handler = Idle
        /\ Send({d}, <<r>>) /\ Told({d}, told)
    BY DEF BufferEnd, Free, rowVars, daemonVars
  <1>2. /\ <<r>> \in Seq(Frame) /\ Tells(<<r>>, "cursor", cache.cursor) /\ Mute(<<r>>, "list")
    <2>1. r.type = "ROOM_STATE" /\ r.whole /\ r.cursor = cache.cursor BY ResyncTyped
    <2>2. QED BY <2>1, ResyncTyped, FramesTell
  <1>3. "list" \notin told /\ ("cursor" \in told <=> cache.cursor = row.cursor) BY DEF If
  <1> HIDE DEF r, told
  <1>4. \A a \in Aspects : ~Announcing(a) /\ ~Announcing(a)' BY <1>1 DEF Announcing, Idle
  <1>5. ASSUME NEW c \in seated, NEW a \in Aspects PROVE Due(c, a)'
    <2>1. c \in Clients /\ Due(c, a) BY DEF TypeOK, Agreeing
    <2>2. Pending(a)' <=> Pending(a) BY <1>1 DEF Pending
    <2>3. CASE c # d
      <3>1. chan'[c] = chan[c] /\ untold'[c] = untold[c] BY <1>1, <2>1, <2>3 DEF Send, Told
      <3>2. QED BY <1>1, <1>4, <2>1, <2>2, <3>1, DueKept
    <2>4. CASE c = d /\ a = "cursor" /\ cache.cursor = row.cursor
      <3>1. Tells(<<r>>, a, Holds(row, a)) BY <1>2, <2>4 DEF Holds
      <3>2. EndsAt(chan'[c], session[c], a, Holds(row, a)) BY <1>1, <1>2, <2>1, <2>4, <3>1, SentTells
      <3>3. QED BY <1>1, <1>4, <3>2 DEF Due, Settled
    <2>5. CASE c = d /\ a = "cursor" /\ cache.cursor # row.cursor
      <3>1. a \in untold[c] \/ Pending(a) BY <1>1, <2>5 DEF Copied, Idle
      <3>2. untold'[c] = untold[c] \ told BY <1>1, <2>1, <2>5 DEF Told
      <3>3. QED BY <1>3, <2>2, <2>5, <3>1, <3>2 DEF Due
    <2>6. CASE c = d /\ a = "list"
      <3>1. EndsAt(chan[c], session[c], a, Holds(row, a)) => EndsAt(chan'[c], session[c], a, Holds(row, a))
        BY <1>1, <1>2, <2>1, <2>6, SentTells
      <3>2. a \in untold[c] => a \in untold'[c] BY <1>1, <1>3, <2>1, <2>6 DEF Told
      <3>3. QED BY <1>1, <1>4, <2>1, <2>2, <3>1, <3>2, DueKept
    <2>7. QED BY <2>3, <2>4, <2>5, <2>6 DEF Aspects
  <1>6. QED BY <1>1, <1>5, NoneAssumption DEF Agreeing, TypeOK, Idle

AgreeInv == TypeOK /\ HandlerOK /\ Agreeing /\ Copied

LEMMA AgreeStep ==
  ASSUME AgreeInv, Next
  PROVE  AgreeInv'
  <1>1. TypeOK /\ HandlerOK /\ Agreeing /\ Copied BY DEF AgreeInv
  <1>2. TypeOK' /\ HandlerOK' /\ Copied' BY <1>1, TypeStep, HandlerStep, CopiedStep
  <1>3. Agreeing'
    BY <1>1, <1>2, AgreePlayback, AgreeRequest, AgreeAnnounceCursor, AgreeAnnouncePlaylist,
       AgreeJoinRead, AgreeJoinSteps, AgreeJoinAnswer, AgreeOwner, AgreeCallUnheard, AgreeCallLost,
       AgreeCallHeard, AgreeBufferEnd, AgreeViewer
    DEF Next, Handle
  <1>4. QED BY <1>2, <1>3 DEF AgreeInv

\* When all is quiet a viewer that has taken everything holds the row's cursor
\* and playlist, but for what the code announces to nobody: the transactions of
\* the owner and of the viewers meet in any order, and the frames that announce
\* them may come in an order of their own.
THEOREM ViewersHoldTheRow == Spec => []RoomAgrees
  <1>1. Init => AgreeInv
    BY InitTyped DEF Init, AgreeInv, HandlerOK, Agreeing, Copied, Idle, Joining
  <1>2. AgreeInv /\ [Next]_vars => AgreeInv'
    <2>1. ASSUME AgreeInv, UNCHANGED vars PROVE AgreeInv'
      BY <2>1 DEF vars, AgreeInv, TypeOK, HandlerOK, Agreeing, Copied, Due, Pending, Announcing,
                  Settled
    <2>2. QED BY <2>1, AgreeStep
  <1>3. AgreeInv => RoomAgrees
    <2> SUFFICES ASSUME AgreeInv, Quiet, NEW c \in Clients, Drained(c), NEW a \in Aspects,
                        a \notin untold[c]
                 PROVE  Holds(session[c], a) = Holds(row, a)
      BY DEF RoomAgrees, Holds, Aspects
    <2>1. /\ handler = Idle /\ calls["cursor_change"] = 0 /\ calls["playlist_update"] = 0
          /\ c \in seated /\ chan[c] = <<>> /\ Due(c, a)
      BY DEF Quiet, Kinds, Drained, AgreeInv, Agreeing
    <2>2. ~Pending(a) /\ ~Announcing(a) BY <2>1 DEF Pending, Announcing, Idle
    <2>3. EndsAt(<<>>, session[c], a, Holds(row, a)) BY <2>1, <2>2 DEF Due, Settled
    <2>4. Bearing(<<>>, a) = {} BY DEF Bearing
    <2>5. QED BY <2>3, <2>4 DEF EndsAt, Tells
  <1>4. QED BY <1>1, <1>2, <1>3, PTL DEF Spec

-----------------------------------------------------------------------------
(* The row.                                                                *)

LEMMA ModesTyped ==
  TypeOK => row.mode \in {"default", "single", "freeform"}
  BY ModesAssumption DEF TypeOK, Row

LEMMA RowTyped ==
  TypeOK => /\ row = [list |-> row.list, cursor |-> row.cursor, mode |-> row.mode]
            /\ row.list \subseteq Videos /\ row.cursor \in Videos \cup {None}
  BY DEF TypeOK, Row

LEMMA ModeIsOn ==
  /\ "single" \in {row.mode} \ {"default"} <=> row.mode = "single"
  /\ "freeform" \in {row.mode} \ {"default"} <=> row.mode = "freeform"
  OBVIOUS

LEMMA SameCount == \A S : ViewersRow!Cardinality(S) = Cardinality(S)
  BY Zenon DEF Cardinality, ViewersRow!Cardinality, IsFiniteSet, ViewersRow!IsFiniteSet

LEMMA SameStored ==
  ASSUME NEW grown, NEW keep
  PROVE  ViewersRow!Stored(grown, keep) = Stored(grown, keep)
  <1> DEFINE cut == {kept \in SUBSET grown :
                       Cardinality(kept) = FreeformCap /\ (keep \in grown => keep \in kept)}
             over == Cardinality(grown) > FreeformCap
  <1>1. ViewersRow!Stored(grown, keep) =
          IF "freeform" \in {row.mode} \ {"default"} /\ over THEN cut ELSE {grown}
    BY SameCount DEF ViewersRow!Stored
  <1>2. Stored(grown, keep) = IF row.mode = "freeform" /\ over THEN cut ELSE {grown}
    BY DEF Stored
  <1> HIDE DEF cut, over
  <1>3. QED BY <1>1, <1>2, ModeIsOn

\* Two rows are one if they look the same.
LEMMA SameRow ==
  ASSUME TypeOK, TypeOK'
  PROVE  /\ row'.mode = row.mode <=> {row'.mode} \ {"default"} = {row.mode} \ {"default"}
         /\ \A l, v, m : row' = [row EXCEPT !.list = l, !.cursor = v] <=>
              row'.list = l /\ row'.cursor = v /\ row'.mode = row.mode
         /\ \A l : row' = [row EXCEPT !.list = l] <=>
              row'.list = l /\ row'.cursor = row.cursor /\ row'.mode = row.mode
         /\ \A v : row' = [row EXCEPT !.cursor = v] <=>
              row'.list = row.list /\ row'.cursor = v /\ row'.mode = row.mode
  <1>1. row'.mode = row.mode <=> {row'.mode} \ {"default"} = {row.mode} \ {"default"}
    OBVIOUS
  <1>2. row \in Row /\ row' \in Row BY DEF TypeOK
  <1>3. QED BY <1>1, <1>2 DEF Row

\* What RoomSync takes a merge or a cursor request to come to is neither more
\* nor less than what the row allows: RoomSync's MergeOutcomes and
\* MoveOutcomes, which every handler and request draws on.
THEOREM OutcomesAreTheRows ==
  ASSUME TypeOK, TypeOK'
  PROVE  /\ \A videos \in SUBSET Videos :
              row' \in MergeOutcomes(videos) <=> ViewersRow!Merge(videos)
         /\ \A v \in Videos :
              row' \in MoveOutcomes(v) <=>
                ViewersRow!Move(v) \/ (row.mode = "freeform" /\ ViewersRow!Append(v))
  <1>1. ASSUME NEW videos \in SUBSET Videos
        PROVE  row' \in MergeOutcomes(videos) <=> ViewersRow!Merge(videos)
    <2> DEFINE grown == row.list \cup videos
    <2>1. row' \in MergeOutcomes(videos) <=>
            row.mode # "single" /\ \E l \in Stored(grown, row.cursor) : row' = [row EXCEPT !.list = l]
      BY DEF MergeOutcomes
    <2>2. ViewersRow!Merge(videos) <=>
            /\ row.mode # "single" /\ row'.list \in Stored(grown, row.cursor)
            /\ row'.cursor = row.cursor /\ row'.mode = row.mode
      BY SameStored, SameRow, ModeIsOn DEF ViewersRow!Merge
    <2>3. QED BY <2>1, <2>2, SameRow
  <1>2. ASSUME NEW v \in Videos
        PROVE  row' \in MoveOutcomes(v) <=>
                 ViewersRow!Move(v) \/ (row.mode = "freeform" /\ ViewersRow!Append(v))
    <2> DEFINE grown == row.list \cup {v}
    <2>1. ViewersRow!Move(v) <=> v \in row.list /\ row' = [row EXCEPT !.cursor = v]
      BY SameRow DEF ViewersRow!Move
    <2>2. ViewersRow!Append(v) <=>
            /\ row.mode # "single" /\ v \notin row.list
            /\ row'.list \in Stored(grown, v)
            /\ row'.cursor = v /\ row'.mode = row.mode
      BY SameStored, SameRow, ModeIsOn DEF ViewersRow!Append
    <2>3. CASE v \in row.list BY <2>1, <2>2, <2>3 DEF MoveOutcomes
    <2>4. CASE v \notin row.list /\ row.mode # "freeform" BY <2>1, <2>4 DEF MoveOutcomes
    <2>5. CASE v \notin row.list /\ row.mode = "freeform"
      <3>1. row' \in MoveOutcomes(v) <=>
              \E l \in Stored(grown, v) : row' = [row EXCEPT !.list = l, !.cursor = v]
        BY <2>5 DEF MoveOutcomes
      <3>2. row' \in MoveOutcomes(v) <=>
              \E l \in Stored(grown, v) :
                 row'.list = l /\ row'.cursor = v /\ row'.mode = row.mode
        BY <3>1, SameRow
      <3>3. QED BY <2>1, <2>2, <2>5, <3>2
    <2>6. QED BY <2>3, <2>4, <2>5
  <1>3. QED BY <1>1, <1>2

LEMMA RowInit == Init => ViewersRow!Init
  BY ModesAssumption DEF Init, ViewersRow!Init, Row

LEMMA RowUnmoved ==
  ASSUME row' = row
  PROVE  UNCHANGED ViewersRow!vars
  BY DEF ViewersRow!vars

LEMMA RowWritten ==
  ASSUME TypeOK, TypeOK',
         \/ \E videos \in SUBSET Videos : row' \in MergeOutcomes(videos)
         \/ \E v \in Videos : row' \in MoveOutcomes(v)
  PROVE  ViewersRow!Next
  BY OutcomesAreTheRows DEF ViewersRow!Next

\* The owner's own edits.
LEMMA RowEdited ==
  ASSUME TypeOK, TypeOK',
         \/ \E v \in Videos : OwnerSetCursor(v) \/ OwnerAdd(v) \/ OwnerUpdate(v) \/ OwnerRemove(v)
         \/ OwnerClear
         \/ \E mode \in Modes : OwnerMode(mode)
  PROVE  ViewersRow!Next \/ UNCHANGED ViewersRow!vars
  <1>1. ASSUME NEW v \in Videos, OwnerSetCursor(v) PROVE ViewersRow!Next
    <2>1. v \in row.list /\ row' = [row EXCEPT !.cursor = v] BY <1>1 DEF OwnerSetCursor, Commit
    <2>2. row' \in MoveOutcomes(v) BY <2>1 DEF MoveOutcomes
    <2>3. QED BY <2>2, RowWritten
  <1>2. ASSUME NEW v \in Videos, OwnerAdd(v) PROVE ViewersRow!Next
    BY <1>2, RowWritten DEF OwnerAdd, Commit
  <1>3. ASSUME NEW v \in Videos, OwnerUpdate(v) PROVE UNCHANGED ViewersRow!vars
    BY <1>3, RowUnmoved DEF OwnerUpdate, Commit
  <1>4. ASSUME NEW v \in Videos, OwnerRemove(v) PROVE ViewersRow!Next
    <2>1. /\ row.mode # "single" /\ v \in row.list /\ v # row.cursor
          /\ row' = [row EXCEPT !.list = row.list \ {v}]
      BY <1>4 DEF OwnerRemove, Commit
    <2>2. row'.list = row.list \ {v} /\ row'.cursor = row.cursor /\ row'.mode = row.mode
      BY <2>1, SameRow
    <2>3. ViewersRow!Remove(v) BY <2>1, <2>2 DEF ViewersRow!Remove
    <2>4. QED BY <2>3 DEF ViewersRow!Next
  <1>5. CASE OwnerClear
    <2>1. row.mode # "single" /\ row' = [row EXCEPT !.list = {}, !.cursor = None]
      BY <1>5 DEF OwnerClear, Commit
    <2>2. row'.list = {} /\ row'.cursor = None /\ row'.mode = row.mode BY <2>1, SameRow
    <2>3. ViewersRow!Clear BY <2>1, <2>2 DEF ViewersRow!Clear
    <2>4. QED BY <2>3 DEF ViewersRow!Next
  <1>6. ASSUME NEW mode \in Modes, OwnerMode(mode) PROVE ViewersRow!Next
    <2>1. row' = [row EXCEPT !.mode = mode] BY <1>6 DEF OwnerMode, Commit
    <2>2. row'.list = row.list /\ row'.cursor = row.cursor BY <2>1, RowTyped
    <2>3. row'.mode \in {"default", "single", "freeform"}
      BY ModesAssumption DEF TypeOK, Row
    <2>4. ViewersRow!Switch BY <2>2, <2>3 DEF ViewersRow!Switch
    <2>5. QED BY <2>4 DEF ViewersRow!Next
  <1>7. QED BY <1>1, <1>2, <1>3, <1>4, <1>5, <1>6

LEMMA RowStep ==
  ASSUME TypeOK, TypeOK', HandlerOK, Next
  PROVE  ViewersRow!Next \/ UNCHANGED ViewersRow!vars
  <1>1. CASE \/ \E v \in Videos : RequestCursor(v)
             \/ \E videos \in SUBSET Videos : SendPlaylist(videos)
    BY <1>1, RowWritten DEF RequestCursor, SendPlaylist, Commit
  <1>2. CASE \/ \E videos \in SUBSET Videos \ {{}} : JoinMerge(videos)
             \/ JoinSeed \/ JoinMove
    <2>1. JoinSeed \/ JoinMove => handler.showing \in Videos
      BY DEF JoinSeed, JoinMove, SeedDue, HandlerOK, TypeOK, Handler
    <2>2. QED BY <1>2, <2>1, RowWritten DEF JoinMerge, JoinSeed, JoinMove, Commit
  <1>3. CASE \/ \E v \in Videos : OwnerSetCursor(v) \/ OwnerAdd(v) \/ OwnerUpdate(v) \/ OwnerRemove(v)
             \/ OwnerClear
             \/ \E mode \in Modes : OwnerMode(mode)
    BY <1>3, RowEdited
  <1>4. CASE \/ \E c \in Clients, event \in {"play", "pause", "seek"} : EventFrame(c, event)
             \/ \E event \in {"play", "pause", "seek"} : OwnerPlayback(event)
             \/ OwnerReset
             \/ \E c \in Clients, showing \in Videos \cup {None} : JoinRead(c, showing)
             \/ AnnounceCursor \/ AnnouncePlaylist \/ JoinReread \/ JoinMoveRefused \/ JoinAnswer
             \/ \E kind \in Kinds : CallUnheard(kind) \/ CallLost(kind)
             \/ CursorCall \/ PlaylistCall
             \/ \E c \in Clients : BufferEnd(c) \/ Deliver(c) \/ Leave(c)
             \/ Restart
    <2>1. row' = row
      BY <1>4 DEF BufferEnd, EventFrame, OwnerPlayback, OwnerReset, JoinRead, AnnounceCursor,
         AnnouncePlaylist, JoinReread, JoinMoveRefused, JoinAnswer, CallUnheard, CallLost,
         CursorCall, PlaylistCall, Deliver, Leave, Restart, rowVars
    <2>2. QED BY <2>1, RowUnmoved
  <1>5. QED BY <1>1, <1>2, <1>3, <1>4 DEF Next, Handle

\* RoomSync implements RoomRow: however handlers, requests and restarts are
\* interleaved, the row only changes as a transaction of the store may change it.
THEOREM RowKeepsToTheStore == Spec => KeepsRow
  <1>1. TypeOK /\ TypeOK' /\ HandlerOK /\ [Next]_vars => [ViewersRow!Next]_ViewersRow!vars
    <2>1. UNCHANGED vars => UNCHANGED ViewersRow!vars BY RowUnmoved DEF vars
    <2>2. QED BY <2>1, RowStep
  <1>2. QED BY RowInit, HandlersTyped, <1>1, PTL DEF Spec, KeepsRow, ViewersRow!Spec
=============================================================================
