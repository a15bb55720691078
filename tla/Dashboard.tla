----------------------------- MODULE Dashboard -----------------------------
(***************************************************************************)
(* The owner's dashboard in one browser tab, about one of the owner's      *)
(* rooms: the store of rooms that the cards are drawn from, the automatic  *)
(* refresh, the detail dialog with the block it fetches for itself, the    *)
(* commands and edits sent from it, and the stream of the room's events.   *)
(*                                                                         *)
(* Every HTTP call is a request of `reqs', in the order they were sent;    *)
(* the server serves them, and the answers come back, in any order.        *)
(*                                                                         *)
(* What the server knows of the room is two versions: `list', the settings *)
(* and the playlist with its cursor, and `live', what the daemon reports   *)
(* of the player and the viewers (Null when it cannot be reached).  The    *)
(* versions of the first are counted; one of the second is odd when a      *)
(* command of the dialog's makes it, and even when anything else does.     *)
(***************************************************************************)
EXTENDS Naturals, Sequences, FiniteSets, SequencesExt, FiniteSetsExt

CONSTANTS
    Null,
    RingSize,    \* events the daemon keeps of a room
    MaxEvents,   \* events the browser keeps of a stream
    MaxReqs,     \* bound: requests in flight before one more is made
    MaxPage,     \* bound: moves of the page's user and failed calls, if no others
    MaxRoom      \* bound: moves of viewers, other tabs and daemon, if no others

ASSUME DashboardAssumption ==
    /\ Null \notin Nat /\ {RingSize, MaxEvents, MaxReqs, MaxPage, MaxRoom} \subseteq Nat
    /\ 0 < RingSize /\ 0 < MaxEvents /\ 1 < MaxReqs

VARIABLES
    srv,      \* the server's room
    ring,     \* the daemon's event ring of the room
    nextId,   \* the id of the daemon's next event
    cards,    \* the store's rooms: this one, seldom twice
    reqs,     \* the HTTP requests in flight
    auto,     \* useAutoRefresh: enabled, hidden, a frame is scheduled
    dlg,      \* the detail dialog
    stream,   \* useEventSource
    done,     \* the commands of the dialog that the server has carried out
    moves     \* what has been spent of the bounds

vars == <<srv, ring, nextId, cards, reqs, auto, dlg, stream, done, moves>>

Closed == [open |-> FALSE, fresh |-> <<>>, seen |-> 0]
Stopped == [st |-> "closed", since |-> 0, pipe |-> <<>>, buf |-> <<>>,
            same |-> TRUE]

Init ==
    /\ \/ /\ srv = [room |-> "unborn", list |-> 0, live |-> 0]
          /\ cards = <<>>
       \/ /\ srv = [room |-> "here", list |-> 0, live |-> 0]
          /\ cards = <<[list |-> 0, live |-> 0]>>
    /\ ring = <<>> /\ nextId = 1 /\ reqs = <<>>
    /\ \E on, hidden \in BOOLEAN :
          auto = [on |-> on, hidden |-> hidden, raf |-> on /\ ~hidden]
    /\ dlg = Closed /\ stream = Stopped
    /\ done = {} /\ moves = 0

\* The bounds: MaxPage moves of the one kind are worth MaxRoom of the other, and
\* reading, opening, closing and losing the stream cost nothing.
Spend(n) == moves + n <= MaxPage * MaxRoom /\ moves' = moves + n
Tick == Spend(MaxRoom)
Stir == Spend(MaxPage)

\* The versions of the live block that a command, anything else and a move of the
\* cursor make.
Mine == 2 * moves + 1
Theirs == 4 * moves + 2
Steered == 4 * (srv.list + 1)

----------------------------------------------------------------------------
(* Requests.  `lock' is the flag that is up until the call's handler is    *)
(* done, `n' the version a command makes, `was' the snapshot it may roll   *)
(* back to and `at' the card that snapshot is of (0: no longer in the      *)
(* store); `own' says that the component that made it is still mounted.    *)

Call(kind, lock) == [kind |-> kind, lock |-> lock, st |-> "sent", ans |-> Null,
                     n |-> 0, was |-> Null, at |-> 0, own |-> TRUE]

Free == Len(reqs) < MaxReqs
Busy(lock) == lock # "none" /\ \E i \in 1 .. Len(reqs) : reqs[i].lock = lock /\ reqs[i].own

Own(r, alive) == [r EXCEPT !.own = @ /\ alive]
Each(rs, F(_)) == [i \in 1 .. Len(rs) |-> F(rs[i])]

\* The answers that come to a dialog, or to the playlist tab in it, that is gone.
OfDialog == {"live", "list", "command", "kick"}
OfEditor == {"edit", "many"}

Unmount(rs, kinds) == Each(rs, LAMBDA r : Own(r, r.kind \notin kinds))
Detach(rs) == Each(rs, LAMBDA r : [r EXCEPT !.at = 0])

\* The store's rooms are replaced; a card that goes takes its dialog with it.
Replace(rooms, rs) ==
    /\ cards' = rooms
    /\ IF rooms = <<>>
       THEN /\ reqs' = Detach(Unmount(rs, OfDialog \cup OfEditor))
            /\ dlg' = Closed /\ stream' = Stopped
       ELSE /\ reqs' = Detach(rs)
            /\ UNCHANGED <<dlg, stream>>

----------------------------------------------------------------------------
(* The server.                                                             *)

\* The daemon's log: its ring, the id of its next event, and who reads it.
Log == [ring |-> ring, next |-> nextId, stream |-> stream]

\* appendEnvelope: the ring drops its oldest, every open stream gets it.
AppendEnvelope(log, rel) ==
    LET env == [id |-> log.next, rel |-> rel]
        all == Append(log.ring, env)
    IN  [ring |-> IF Len(all) > RingSize THEN Tail(all) ELSE all,
         next |-> log.next + 1,
         stream |-> IF log.stream.st = "open"
                    THEN [log.stream EXCEPT !.pipe = Append(@, env)] ELSE log.stream]

Becomes(log) == ring' = log.ring /\ nextId' = log.next /\ stream' = log.stream

Silent == UNCHANGED <<ring, nextId, stream>>
Publish(rel) == Becomes(AppendEnvelope(Log, rel))
PublishTwo == Becomes(AppendEnvelope(AppendEnvelope(Log, FALSE), FALSE))

\* The parts of the room that change; n is what the live one becomes.
Change(parts, n) ==
    srv' = [srv EXCEPT !.list = IF "list" \in parts THEN @ + 1 ELSE @,
                      !.live = IF "live" \in parts THEN n ELSE @]

\* A reset is a pause and a seek, and two events.  No frame and no event is made
\* of new settings, nor of an edit that the daemon has no runtime for or is not
\* told of.  A move of the cursor resets the player.
Playback(n) == Change({"live"}, n) /\ (Publish(FALSE) \/ PublishTwo)
Kicked(n)   == Change({"live"}, n) /\ Publish(FALSE)
Settings    == Change({"list"}, 0) /\ Silent
Playlist    == Change({"list"}, 0) /\ (Publish(TRUE) \/ Silent)
Cursor      == Change({"list", "live"}, Steered) /\ Publish(TRUE)

Born(room)  == srv' = [srv EXCEPT !.room = room] /\ Silent

\* The buttons of a row move the cursor too.
Apply(r) ==
    /\ srv.room = IF r.kind = "create" THEN "unborn" ELSE "here"
    /\ \/ r.kind = "command" /\ Playback(r.n)
       \/ r.kind = "kick" /\ Kicked(r.n)
       \/ r.kind \in OfEditor /\ r.lock = "mode" /\ Settings
       \/ r.kind \in OfEditor /\ r.lock # "mode" /\ Playlist
       \/ r.kind = "edit" /\ r.lock = "none" /\ Cursor
       \/ r.kind = "create" /\ Born("here")
       \/ r.kind = "delete" /\ Born("gone")
    /\ done' = IF r.kind = "command" THEN done \cup {r.n} ELSE done

Room(live) == IF srv'.room = "here" THEN <<[list |-> srv'.list, live |-> live]>>
              ELSE <<>>
Quiet == UNCHANGED <<srv, done>> /\ Silent

Answer(i, st, ans) == reqs' = [reqs EXCEPT ![i].st = st, ![i].ans = ans]

\* What the dialog fetches for itself: that there is a block, or that there is none.
Block(live) == IF live = Null THEN Null ELSE 0

\* The live block of an answer is missing when the daemon cannot be reached.
ServeRead(i) ==
    /\ reqs[i].st = "sent" /\ reqs[i].kind \in {"rooms", "live", "list"}
    /\ Quiet
    /\ \/ Tick /\ Answer(i, "err", Null)                         \* the call fails
       \/ /\ reqs[i].kind # "rooms" /\ srv.room # "here"
          /\ Answer(i, "err", Null) /\ UNCHANGED moves
       \/ \E live \in {srv.live, Null} :
             /\ IF live = srv.live THEN UNCHANGED moves ELSE Tick
             /\ \/ reqs[i].kind = "rooms" /\ Answer(i, "ok", Room(live))
                \/ /\ reqs[i].kind # "rooms" /\ srv.room = "here"
                   /\ Answer(i, "ok", IF reqs[i].kind = "list" THEN srv.list
                                      ELSE Block(live))
    /\ UNCHANGED <<cards, auto, dlg>>

\* A room that has just been made is told without a live block.
ServeCommand(i) ==
    /\ reqs[i].st = "sent" /\ reqs[i].kind \notin {"rooms", "live", "list"}
    /\ \/ Apply(reqs[i]) /\ UNCHANGED moves
          /\ Answer(i, "ok", IF reqs[i].kind = "create" THEN Room(Null) ELSE Null)
       \/ Quiet /\ UNCHANGED moves /\ Answer(i, "err", Null)     \* refused
       \/ Apply(reqs[i]) /\ Tick /\ Answer(i, "err", Null)       \* the answer is lost
    /\ UNCHANGED <<cards, auto, dlg>>

Serve(i) == ServeRead(i) \/ ServeCommand(i)

\* A viewer or another tab changes the playback, the settings or the playlist.
Others ==
    /\ srv.room = "here" /\ Stir
    /\ Playback(Theirs) \/ Settings \/ Playlist \/ Cursor
    /\ UNCHANGED <<cards, reqs, auto, dlg, done>>

\* A new process knows no events and numbers them from 1; a stream is cut, and what
\* it resumes is no longer the process that it began with.
Restart ==
    /\ srv.room = "here" /\ Stir
    /\ srv' = [srv EXCEPT !.live = Theirs]
    /\ ring' = <<>> /\ nextId' = 1
    /\ stream' = IF stream.st = "closed" THEN stream
                 ELSE [stream EXCEPT !.st = "waiting", !.pipe = <<>>, !.same = FALSE]
    /\ UNCHANGED <<cards, reqs, auto, dlg, done>>

----------------------------------------------------------------------------
(* The automatic refresh.                                                  *)

Send(calls) == reqs' = reqs \o calls
Rooms == Call("rooms", "none")

Toggle ==
    /\ Tick
    /\ auto' = [auto EXCEPT !.on = ~@, !.raf = ~auto.on /\ ~auto.hidden]
    /\ UNCHANGED <<srv, ring, nextId, cards, reqs, dlg, stream, done>>

\* Mutant: the callback runs, the next frame is not asked for.
VisibilityFires(hidden) ==
    /\ auto.hidden # hidden /\ Free /\ Tick
    /\ auto' = [auto EXCEPT !.hidden = hidden, !.raf = FALSE]
    /\ IF ~hidden /\ auto.on THEN Send(<<Rooms>>) ELSE UNCHANGED reqs
    /\ UNCHANGED <<srv, ring, nextId, cards, dlg, stream, done>>

Visibility(hidden) ==
    /\ auto.hidden # hidden /\ Free /\ Tick
    /\ auto' = [auto EXCEPT !.hidden = hidden, !.raf = ~hidden /\ auto.on]
    /\ IF ~hidden /\ auto.on THEN Send(<<Rooms>>) ELSE UNCHANGED reqs
    /\ UNCHANGED <<srv, ring, nextId, cards, dlg, stream, done>>

\* The frames of one interval, up to the one that completes it.
Cycle ==
    /\ auto.raf /\ auto.on /\ ~auto.hidden /\ Free
    /\ Send(<<Rooms>>)
    /\ UNCHANGED <<srv, ring, nextId, cards, auto, dlg, stream, done, moves>>

----------------------------------------------------------------------------
(* The dialog and its stream.                                              *)

Start == [Stopped EXCEPT !.st = "waiting"]

Open ==
    /\ cards # <<>> /\ ~dlg.open /\ Len(reqs) + 1 < MaxReqs
    /\ dlg' = [dlg EXCEPT !.open = TRUE]
    /\ Send(<<Call("live", "none"), Call("list", "none")>>)
    /\ stream' = Start
    /\ UNCHANGED <<srv, ring, nextId, cards, auto, done, moves>>

\* The buffer stays for the eye; the playlist tab goes, the dialog's code stays.
Close ==
    /\ dlg.open
    /\ dlg' = Closed
    /\ stream' = [stream EXCEPT !.st = "closed", !.pipe = <<>>]
    /\ reqs' = Unmount(reqs, OfEditor)
    /\ UNCHANGED <<srv, ring, nextId, cards, auto, done, moves>>

\* The ring is in the order of its ids, so what is newer is a tail of it.
EnvelopesSince(since) ==
    LET known == {k \in 1 .. Len(ring) : ring[k].id <= since}
    IN  SubSeq(ring, Cardinality(known) + 1, Len(ring))

\* Mutant: a stream tells only what happens after it has been opened.
ConnectLate ==
    /\ stream.st = "waiting"
    /\ stream' =
         IF srv.room # "here" THEN [stream EXCEPT !.st = "closed"]
         ELSE [stream EXCEPT !.st = "open"]
    /\ UNCHANGED <<srv, ring, nextId, cards, reqs, auto, dlg, done, moves>>

\* The proxy answers 404 for a room that is gone, and the browser gives up.
Connect ==
    /\ stream.st = "waiting"
    /\ stream' =
         IF srv.room # "here" THEN [stream EXCEPT !.st = "closed"]
         ELSE [stream EXCEPT !.st = "open", !.pipe = EnvelopesSince(stream.since)]
    /\ UNCHANGED <<srv, ring, nextId, cards, reqs, auto, dlg, done, moves>>

Break ==
    /\ stream.st = "open"
    /\ stream' = [stream EXCEPT !.st = "waiting", !.pipe = <<>>]
    /\ UNCHANGED <<srv, ring, nextId, cards, reqs, auto, dlg, done, moves>>

\* appendEvent: a scan of the tail from the newest down to an older id.
Dupe(buf, id) == \E i \in 1 .. Len(buf) :
                    buf[i] = id /\ \A j \in i .. Len(buf) : buf[j] >= id

AppendEvent(buf, id) ==
    LET next == Append(buf, id)
    IN  IF Len(next) > MaxEvents
        THEN SubSeq(next, Len(next) - MaxEvents + 1, Len(next)) ELSE next

\* The record, and the watcher of the events that it wakes.
Deliver ==
    /\ stream.pipe # <<>> /\ Free
    /\ LET env == Head(stream.pipe)
           dup == Dupe(stream.buf, env.id)
           new == ~dup /\ env.id > dlg.seen
       IN  /\ stream' = [stream EXCEPT !.pipe = Tail(@), !.since = env.id,
                           !.buf = IF dup THEN @ ELSE AppendEvent(@, env.id)]
           /\ dlg' = IF new THEN [dlg EXCEPT !.seen = env.id] ELSE dlg
           /\ IF new /\ env.rel THEN Send(<<Call("list", "none")>>)
              ELSE UNCHANGED reqs
    /\ UNCHANGED <<srv, ring, nextId, cards, auto, done, moves>>

----------------------------------------------------------------------------
(* Commands and edits.                                                     *)

\* The block of the dialog: what it fetched itself or else what the card has.
Live == IF dlg.fresh = <<>> THEN cards[1].live ELSE dlg.fresh[1]

PlaybackRow == dlg.open /\ Live # Null /\ ~Busy("play")
ViewerChips == dlg.open /\ Live # Null

\* applyOptimisticPlayback: the card shows the command's effect at once.
Optimistic == IF cards[1].live = Null THEN cards ELSE [cards EXCEPT ![1].live = Mine]

Command ==
    /\ PlaybackRow /\ Free /\ Tick
    /\ Send(<<[Call("command", "play") EXCEPT !.n = Mine, !.was = cards[1].live,
                                              !.at = 1]>>)
    /\ cards' = Optimistic
    /\ UNCHANGED <<srv, ring, nextId, auto, dlg, stream, done>>

\* A second kick waits for the first one and for what is fetched after it.
Kick ==
    /\ ViewerChips /\ Free /\ ~Busy("kick") /\ Tick
    /\ Send(<<[Call("kick", "kick") EXCEPT !.n = Theirs]>>)
    /\ UNCHANGED <<srv, ring, nextId, cards, auto, dlg, stream, done>>

Edit(kind, lock) ==
    /\ dlg.open /\ Free /\ ~Busy(lock) /\ Tick
    /\ Send(<<Call(kind, lock)>>)
    /\ UNCHANGED <<srv, ring, nextId, cards, auto, dlg, stream, done>>

\* Each of these waits for the one of its kind that is in flight.
ChangeMode == Edit("edit", "mode")
SaveLabel == Edit("edit", "label")
ClearAll == Edit("edit", "clear")
Add == Edit("edit", "add")
AddMany == Edit("many", "add")

\* The buttons of a row, for the cursor, the order, the source and removal, do not.
RowButton == Edit("edit", "none")

\* From the card, or from the dialog, which closes first.
Delete ==
    /\ cards # <<>> /\ ~dlg.open /\ Free /\ Tick
    /\ Send(<<Call("delete", "none")>>)
    /\ UNCHANGED <<srv, ring, nextId, cards, auto, dlg, stream, done>>

Create ==
    /\ srv.room = "unborn" /\ Free /\ Tick
    /\ ~\E i \in 1 .. Len(reqs) : reqs[i].kind = "create"
    /\ Send(<<Call("create", "none")>>)
    /\ UNCHANGED <<srv, ring, nextId, cards, auto, dlg, stream, done>>

----------------------------------------------------------------------------
(* The answers.                                                            *)

Rest(i) == RemoveAt(reqs, i)
Ok(i) == reqs[i].st = "ok"
Still == UNCHANGED <<cards, dlg, stream, moves>>

LandRooms(i) ==
    /\ reqs[i].kind = "rooms"
    /\ IF Ok(i) THEN Replace(reqs[i].ans, Rest(i)) /\ UNCHANGED moves
       ELSE reqs' = Rest(i) /\ Still

\* refreshLive of a mounted dialog, be it open or not.
LandLive(i) ==
    /\ reqs[i].kind = "live"
    /\ reqs' = Rest(i)
    /\ dlg' = IF Ok(i) /\ reqs[i].own THEN [dlg EXCEPT !.fresh = <<reqs[i].ans>>] ELSE dlg
    /\ UNCHANGED <<cards, stream, moves>>

\* patchRoomPlaylist
LandList(i) ==
    /\ reqs[i].kind = "list"
    /\ reqs' = Rest(i)
    /\ cards' = IF Ok(i) /\ cards # <<>>
                THEN [cards EXCEPT ![1].list = reqs[i].ans] ELSE cards
    /\ UNCHANGED <<dlg, stream, moves>>

\* After a command or a kick the dialog fetches its block under the same flag.
Again(r) == [Call("live", r.lock) EXCEPT !.own = r.own]

\* Mutant: the snapshot is the live object itself, not a copy.
LandCommandAliased(i) ==
    /\ reqs[i].kind = "command"
    /\ reqs' = Rest(i) \o (IF Ok(i) THEN <<Rooms, Again(reqs[i])>> ELSE <<>>)
    /\ UNCHANGED <<cards, dlg, stream, moves>>

LandCommand(i) ==
    /\ reqs[i].kind = "command"
    /\ reqs' = Rest(i) \o (IF Ok(i) THEN <<Rooms, Again(reqs[i])>> ELSE <<>>)
    /\ cards' = IF Ok(i) \/ reqs[i].at = 0 \/ reqs[i].was = Null THEN cards
                ELSE [cards EXCEPT ![reqs[i].at].live = reqs[i].was]
    /\ UNCHANGED <<dlg, stream, moves>>

LandKick(i) ==
    /\ reqs[i].kind = "kick"
    /\ reqs' = Rest(i) \o (IF Ok(i) THEN <<Again(reqs[i])>> ELSE <<>>)
    /\ Still

\* The entries of a batch are added one at a time, up to the first refusal.
LandEdit(i) ==
    /\ reqs[i].kind \in OfEditor
    /\ \/ /\ reqs' = Rest(i) \o (IF Ok(i) THEN <<Rooms>> ELSE <<>>)
          /\ UNCHANGED moves
       \/ /\ Ok(i) /\ reqs[i].kind = "many" /\ Tick
          /\ reqs' = Rest(i) \o <<Rooms, [Call("many", "add") EXCEPT !.own = reqs[i].own]>>
    /\ UNCHANGED <<cards, dlg, stream>>

LandDelete(i) ==
    /\ reqs[i].kind = "delete"
    /\ IF Ok(i) THEN Replace(<<>>, Rest(i)) /\ UNCHANGED moves
       ELSE reqs' = Rest(i) /\ Still

LandCreate(i) ==
    /\ reqs[i].kind = "create"
    /\ cards' = IF Ok(i) THEN reqs[i].ans \o cards ELSE cards
    /\ reqs' = Each(Rest(i), LAMBDA r :
                 IF Ok(i) /\ r.at > 0 THEN [r EXCEPT !.at = @ + 1] ELSE r)
    /\ UNCHANGED <<dlg, stream, moves>>

Land(i) ==
    /\ reqs[i].st # "sent"
    /\ \/ LandRooms(i) \/ LandLive(i) \/ LandList(i) \/ LandCommand(i)
       \/ LandKick(i) \/ LandEdit(i) \/ LandDelete(i) \/ LandCreate(i)
    /\ UNCHANGED <<srv, ring, nextId, auto, done>>

----------------------------------------------------------------------------
Edits == ChangeMode \/ SaveLabel \/ ClearAll \/ Add \/ AddMany \/ RowButton

Next ==
    \/ \E i \in 1 .. Len(reqs) : Serve(i) \/ Land(i)
    \/ \E hidden \in BOOLEAN : Visibility(hidden)
    \/ Others \/ Restart \/ Toggle \/ Cycle
    \/ Open \/ Close \/ Connect \/ Break \/ Deliver
    \/ Command \/ Kick \/ Edits \/ Delete \/ Create

Spec == Init /\ [][Next]_vars

\* The server answers and the browser runs what is due; a user owes nothing.  The
\* interval's frame is due again however often MaxReqs holds it back.
FairSpec ==
    /\ Spec
    /\ WF_vars(Len(reqs) > 0 /\ Serve(1)) /\ WF_vars(Len(reqs) > 0 /\ Land(1))
    /\ SF_vars(Cycle)

----------------------------------------------------------------------------
\* While the tab is looked at with the automatic refresh on, the cards come to
\* show what the server has, whatever answers were late, lost or out of order:
\* a room deleted here or elsewhere goes, a room twice in the store is one again.
ShownEventually ==
    <>[](auto.on /\ ~auto.hidden) =>
    <>[](cards = IF srv.room = "here"
                 THEN <<[list |-> srv.list, live |-> srv.live]>> ELSE <<>>)

\* The optimistic effect of a command that the daemon refused leaves no trace:
\* once no command is in flight a card shows a state the room really was in.
NeverInvented ==
    (\A i \in 1 .. Len(reqs) : reqs[i].kind # "command") =>
    \A k \in 1 .. Len(cards) :
        LET v == cards[k].live IN v = Null \/ v % 2 = 0 \/ v \in done

\* While the stream is up and nothing is under way, the event log of the dialog
\* ends with the newest events of the daemon's ring, each of them once and in
\* order, through any number of breaks and reconnects within one daemon process.
LogComplete ==
    (stream.st = "open" /\ stream.pipe = <<>> /\ stream.same) =>
    LET kept == [k \in 1 .. Len(ring) |-> ring[k].id]
        n == Min({Len(kept), MaxEvents})
        last(s) == SubSeq(s, Len(s) - n + 1, Len(s))
    IN  Len(stream.buf) >= n /\ last(stream.buf) = last(kept)

\* RoomEventLog's guess when the meta record of a stream comes: it resumes after an
\* event, and the first event that is shown has id 1.
Badge ==
    /\ stream.st = "waiting" /\ stream'.st = "open"
    /\ stream.since > 0 /\ stream.buf[1] = 1

\* The event log shows its `daemon restarted' badge only if the daemon did.
BadgeMeansRestart == [][Badge => ~stream.same]_vars
=============================================================================
