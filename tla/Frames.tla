------------------------------- MODULE Frames -------------------------------
(***************************************************************************)
(* The two halves of a site adapter in one tab: the page runtime in the    *)
(* top frame and a media runtime in every embed frame, each of which       *)
(* evaluates its adapter only while the background says the tab is in a    *)
(* room; and the background, which learns from the frames which of them    *)
(* owns the <video> and sends the room's commands there.                   *)
(*                                                                         *)
(* `evaluate' awaits the adapter's init, and nothing stops a second        *)
(* evaluation from starting meanwhile: an adapter is a number, a later one *)
(* is a higher number, and a frame keeps those still in init, the one that *)
(* is active, and those not yet destroyed.  A player's init has two waits, *)
(* for the <video> and for its cold start; a page's has one, for the embed *)
(* to mount.                                                               *)
(*                                                                         *)
(* What the background sends is delivered at once, what a frame sends      *)
(* when the background gets to it.                                         *)
(***************************************************************************)
EXTENDS Naturals, Sequences, FiniteSets, FiniteSetsExt

CONSTANTS
    Page,      \* the top frame
    Players,   \* embed frames with a <video>
    Phantoms,  \* embed frames that never get one
    None, Failed,
    MaxMoves   \* bound: joins, leaves, moves, commands, reloads

Media == Players \cup Phantoms
Frame == {Page} \cup Media

ASSUME FramesAssumption ==
    /\ Page \notin Media /\ Players \cap Phantoms = {}
    /\ None \notin Frame \cup Nat /\ Failed \notin Nat /\ None # Failed
    /\ MaxMoves \in Nat

Ids == 1 .. MaxMoves + 1     \* no move evaluates a frame twice

VARIABLES
    member,   \* the background has a session for the tab
    owner,    \* tabFrames.mediaFrameId
    known,    \* the registry of tabs.ts has an entry for the tab
    outbox,   \* messages of each frame on their way to the background
    fr,       \* each frame's runtime
    dom,      \* the page's address; what each embed's document holds
    moves

vars == <<member, owner, known, outbox, fr, dom, moves>>

(* A runtime.  `handler' says whether the active adapter's commandHandler  *)
(* is there; `inits' are the adapters in init, `prep' those of them past   *)
(* their first wait; `live' are those that hold the video or listeners and *)
(* are not destroyed, `held' those whose autoplay hold is on; `nudge' is   *)
(* the adapter the restore timer will write through; `polls' says whether  *)
(* the status of one of them is polled, which a failure does not end.      *)
Blank == [up |-> TRUE, room |-> FALSE, state |-> None, handler |-> FALSE,
          inits |-> {}, prep |-> {}, live |-> {}, held |-> {},
          nudge |-> None, nudged |-> FALSE, polls |-> FALSE]

Urls == {"watch", "bare", "other"}       \* with ?ep=, without, elsewhere
Docs == {"empty", "video", "sourced"}    \* the document of an embed

Init ==
    /\ member = TRUE /\ owner = None /\ known = FALSE  \* it has just joined
    /\ outbox = [f \in Frame |-> <<>>]
    /\ fr = [f \in Frame |->
              [Blank EXCEPT !.room = TRUE, !.inits = {1}]]
    /\ dom = [url |-> "watch", last |-> "watch", embed |-> FALSE,
              doc |-> [f \in Media |-> "empty"]]
    /\ moves = 0

Tick == moves < MaxMoves /\ moves' = moves + 1

----------------------------------------------------------------------------
(* The runtimes: what each function leaves of a frame's record.            *)

Active(s) == s.state \notin {None, Failed}

Used(s) == s.inits \cup s.live \cup ({s.state, s.nudge} \ {None, Failed})
Fresh(s) == 1 + Max(Used(s) \cup {0})

Waiting(s) == s.inits \ s.prep

\* evaluate up to `await adapter.init'; miruro's canHandlePage is about the path.
Evaluate(f, s) ==
    IF ~s.room THEN s
    ELSE IF f = Page /\ dom'.url = "other" THEN [s EXCEPT !.state = None]
    ELSE [s EXCEPT !.inits = @ \cup {Fresh(s)}]

Destroy(s, ids) == [s EXCEPT !.live = @ \ ids, !.held = @ \ ids]

\* cancelNudge through an adapter: a destroyed one has no video to restore.
CancelNudge(s, i) ==
    IF s.nudge = None THEN s
    ELSE [s EXCEPT !.nudge = None, !.nudged = @ /\ i \notin s.live]

\* Mutant: teardown forgets the nudge.
TeardownNudged(s) ==
    LET d == IF Active(s) THEN Destroy(s, {s.state}) ELSE s
    IN  [d EXCEPT !.state = None, !.handler = FALSE, !.polls = FALSE]

\* Mutant: a failed runtime stays failed.
TeardownFailed(s) ==
    LET d == IF Active(s)
             THEN Destroy(CancelNudge(s, s.state), {s.state}) ELSE s
    IN  [d EXCEPT !.state = IF @ = Failed THEN @ ELSE None, !.handler = FALSE,
                  !.polls = FALSE]

Teardown(s) ==
    LET d == IF Active(s)
             THEN Destroy(CancelNudge(s, s.state), {s.state}) ELSE s
    IN  [d EXCEPT !.state = None, !.handler = FALSE, !.polls = FALSE]

SetRoomActive(f, s, active) ==
    IF active = s.room THEN s
    ELSE IF active THEN Evaluate(f, [s EXCEPT !.room = TRUE])
    ELSE Teardown([s EXCEPT !.room = FALSE])

Over(s, ids) == [s EXCEPT !.inits = @ \ ids, !.prep = @ \ ids]

\* Mutant: the room is not looked at again after the await.
ActivateLate(s, ids) ==
    LET r == Over(s, ids) IN
    IF r.state = Failed THEN r
    ELSE [r EXCEPT !.state = Max(ids), !.handler = Cardinality(ids) = 1,
                   !.polls = TRUE]

(* evaluate past its await, for adapters whose inits end together: all the *)
(* inits run to their end, then all the evaluations.  There is a single    *)
(* pendingHandler: the first evaluation takes the last init's, the others  *)
(* find null.                                                              *)
Activate(s, ids) ==
    LET r == Over(s, ids) IN
    IF ~r.room THEN [Destroy(r, ids) EXCEPT !.state = None]
    ELSE IF r.state = Failed THEN r
    ELSE [r EXCEPT !.state = Max(ids), !.handler = Cardinality(ids) = 1,
                   !.polls = TRUE]

\* failInit, then evaluate past its await.
FailInit(s, ids) ==
    LET r == Over(s, ids)
    IN  [r EXCEPT !.state = IF r.room THEN Failed ELSE None]

Send(f, msgs) == outbox' = [outbox EXCEPT ![f] = @ \o msgs]
Times(ids, m) == [k \in 1 .. Cardinality(ids) |-> m]
Hello(s, ids) == IF s.room /\ s.state # Failed THEN Times(ids, "hello") ELSE <<>>

\* A wait that need not wait ends before anything else happens in its frame.
Mounted(f) == IF f = Page THEN dom.embed ELSE dom.doc[f] # "empty"
Due(f) == fr[f].up /\ Mounted(f) /\ Waiting(fr[f]) # {}

----------------------------------------------------------------------------
(* Media frames.                                                           *)

\* One mutation (or none) ends every wait for the <video>: claim and hold it.
ResolveVideo(f) ==
    /\ f \in Media /\ Due(f)
    /\ LET ids == Waiting(fr[f])
           s == [fr[f] EXCEPT !.live = @ \cup ids,
                              !.held = @ \cup ids]
       IN  IF dom.doc[f] = "sourced"
           THEN /\ fr' = [fr EXCEPT ![f] = Activate(s, ids)]
                /\ Send(f, Times(ids, "owner") \o Hello(s, ids))
           ELSE /\ fr' = [fr EXCEPT ![f] = [s EXCEPT !.prep = @ \cup ids]]
                /\ Send(f, Times(ids, "owner"))
    /\ UNCHANGED <<member, owner, known, dom, moves>>

\* The wait for the <video> times out.
NoVideo(f, i) ==
    /\ f \in Media /\ dom.doc[f] = "empty" /\ i \in Waiting(fr[f])
    /\ fr' = [fr EXCEPT ![f] = FailInit(@, {i})]
    /\ Send(f, <<"fail">>)
    /\ UNCHANGED <<member, owner, known, dom, moves>>

\* ensurePlayable ends: the overlay was pressed, or is left to the viewer.
EnsurePlayable(f, i) ==
    /\ f \in Media /\ ~Due(f) /\ i \in fr[f].prep
    /\ fr' = [fr EXCEPT ![f] = Activate(@, {i})]
    /\ Send(f, Hello(fr[f], {i}))
    /\ UNCHANGED <<member, owner, known, dom, moves>>

VideoAppears(f) ==
    /\ f \in Players /\ fr[f].up /\ dom.doc[f] = "empty"
    /\ \E d \in {"video", "sourced"} : dom' = [dom EXCEPT !.doc[f] = d]
    /\ UNCHANGED <<member, owner, known, outbox, fr, moves>>

\* loadstart: the source arrives, or the embed swaps it in place.
LoadStart(f) ==
    /\ Tick /\ f \in Players /\ dom.doc[f] # "empty" /\ ~Due(f)
    /\ dom' = [dom EXCEPT !.doc[f] = "sourced"]
    /\ fr' = [fr EXCEPT ![f] = IF Active(@) THEN Evaluate(f, Teardown(@))
                               ELSE @]
    /\ UNCHANGED <<member, owner, known, outbox>>

\* The restore timer of applyNudgeRate.
NudgeEnds(f) ==
    /\ fr[f].nudge # None
    /\ fr' = [fr EXCEPT ![f] = CancelNudge(@, @.nudge)]
    /\ UNCHANGED <<member, owner, known, outbox, dom, moves>>

\* startStatusPolling's interval, longer than a message takes to arrive.
Poll(f) ==
    /\ fr[f].polls /\ outbox[f] = <<>>
    /\ Send(f, <<"status">>)
    /\ UNCHANGED <<member, owner, known, fr, dom, moves>>

FrameGone(f) ==
    /\ Tick /\ f \in Media /\ fr[f].up
    /\ fr' = [fr EXCEPT ![f] = [Blank EXCEPT !.up = FALSE]]
    /\ dom' = [dom EXCEPT !.doc[f] = "empty"]
    /\ UNCHANGED <<member, owner, known, outbox>>

FrameLoads(f) ==
    /\ ~fr[f].up
    /\ fr' = [fr EXCEPT ![f].up = TRUE]
    /\ Send(f, <<"ready">>)
    /\ UNCHANGED <<member, owner, known, dom, moves>>

----------------------------------------------------------------------------
(* The page frame.                                                         *)

\* resolveReady ends, by the embed or by its timeout; identity is read now.
PageReads(ids) ==
    IF dom.url = "watch"
    THEN /\ LET s == [fr[Page] EXCEPT !.live = @ \cup ids]
            IN  fr' = [fr EXCEPT ![Page] =
                        [Activate(s, ids) EXCEPT !.polls = FALSE]]
         /\ Send(Page, Times(ids, "identity"))
    ELSE /\ fr' = [fr EXCEPT ![Page] = FailInit(@, ids)]
         /\ Send(Page, Times(ids, "fail"))

PageReady ==
    /\ Due(Page) /\ PageReads(Waiting(fr[Page]))
    /\ UNCHANGED <<member, owner, known, dom, moves>>

PageTimeout(i) ==
    /\ ~dom.embed /\ i \in fr[Page].inits /\ PageReads({i})
    /\ UNCHANGED <<member, owner, known, dom, moves>>

EmbedMounts ==
    /\ ~dom.embed
    /\ dom' = [dom EXCEPT !.embed = TRUE]
    /\ UNCHANGED <<member, owner, known, outbox, fr, moves>>

\* handleLocationChange, de-duplicated by lastHref.
HandleLocationChange(s, u) ==
    IF u = dom.last THEN s ELSE Evaluate(Page, Teardown(s))

\* tabs.onUpdated has the page of a room tab evaluate again; outside a room
\* the page's own listeners see some moves and miss pushState.
PageMoves(u) ==
    /\ Tick /\ ~Due(Page) /\ dom.url # u
    /\ \E seen \in IF member THEN {u} ELSE {u, dom.last} :
          dom' = [dom EXCEPT !.url = u, !.last = seen]
    /\ fr' = [fr EXCEPT ![Page] = HandleLocationChange(@, dom'.last)]
    /\ UNCHANGED <<member, owner, known, outbox>>

----------------------------------------------------------------------------
(* deliverCommand in the media runtime (the page's has nothing to do with  *)
(* these): play lifts the active adapter's hold, nudge_rate may arm the    *)
(* timer or find the video on time.                                        *)
DeliverCommand(s, m) ==
    LET c == CancelNudge(s, s.state) IN
    IF ~Active(s) THEN s
    ELSE IF m = "nudge" THEN [c EXCEPT !.nudge = s.state, !.nudged = TRUE]
    ELSE IF m = "play" /\ s.handler THEN [c EXCEPT !.held = @ \ {s.state}]
    ELSE c

\* dispatchCommand, with `to' the owner: to it if there is one, else to every
\* frame; not at all to a tab that has reported neither status nor identity.
\* A send that rejects makes the background forget the owner.
Dispatch(to, m) ==
    IF known
    THEN /\ fr' = [f \in Frame |-> IF f \in Media /\ to \in {f, None}
                                   THEN DeliverCommand(fr[f], m) ELSE fr[f]]
         /\ owner' = IF to # None /\ ~fr[to].up THEN None ELSE to
    ELSE owner' = to /\ UNCHANGED fr

\* pushRoomActive: to every frame that listens.
PushRoomActive(active) ==
    fr' = [f \in Frame |-> IF fr[f].up THEN SetRoomActive(f, fr[f], active)
                           ELSE fr[f]]

----------------------------------------------------------------------------
(* The background.                                                         *)

Calm == \A f \in Frame : ~Due(f)

Join ==
    /\ Tick /\ Calm /\ ~member
    /\ member' = TRUE /\ UNCHANGED <<owner, known, outbox, dom>>
    /\ PushRoomActive(TRUE)

TearDownTab ==
    /\ member' = FALSE /\ owner' = None
    /\ PushRoomActive(FALSE)

Leave ==
    /\ Tick /\ Calm /\ member
    /\ UNCHANGED <<known, outbox, dom>> /\ TearDownTab

Command(m) ==
    /\ Tick /\ Calm /\ member
    /\ Dispatch(owner, m)
    /\ UNCHANGED <<member, known, outbox, dom>>

\* The runtime.onMessage listener; a joined tab's room is playing.
Handle(f, m) ==
    LET phantom == f # Page /\ owner \notin {None, f}
    IN  \/ /\ m = "ready" /\ PushRoomActive(member)
           /\ UNCHANGED <<member, owner, known>>
        \/ /\ m = "owner" /\ owner' = f
           /\ UNCHANGED <<member, known, fr>>
        \/ /\ m = "status" /\ owner' = f /\ known' = TRUE
           /\ UNCHANGED <<member, fr>>
        \/ /\ m = "identity" /\ known' = TRUE
           /\ UNCHANGED <<member, owner, fr>>
        \/ /\ m = "hello"
           /\ IF member THEN Dispatch(f, "play") ELSE owner' = f /\ UNCHANGED fr
           /\ UNCHANGED <<member, known>>
        \/ /\ m = "fail" /\ phantom
           /\ UNCHANGED <<member, owner, known, fr>>
        \/ /\ m = "fail" /\ ~phantom /\ known' = FALSE /\ TearDownTab

Receive(f) ==
    /\ outbox[f] # <<>> /\ Calm
    /\ outbox' = [outbox EXCEPT ![f] = Tail(@)]
    /\ Handle(f, Head(outbox[f]))
    /\ UNCHANGED <<dom, moves>>

----------------------------------------------------------------------------
Next ==
    \/ \E f \in Media :
          \/ ResolveVideo(f) \/ VideoAppears(f) \/ LoadStart(f) \/ NudgeEnds(f)
          \/ Poll(f) \/ FrameGone(f) \/ FrameLoads(f)
          \/ \E i \in Ids : NoVideo(f, i) \/ EnsurePlayable(f, i)
    \/ PageReady \/ EmbedMounts
    \/ \E i \in Ids : PageTimeout(i)
    \/ \E u \in Urls : PageMoves(u)
    \/ \E f \in Frame : Receive(f)
    \/ Join \/ Leave
    \/ \E m \in {"play", "pause", "nudge", "steady"} : Command(m)

Spec == Init /\ [][Next]_vars

(* A player's document loads and gets its video, its waits end, and what   *)
(* it sends arrives; of the page only that what is due comes to pass, and  *)
(* nothing of the phantoms.                                                *)
Fairness ==
    /\ WF_vars(PageReady)
    /\ \A f \in Players :
          /\ WF_vars(FrameLoads(f)) /\ WF_vars(VideoAppears(f))
          /\ WF_vars(ResolveVideo(f)) /\ WF_vars(Receive(f))
          /\ \A i \in Ids : WF_vars(EnsurePlayable(f, i))

FairSpec == Spec /\ Fairness

----------------------------------------------------------------------------
(* Properties.                                                             *)

(* The core guard of both runtimes: no adapter is active in a frame that   *)
(* was told it is outside a room, though init may end long after a leave.  *)
GateShut == \A f \in Frame : Active(fr[f]) => fr[f].room

(* A nudged player always gets its speed back: the restore timer is armed, *)
(* through an adapter that still has the video, whatever was torn down,    *)
(* re-initialised or replaced meanwhile.                                   *)
RateRestored ==
    \A f \in Media : fr[f].nudged => fr[f].nudge \in fr[f].live

(* A tab that stays in the room gets its video driven: the player's        *)
(* adapter ends up active, and the background knows where it is.           *)
VideoDriven ==
    \A f \in Players : (<>[]member) => <>[](Active(fr[f]) /\ owner # None)

(* "Only a room `play' lifts the autoplay hold (before applying, so it     *)
(* isn't re-paused by the guard)" (media/base.ts): a play that reaches an  *)
(* active media adapter is applied, and no other adapter's hold is left on *)
(* the same video to pause it again.                                       *)
RoomPlayHeeded ==
    [][\A f \in Media :
          /\ Active(fr[f])
          /\ known
          /\ \/ Command("play") /\ owner \in {f, None}
             \/ Receive(f) /\ Head(outbox[f]) = "hello" /\ member
          => fr[f].handler /\ fr'[f].held = {}]_vars
=============================================================================
