--------------------------- MODULE NavGuardProofs ---------------------------
(***************************************************************************)
(* Proofs about NavGuard, for any videos, modes and number of moves: the   *)
(* gate that holds a viewer's intents back is never left without the timer *)
(* that opens it.                                                          *)
(***************************************************************************)
EXTENDS NavGuard, TLAPS

\* The gate and the timers keep their fields; nothing else is needed of types.
GuardTypes == gate \in Gate /\ timers \in Timers

KeyInv == GuardTypes /\ GateHasKey

----------------------------------------------------------------------------
(* The transforms of session.ts.                                           *)

\* markConverged opens the gate, or leaves it to a reload under way.
LEMMA Marked ==
  ASSUME NEW g \in Gate
  PROVE  /\ MarkConverged(g) \in Gate
         /\ MarkConverged(g).awaiting = g.awaiting
         /\ MarkConverged(g).converged \/ MarkConverged(g).awaiting
BY DEF MarkConverged, Gate

\* resetConvergence and resetConnectionState shut it and leave a reload alone.
LEMMA Shut ==
  ASSUME NEW g \in Gate
  PROVE  /\ ResetConvergence(g) \in Gate
         /\ ResetConvergence(g).awaiting = g.awaiting
         /\ ResetConnectionState(g) \in Gate
         /\ ResetConnectionState(g).awaiting = g.awaiting
BY DEF ResetConvergence, ResetConnectionState, Gate

\* A move of the tab arms the debounce at most.
LEMMA DebounceOnly ==
  ASSUME NEW v, timers \in Timers, Observed(v)
  PROVE  /\ timers' \in Timers
         /\ timers'.request = timers.request /\ timers'.reload = timers.reload
BY DEF Observed, Timers

----------------------------------------------------------------------------
LEMMA KeyInit == Init => KeyInv
BY DEF Init, KeyInv, GuardTypes, GateHasKey, Gate, Timers

\* What moves the tab and nothing of the session.
LEMMA KeyKeptByMoves ==
  ASSUME KeyInv,
         \/ \E v \in Videos \cup {Home} : UserNavigates(v)
         \/ CommandDelivered
         \/ PageReady
  PROVE  KeyInv'
<1>1. ASSUME NEW v \in Videos \cup {Home}, UserNavigates(v) PROVE KeyInv'
  BY <1>1, DebounceOnly DEF UserNavigates, KeyInv, GuardTypes, GateHasKey, wire
<1>2. CASE CommandDelivered
  <2>1. CASE page = "ready" /\ url # Head(cmds)
    BY <1>2, <2>1, DebounceOnly DEF CommandDelivered, KeyInv, GuardTypes, GateHasKey, wire
  <2>2. CASE ~(page = "ready" /\ url # Head(cmds))
    BY <1>2, <2>2 DEF CommandDelivered, KeyInv, GuardTypes, GateHasKey, wire
  <2> QED BY <2>1, <2>2
<1>3. CASE PageReady
  <2>1. CASE gate.awaiting /\ url = cursor
    <3> DEFINE g == [gate EXCEPT !.awaiting = FALSE]
    <3>1. g \in Gate /\ ~g.awaiting
      BY DEF KeyInv, GuardTypes, Gate
    <3>2. gate' = MarkConverged(g) /\ timers' = [timers EXCEPT !.reload = FALSE]
      BY <1>3, <2>1 DEF PageReady
    <3>3. gate' \in Gate /\ ~gate'.awaiting /\ gate'.converged
      BY <3>1, <3>2, Marked
    <3>4. timers' \in Timers /\ timers'.request = timers.request
      BY <3>2 DEF KeyInv, GuardTypes, Timers
    <3> QED BY <1>3, <3>3, <3>4 DEF PageReady, KeyInv, GuardTypes, GateHasKey, wire
  <2>2. CASE ~(gate.awaiting /\ url = cursor)
    BY <1>3, <2>2 DEF PageReady, KeyInv, GuardTypes, GateHasKey, wire
  <2> QED BY <2>1, <2>2
<1> QED BY <1>1, <1>2, <1>3

\* The guard's continuations: to forward shuts the gate and arms the fallback,
\* to reload shuts it and arms the other one.
LEMMA KeyKeptByGuard ==
  ASSUME KeyInv,
         \/ Debounced \/ RouteGuardedNav \/ RecheckAndPullBack
         \/ ReconcileTick \/ ReconcileCursorToRoom
  PROVE  KeyInv'
<1> USE DEF KeyInv, GuardTypes
<1>1. CASE Debounced
  BY <1>1 DEF Debounced, GateHasKey, Timers, wire
<1>2. CASE RouteGuardedNav
  <2>1. CASE UNCHANGED <<pending, gate, timers, wire>>
    BY <2>1 DEF GateHasKey, wire
  <2>2. CASE Forward(url)
    <3>1. gate' \in Gate /\ gate'.awaiting = gate.awaiting
      BY <2>2, Shut DEF Forward
    <3>2. timers' \in Timers /\ timers'.request /\ timers'.reload = timers.reload
      BY <2>2 DEF Forward, Timers
    <3> QED BY <3>1, <3>2 DEF GateHasKey
  <2> QED BY <1>2, <2>1, <2>2 DEF RouteGuardedNav, AskPull, NoMove, PullTabBackToCursor
<1>3. CASE RecheckAndPullBack
  <2>1. CASE url \in list \cup {cursor}
    BY <1>3, <2>1 DEF RecheckAndPullBack, GateHasKey, wire
  <2>2. CASE url \notin list \cup {cursor}
    <3>1. gate' = [ResetConvergence(gate) EXCEPT !.awaiting = TRUE]
      BY <1>3, <2>2 DEF RecheckAndPullBack
    <3>2. gate' \in Gate /\ gate'.awaiting
      BY <3>1, Shut DEF Gate
    <3>3. timers' \in Timers /\ timers'.reload /\ timers'.request = timers.request
      BY <1>3, <2>2 DEF RecheckAndPullBack, Timers
    <3> QED BY <1>3, <3>2, <3>3 DEF RecheckAndPullBack, GateHasKey
  <2> QED BY <2>1, <2>2
<1>4. CASE ReconcileTick
  BY <1>4 DEF ReconcileTick, GateHasKey, wire
<1>5. CASE ReconcileCursorToRoom
  BY <1>5 DEF ReconcileCursorToRoom, AskPull, NoMove, PullTabBackToCursor, GateHasKey, wire
<1> QED BY <1>1, <1>2, <1>3, <1>4, <1>5

\* A timer that fires opens the gate it was the key of, or leaves the other.
LEMMA KeyKeptByTimers ==
  ASSUME KeyInv,
         RequestFallback \/ ReloadFallback \/ SettleEnds
  PROVE  KeyInv'
<1> USE DEF KeyInv, GuardTypes
<1>1. CASE RequestFallback
  <2>1. /\ gate' \in Gate /\ gate'.awaiting = gate.awaiting
        /\ gate'.converged \/ gate'.awaiting
    BY <1>1, Marked DEF RequestFallback
  <2>2. timers' \in Timers /\ timers'.reload = timers.reload
    BY <1>1 DEF RequestFallback, Timers
  <2> QED BY <1>1, <2>1, <2>2 DEF RequestFallback, GateHasKey
<1>2. CASE ReloadFallback
  <2>1. timers' \in Timers /\ timers'.request = timers.request
    BY <1>2 DEF ReloadFallback, Timers
  <2>2. CASE gate.awaiting
    <3> DEFINE g == [gate EXCEPT !.awaiting = FALSE]
    <3>1. g \in Gate /\ ~g.awaiting
      BY DEF Gate
    <3>2. gate' = MarkConverged(g)
      BY <1>2, <2>2 DEF ReloadFallback
    <3>3. gate' \in Gate /\ ~gate'.awaiting /\ gate'.converged
      BY <3>1, <3>2, Marked
    <3> QED BY <1>2, <2>1, <3>3 DEF ReloadFallback, GateHasKey
  <2>3. CASE ~gate.awaiting
    BY <1>2, <2>1, <2>3 DEF ReloadFallback, GateHasKey, wire
  <2> QED BY <2>2, <2>3
<1>3. CASE SettleEnds
  BY <1>3 DEF SettleEnds, GateHasKey, Gate, wire
<1> QED BY <1>1, <1>2, <1>3

\* Frames from the daemon open the gate, the playlist apart; a lost link shuts
\* it with the target forgotten, and the next ROOM_STATE is then the key.
LEMMA KeyKeptByFrames ==
  ASSUME KeyInv,
         CursorChange \/ State \/ PlaylistUpdate \/ RoomState \/ LinkLost
  PROVE  KeyInv'
<1> USE DEF KeyInv, GuardTypes
<1>1. CASE CursorChange
  <2>1. /\ gate' \in Gate /\ gate'.awaiting = gate.awaiting
        /\ gate'.converged \/ gate'.awaiting
    <3>1. ResetConvergence(gate) \in Gate /\ ResetConvergence(gate).awaiting = gate.awaiting
      BY Shut
    <3> QED BY <1>1, <3>1, Marked DEF CursorChange
  <2>2. pending' = None \/ pending' = pending
    BY <1>1 DEF CursorChange
  <2> QED BY <1>1, <2>1, <2>2 DEF CursorChange, GateHasKey
<1>2. CASE State
  <2>1. /\ gate' \in Gate /\ gate'.awaiting = gate.awaiting
        /\ gate'.converged \/ gate'.awaiting
    BY <1>2, Marked DEF State
  <2> QED BY <1>2, <2>1 DEF State, GateHasKey
<1>3. CASE PlaylistUpdate
  BY <1>3 DEF PlaylistUpdate, GateHasKey
<1>4. CASE RoomState
  <2>1. /\ gate' \in Gate /\ gate'.awaiting = gate.awaiting
        /\ gate'.converged \/ gate'.awaiting
    BY <1>4, Marked DEF RoomState
  <2> QED BY <1>4, <2>1 DEF RoomState, GateHasKey
<1>5. CASE LinkLost
  <2>1. gate' \in Gate /\ gate'.awaiting = gate.awaiting
    BY <1>5, Shut DEF LinkLost
  <2> QED BY <1>5, <2>1 DEF LinkLost, GateHasKey
<1> QED BY <1>1, <1>2, <1>3, <1>4, <1>5

\* What only sends, or goes on in the daemon, leaves the session alone; being
\* seated is not yet being up.
LEMMA KeyKeptByDaemon ==
  ASSUME KeyInv,
         \/ BufferEnd \/ Joined \/ CursorChangeRequest \/ BufferEnded \/ Playback
         \/ \E v \in Videos : OtherMoves(v) \/ OtherEdits(v)
  PROVE  KeyInv'
<1>1. /\ UNCHANGED <<gate, timers, pending>>
      /\ link' = link \/ link' = "seated"
  BY DEF BufferEnd, Joined, CursorChangeRequest, BufferEnded, Playback, OtherMoves,
         OtherEdits, Untouched
<1> QED BY <1>1 DEF KeyInv, GuardTypes, GateHasKey

LEMMA KeyStep == KeyInv /\ [Next]_vars => KeyInv'
<1> SUFFICES ASSUME KeyInv, [Next]_vars PROVE KeyInv'
  OBVIOUS
<1>1. CASE UNCHANGED vars
  BY <1>1 DEF vars, KeyInv, GuardTypes, GateHasKey
<1>2. CASE Next
  BY <1>2, KeyKeptByMoves, KeyKeptByGuard, KeyKeptByTimers,
         KeyKeptByFrames, KeyKeptByDaemon DEF Next
<1> QED BY <1>1, <1>2

\* A closed gate always has the timer, the reload or the rejoin that opens it
\* (background.ts, forwardCursorChangeFromNav and recheckAndPullBack): no
\* viewer's intents are dropped for good.
THEOREM GatesHaveKeys == Spec => []GateHasKey
<1>1. KeyInv => GateHasKey
  BY DEF KeyInv
<1> QED BY KeyInit, KeyStep, <1>1, PTL DEF Spec
=============================================================================
