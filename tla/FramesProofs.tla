---------------------------- MODULE FramesProofs ----------------------------
(***************************************************************************)
(* Proofs about Frames, for any frames and any number of moves: no adapter *)
(* is active outside a room, and no player is left at a nudged speed.      *)
(*                                                                         *)
(* Both are about what becomes of an adapter that init has not done with   *)
(* when its frame is torn down, so what has to be known is which adapters  *)
(* are in init, which hold the video, and that a new one is none of them.  *)
(***************************************************************************)
EXTENDS Frames, FiniteSetTheorems, WellFoundedInduction, TLAPS

\* A runtime whose adapters are among the first n.
Shape(s, n) ==
  s \in [up : BOOLEAN, room : BOOLEAN, state : (1 .. n) \cup {None, Failed},
         handler : BOOLEAN, inits : SUBSET (1 .. n), prep : SUBSET (1 .. n),
         live : SUBSET (1 .. n), held : SUBSET (1 .. n),
         nudge : (1 .. n) \cup {None}, nudged : BOOLEAN, polls : BOOLEAN]

\* Who may hold the video: an active adapter does, one still in init does once
\* it is past its first wait, and the restore timer writes through none that
\* init may yet destroy.
Holders(s) ==
  /\ Active(s) => s.state \in s.live \ s.inits
  /\ s.prep \subseteq s.inits \cap s.live
  /\ s.nudge \notin s.inits
  /\ s.nudged => s.nudge \in s.live

Gate(s) == Active(s) => s.room

\* A frame that is not loaded has no runtime.
Unloaded(s) ==
  ~s.up => /\ ~s.room /\ s.state = None /\ s.nudge = None
           /\ s.inits = {} /\ s.live = {}

Kept(s, n) == Shape(s, n) /\ Holders(s) /\ Unloaded(s)
RuntimeOK(s, n) == Kept(s, n) /\ Gate(s)

\* A frame evaluates once per move; one that has not heard of the room it is
\* in has been reloaded since.
FramesInv ==
  /\ member \in BOOLEAN /\ moves \in 0 .. MaxMoves
  /\ fr = [f \in Frame |-> fr[f]]
  /\ \A f \in Frame :
       /\ RuntimeOK(fr[f], moves + 1)
       /\ member /\ ~fr[f].room => RuntimeOK(fr[f], moves)

LEMMA FramesInvImplies == FramesInv => GateShut /\ RateRestored
BY DEF FramesInv, RuntimeOK, Kept, Gate, Holders, GateShut, RateRestored, Frame

-----------------------------------------------------------------------------
(* Numbers.                                                                *)

\* A set of numbers that is not empty and has a bound has a greatest one.
LEMMA GreatestIs ==
  ASSUME NEW n \in Nat, NEW S \in SUBSET (0 .. n), S # {}
  PROVE  Max(S) \in S /\ \A y \in S : y <= Max(S)
<1> DEFINE T == {n - x : x \in S}
<1>1. T \subseteq Nat /\ T # {}
  <2>1. \A x \in S : n - x \in Nat OBVIOUS
  <2>2. QED BY <2>1
<1>2. \E x \in T : \A y \in T : ~(<<y, x>> \in OpToRel(<, Nat))
  <2> HIDE DEF T
  <2>1. QED BY <1>1, NatLessThanWellFounded, WFMin
<1>3. PICK x \in T : \A y \in T : ~(y < x)
  BY <1>1, <1>2 DEF OpToRel
<1>4. PICK m \in S : x = n - m OBVIOUS
<1>5. \A y \in S : m >= y
  <2> TAKE y \in S
  <2>1. ~(n - y < n - m) BY <1>3, <1>4
  <2>2. m \in Nat /\ y \in Nat OBVIOUS
  <2>3. QED BY <2>1, <2>2
<1>6. Max(S) \in S /\ \A y \in S : Max(S) >= y BY <1>5 DEF Max
<1>7. \A y \in S : y \in Nat OBVIOUS
<1>8. QED BY <1>6, <1>7

\* A new adapter is none that the frame knows.
LEMMA FreshIs ==
  ASSUME NEW n \in Nat, NEW s, Shape(s, n)
  PROVE  /\ Fresh(s) \in 1 .. n + 1
         /\ Fresh(s) \notin s.inits \cup s.live \cup {s.state, s.nudge}
<1> DEFINE S == Used(s) \cup {0}
<1>1. S \in SUBSET (0 .. n) /\ S # {} /\ Used(s) \subseteq S
  BY DEF Shape, Used
<1> HIDE DEF S
<1>2. Max(S) \in 0 .. n /\ \A y \in Used(s) : y <= Max(S)
  BY <1>1, GreatestIs
<1>3. Fresh(s) = 1 + Max(S) BY DEF Fresh, S
<1>4. \A y \in Used(s) : y \in 0 .. n BY <1>1
<1>5. Fresh(s) \in 1 .. n + 1 /\ Fresh(s) \notin Used(s)
  BY <1>2, <1>3, <1>4
<1>6. Fresh(s) \notin {None, Failed} BY <1>5, FramesAssumption
<1>7. QED BY <1>5, <1>6 DEF Used

LEMMA NumbersGrow ==
  ASSUME NEW n \in Nat, NEW s
  PROVE  /\ Shape(s, n) => Shape(s, n + 1)
         /\ Kept(s, n) => Kept(s, n + 1)
         /\ RuntimeOK(s, n) => RuntimeOK(s, n + 1)
<1>1. 1 .. n \subseteq 1 .. n + 1 OBVIOUS
<1>2. Shape(s, n) => Shape(s, n + 1) BY <1>1 DEF Shape
<1>3. QED BY <1>2 DEF Kept, RuntimeOK

-----------------------------------------------------------------------------
(* The functions of the runtimes.                                          *)

\* evaluate adds one adapter to those in init, or lets go of the active one.
LEMMA EvaluateKeeps ==
  ASSUME NEW n \in Nat, NEW s, Kept(s, n), Gate(s), NEW f
  PROVE  /\ RuntimeOK(Evaluate(f, s), n + 1)
         /\ Evaluate(f, s).room = s.room
<1> DEFINE new == Fresh(s)
<1>1. /\ new \in 1 .. n + 1
      /\ new \notin s.inits \cup s.live \cup {s.state, s.nudge}
  BY FreshIs DEF Kept
<1>2. Kept(s, n + 1) BY NumbersGrow
<1>3. CASE ~s.room BY <1>2, <1>3 DEF Evaluate, RuntimeOK
<1>4. CASE s.room /\ f = Page /\ dom'.url = "other"
  <2>1. Evaluate(f, s) = [s EXCEPT !.state = None] BY <1>4 DEF Evaluate
  <2>2. QED
    BY <1>2, <1>4, <2>1 DEF RuntimeOK, Kept, Shape, Holders, Unloaded, Gate, Active
<1>5. CASE s.room /\ ~(f = Page /\ dom'.url = "other")
  <2> HIDE DEF new
  <2>1. Evaluate(f, s) = [s EXCEPT !.inits = @ \cup {new}] BY <1>5 DEF Evaluate, new
  <2>2. QED
    <3>1. None \notin 1 .. n + 1 /\ Failed \notin 1 .. n + 1 BY FramesAssumption
    <3>2. Shape(Evaluate(f, s), n + 1) BY <1>1, <1>2, <2>1 DEF Kept, Shape
    <3>3. s.up BY <1>5 DEF Kept, Unloaded
    <3>4. Holders(Evaluate(f, s))
      BY <1>1, <2>1, <3>1 DEF Kept, Shape, Holders, Active
    <3>5. Gate(Evaluate(f, s)) /\ Unloaded(Evaluate(f, s)) /\ Evaluate(f, s).room = s.room
      BY <1>5, <2>1, <3>3 DEF Kept, Shape, Gate, Unloaded, Active
    <3>6. QED BY <3>2, <3>4, <3>5 DEF RuntimeOK, Kept
<1>6. QED BY <1>3, <1>4, <1>5

\* teardown puts the speed back through the active adapter, which has the video.
LEMMA TeardownKeeps ==
  ASSUME NEW n \in Nat, NEW s, Kept(s, n)
  PROVE  /\ RuntimeOK(Teardown(s), n) /\ Teardown(s).room = s.room
         /\ Teardown(s).up = s.up
<1>1. CASE ~Active(s)
  <2>1. Teardown(s) = [s EXCEPT !.state = None, !.handler = FALSE, !.polls = FALSE]
    BY <1>1 DEF Teardown
  <2>2. QED BY <1>1, <2>1 DEF RuntimeOK, Kept, Shape, Holders, Unloaded, Gate, Active
<1>2. CASE Active(s)
  <2> DEFINE c == CancelNudge(s, s.state)
             d == Destroy(c, {s.state})
  <2>1. s.state \in s.live /\ s.state \notin s.inits BY <1>2 DEF Kept, Holders
  <2>2. /\ Shape(c, n) /\ c.nudge = None /\ ~c.nudged
        /\ c.state = s.state /\ c.inits = s.inits /\ c.live = s.live
        /\ c.prep = s.prep /\ c.room = s.room /\ c.up = s.up
    <3>1. CASE s.nudge = None
      <4>1. c = s BY <3>1 DEF CancelNudge
      <4>2. None \notin s.live BY FramesAssumption DEF Kept, Shape
      <4>3. QED BY <3>1, <4>1, <4>2 DEF Kept, Shape, Holders
    <3>2. CASE s.nudge # None
      <4>1. c = [s EXCEPT !.nudge = None, !.nudged = @ /\ s.state \notin s.live]
        BY <3>2 DEF CancelNudge
      <4>2. c = [s EXCEPT !.nudge = None, !.nudged = FALSE]
        BY <2>1, <4>1 DEF Kept, Shape
      <4>3. QED BY <4>2 DEF Kept, Shape
    <3>3. QED BY <3>1, <3>2
  <2> HIDE DEF c
  <2>3. /\ Shape(d, n) /\ d.nudge = None /\ ~d.nudged
        /\ d.inits = s.inits /\ d.live = s.live \ {s.state}
        /\ d.prep = s.prep /\ d.room = s.room /\ d.up = s.up
    BY <2>2 DEF Destroy, Shape
  <2> HIDE DEF d
  <2>4. Teardown(s) = [d EXCEPT !.state = None, !.handler = FALSE, !.polls = FALSE]
    BY <1>2 DEF Teardown, c, d
  <2>5. None \notin 1 .. n BY FramesAssumption
  <2>6. /\ Shape(Teardown(s), n) /\ Unloaded(Teardown(s))
        /\ ~Active(Teardown(s)) /\ Teardown(s).room = s.room /\ Teardown(s).up = s.up
    BY <1>2, <2>3, <2>4 DEF Shape, Kept, Unloaded, Active
  <2>7. Holders(Teardown(s))
    BY <2>1, <2>3, <2>4, <2>5, <2>6 DEF Shape, Kept, Holders
  <2>8. QED BY <2>6, <2>7 DEF RuntimeOK, Kept, Gate
<1>3. QED BY <1>1, <1>2


\* What a step within a frame does: it neither enters nor leaves the room, and
\* its adapters are as they should be, with no new one.
Stays(s, t) ==
  \A n \in Nat : RuntimeOK(s, n) => RuntimeOK(t, n) /\ t.room = s.room

\* A step of a move may add an adapter.
Moves(s, t) ==
  \A n \in Nat : RuntimeOK(s, n) => RuntimeOK(t, n + 1) /\ t.room = s.room

LEMMA StaysMoves == ASSUME NEW s, NEW t, Stays(s, t) PROVE Moves(s, t)
BY NumbersGrow DEF Stays, Moves

\* init ends: what it held is let go of outside a room, and else the last to
\* have started is the active one.
LEMMA ActivateKeeps ==
  ASSUME NEW n \in Nat, NEW s, Kept(s, n), NEW ids \in SUBSET (1 .. n),
         ids # {}, ids \subseteq s.inits \cap s.live
  PROVE  RuntimeOK(Activate(s, ids), n) /\ Activate(s, ids).room = s.room
<1> DEFINE r == Over(s, ids)
<1>1. s.up BY DEF Kept, Unloaded
<1>2. /\ r = [s EXCEPT !.inits = @ \ ids, !.prep = @ \ ids]
      /\ Kept(r, n) /\ r.up /\ r.room = s.room /\ r.live = s.live
      /\ r.inits = s.inits \ ids /\ r.state = s.state /\ r.nudge = s.nudge
  <2>1. r = [s EXCEPT !.inits = @ \ ids, !.prep = @ \ ids] BY DEF Over
  <2> HIDE DEF r
  <2>2. Shape(r, n) BY <2>1 DEF Kept, Shape
  <2>3. /\ r.up = s.up /\ r.room = s.room /\ r.live = s.live /\ r.state = s.state
        /\ r.inits = s.inits \ ids /\ r.prep = s.prep \ ids
        /\ r.nudge = s.nudge /\ r.nudged = s.nudged
    BY <2>1 DEF Kept, Shape
  <2>4. Holders(r) BY <2>3 DEF Kept, Holders, Active
  <2>5. QED BY <1>1, <2>1, <2>2, <2>3, <2>4 DEF Kept, Unloaded
<1> HIDE DEF r
<1>3. None \notin 1 .. n /\ Failed \notin 1 .. n BY FramesAssumption
<1>4. CASE ~r.room
  <2>1. Activate(s, ids) = [Destroy(r, ids) EXCEPT !.state = None]
    BY <1>4 DEF Activate, r
  <2>2. Activate(s, ids) =
          [r EXCEPT !.live = @ \ ids, !.held = @ \ ids, !.state = None]
    BY <1>2, <2>1 DEF Destroy, Kept, Shape
  <2>3. /\ Shape(Activate(s, ids), n) /\ Activate(s, ids).room = s.room
        /\ Unloaded(Activate(s, ids)) /\ ~Active(Activate(s, ids))
    <3>1. Shape(r, n) BY <1>2 DEF Kept
    <3>2. Shape(Activate(s, ids), n) BY <2>2, <3>1 DEF Shape
    <3>3. Activate(s, ids).up /\ Activate(s, ids).room = s.room /\ Activate(s, ids).state = None
      BY <1>2, <2>2, <3>1 DEF Shape
    <3>4. QED BY <3>2, <3>3 DEF Unloaded, Active
  <2>4. Holders(Activate(s, ids))
    <3>1. s.nudge \notin ids BY DEF Kept, Holders
    <3>2. r.prep \subseteq r.inits \cap (r.live \ ids) BY <1>2 DEF Kept, Holders
    <3>3. QED BY <1>2, <2>2, <2>3, <3>1, <3>2 DEF Kept, Shape, Holders
  <2>5. QED BY <2>3, <2>4 DEF RuntimeOK, Kept, Gate
<1>5. CASE r.room /\ r.state = Failed
  <2>1. Activate(s, ids) = r BY <1>5 DEF Activate, r
  <2>2. QED BY <1>2, <1>5, <2>1 DEF RuntimeOK, Gate, Active
<1>6. CASE r.room /\ r.state # Failed
  <2>1. Max(ids) \in ids
    <3>1. ids \in SUBSET (0 .. n) OBVIOUS
    <3>2. QED BY <3>1, GreatestIs
  <2> DEFINE one == Cardinality(ids) = 1
  <2>2. Activate(s, ids) =
          [r EXCEPT !.state = Max(ids), !.handler = one, !.polls = TRUE]
    BY <1>6 DEF Activate, r
  <2>3. one \in BOOLEAN OBVIOUS
  <2> HIDE DEF one
  <2>4. Shape(Activate(s, ids), n)
    <3>1. Max(ids) \in 1 .. n BY <2>1
    <3>2. Shape(r, n) BY <1>2 DEF Kept
    <3>3. QED BY <2>2, <2>3, <3>1, <3>2 DEF Shape
  <2>5. /\ Activate(s, ids).room = s.room /\ Gate(Activate(s, ids))
        /\ Unloaded(Activate(s, ids))
    BY <1>2, <1>6, <2>2 DEF Kept, Shape, Gate, Unloaded
  <2>6. Holders(Activate(s, ids))
    BY <1>2, <2>1, <2>2 DEF Kept, Shape, Holders
  <2>7. QED BY <2>4, <2>5, <2>6 DEF RuntimeOK, Kept
<1>7. QED BY <1>4, <1>5, <1>6

\* The first wait of init ends: a player's video is held, a page listened to.
Claim(s, ids) == [s EXCEPT !.live = @ \cup ids, !.held = @ \cup ids]
Listen(s, ids) == [s EXCEPT !.live = @ \cup ids]
Prepare(s, ids) == [s EXCEPT !.prep = @ \cup ids]

LEMMA ClaimKeeps ==
  ASSUME NEW n \in Nat, NEW s, RuntimeOK(s, n),
         NEW ids, ids \subseteq s.inits, ids # {},
         NEW t \in {Claim(s, ids), Listen(s, ids)}
  PROVE  /\ RuntimeOK(t, n) /\ t.room = s.room /\ t.inits = s.inits
         /\ ids \in SUBSET (1 .. n) /\ ids \subseteq t.inits \cap t.live
         /\ RuntimeOK(Prepare(t, ids), n) /\ Prepare(t, ids).room = s.room
<1>1. s.up BY DEF RuntimeOK, Kept, Unloaded
<1>2. ids \in SUBSET (1 .. n) BY DEF RuntimeOK, Kept, Shape
<1>3. /\ Shape(t, n) /\ t.up /\ t.room = s.room /\ t.state = s.state
      /\ t.inits = s.inits /\ t.live = s.live \cup ids /\ t.prep = s.prep
      /\ t.nudge = s.nudge /\ t.nudged = s.nudged
  BY <1>1, <1>2 DEF RuntimeOK, Kept, Shape, Claim, Listen
<1>4. Holders(t) /\ Gate(t) /\ Unloaded(t)
  BY <1>3 DEF RuntimeOK, Kept, Holders, Gate, Unloaded, Active
<1> DEFINE u == Prepare(t, ids)
<1>5. /\ Shape(u, n) /\ u.up /\ u.room = t.room /\ u.state = t.state
      /\ u.inits = t.inits /\ u.live = t.live /\ u.prep = t.prep \cup ids
      /\ u.nudge = t.nudge /\ u.nudged = t.nudged
  BY <1>2, <1>3 DEF Shape, Prepare
<1> HIDE DEF u
<1>6. Holders(u) /\ Gate(u) /\ Unloaded(u)
  BY <1>3, <1>4, <1>5 DEF Holders, Gate, Unloaded, Active
<1>7. QED BY <1>2, <1>3, <1>4, <1>5, <1>6 DEF RuntimeOK, Kept, u

\* failInit: whoever was active, nobody is now.
LEMMA FailInitKeeps ==
  ASSUME NEW n \in Nat, NEW s, Kept(s, n), NEW ids, ids \subseteq s.inits, ids # {}
  PROVE  RuntimeOK(FailInit(s, ids), n) /\ FailInit(s, ids).room = s.room
<1> DEFINE end == IF s.room THEN Failed ELSE None
           t == [s EXCEPT !.inits = @ \ ids, !.prep = @ \ ids, !.state = end]
<1>1. s.up BY DEF Kept, Unloaded
<1>2. FailInit(s, ids) = t BY DEF FailInit, Over, Kept, Shape
<1>3. end \in {None, Failed} OBVIOUS
<1> HIDE DEF end
<1>4. /\ Shape(t, n) /\ t.up /\ t.room = s.room /\ t.state = end
      /\ t.inits = s.inits \ ids /\ t.live = s.live /\ t.prep = s.prep \ ids
      /\ t.nudge = s.nudge /\ t.nudged = s.nudged
  BY <1>1, <1>3 DEF Kept, Shape
<1> HIDE DEF t
<1>5. Holders(t) /\ Gate(t) /\ Unloaded(t)
  BY <1>3, <1>4 DEF Kept, Holders, Gate, Unloaded, Active
<1>6. QED BY <1>2, <1>4, <1>5 DEF RuntimeOK, Kept

\* The restore timer, and any command to the active adapter, through which the
\* speed is put back first.
LEMMA CancelNudgeKeeps ==
  ASSUME NEW n \in Nat, NEW s, RuntimeOK(s, n), NEW i, i \in s.live \/ i = s.nudge
  PROVE  LET c == CancelNudge(s, i) IN
         /\ Shape(c, n) /\ c.nudge = None /\ ~c.nudged
         /\ c.up = s.up /\ c.room = s.room /\ c.state = s.state
         /\ c.inits = s.inits /\ c.prep = s.prep /\ c.live = s.live
         /\ c.handler = s.handler
<1> DEFINE c == CancelNudge(s, i)
<1>0. None \notin 1 .. n BY FramesAssumption
<1>1. CASE s.nudge = None
  <2>1. c = s BY <1>1 DEF CancelNudge
  <2>2. ~s.nudged BY <1>0, <1>1 DEF RuntimeOK, Kept, Shape, Holders
  <2>3. QED BY <1>1, <2>1, <2>2 DEF RuntimeOK, Kept
<1>2. CASE s.nudge # None
  <2>1. c = [s EXCEPT !.nudge = None, !.nudged = @ /\ i \notin s.live]
    BY <1>2 DEF CancelNudge
  <2>2. s.nudged => i \in s.live BY DEF RuntimeOK, Kept, Holders
  <2>3. c = [s EXCEPT !.nudge = None, !.nudged = FALSE]
    BY <2>1, <2>2 DEF RuntimeOK, Kept, Shape
  <2>4. QED BY <2>3 DEF RuntimeOK, Kept, Shape
<1>3. QED BY <1>1, <1>2

LEMMA NudgeEndsStays == ASSUME NEW s PROVE Stays(s, CancelNudge(s, s.nudge))
<1> DEFINE c == CancelNudge(s, s.nudge)
<1> SUFFICES ASSUME NEW n \in Nat, RuntimeOK(s, n)
             PROVE  RuntimeOK(c, n) /\ c.room = s.room
  BY DEF Stays
<1>1. /\ Shape(c, n) /\ c.nudge = None /\ ~c.nudged
      /\ c.up = s.up /\ c.room = s.room /\ c.state = s.state
      /\ c.inits = s.inits /\ c.prep = s.prep /\ c.live = s.live
  BY CancelNudgeKeeps
<1> HIDE DEF c
<1>2. None \notin 1 .. n BY FramesAssumption
<1>3. QED
  BY <1>1, <1>2 DEF RuntimeOK, Kept, Shape, Holders, Unloaded, Gate, Active

LEMMA DeliverStays ==
  ASSUME NEW n \in Nat, NEW s, RuntimeOK(s, n), NEW m
  PROVE  RuntimeOK(DeliverCommand(s, m), n) /\ DeliverCommand(s, m).room = s.room
<1> DEFINE c == CancelNudge(s, s.state)
           t == DeliverCommand(s, m)
<1>1. CASE ~Active(s) BY <1>1 DEF DeliverCommand
<1>2. CASE Active(s)
  <2>1. s.state \in s.live \ s.inits /\ s.room /\ s.up
    BY <1>2 DEF RuntimeOK, Kept, Holders, Gate, Unloaded
  <2>2. /\ Shape(c, n) /\ c.nudge = None /\ ~c.nudged
        /\ c.up = s.up /\ c.room = s.room /\ c.state = s.state
        /\ c.inits = s.inits /\ c.prep = s.prep /\ c.live = s.live
    <3>1. s.state \in s.live BY <2>1
    <3>2. QED BY <3>1, CancelNudgeKeeps
  <2>3. None \notin 1 .. n BY FramesAssumption
  <2>4. s.state \in 1 .. n BY <2>1 DEF RuntimeOK, Kept, Shape
  <2>5. t \in {c, [c EXCEPT !.nudge = s.state, !.nudged = TRUE],
               [c EXCEPT !.held = @ \ {s.state}]}
    BY <1>2 DEF DeliverCommand
  <2> HIDE DEF c, t
  <2>6. /\ Shape(t, n) /\ t.up /\ t.room /\ t.state = s.state
        /\ t.inits = s.inits /\ t.prep = s.prep /\ t.live = s.live
        /\ (t.nudge = None /\ ~t.nudged) \/ t.nudge = s.state
    <3>1. CASE t = c BY <2>1, <2>2, <3>1
    <3>2. CASE t = [c EXCEPT !.nudge = s.state, !.nudged = TRUE]
      BY <2>1, <2>2, <2>4, <3>2 DEF Shape
    <3>3. CASE t = [c EXCEPT !.held = @ \ {s.state}] BY <2>1, <2>2, <3>3 DEF Shape
    <3>4. QED BY <2>5, <3>1, <3>2, <3>3
  <2>7. Holders(t) /\ Unloaded(t) /\ Gate(t)
    BY <1>2, <2>1, <2>3, <2>6 DEF RuntimeOK, Kept, Shape, Holders, Unloaded, Gate, Active
  <2>8. QED BY <2>1, <2>6, <2>7 DEF RuntimeOK, Kept, t
<1>3. QED BY <1>1, <1>2

\* The background tells a frame that is loaded whether the tab is in a room.
LEMMA SetRoomActiveKeeps ==
  ASSUME NEW n \in Nat, NEW s, RuntimeOK(s, n), s.up, NEW f, NEW active \in BOOLEAN
  PROVE  /\ SetRoomActive(f, s, active).room = active
         /\ RuntimeOK(SetRoomActive(f, s, active), n + 1)
         /\ ~active => RuntimeOK(SetRoomActive(f, s, active), n)
         /\ s.room = active => SetRoomActive(f, s, active) = s
<1> DEFINE in == [s EXCEPT !.room = active]
<1>0. s.room \in BOOLEAN BY DEF RuntimeOK, Kept, Shape
<1>1. CASE active = s.room
  BY <1>1, NumbersGrow DEF SetRoomActive
<1>2. CASE active # s.room
  <2>1. Kept(in, n) /\ in.room = active /\ in.up
    <3>1. /\ Shape(in, n) /\ in.up /\ in.room = active /\ in.state = s.state
          /\ in.inits = s.inits /\ in.live = s.live /\ in.prep = s.prep
          /\ in.nudge = s.nudge /\ in.nudged = s.nudged
      BY DEF RuntimeOK, Kept, Shape
    <3> HIDE DEF in
    <3>2. QED BY <3>1 DEF RuntimeOK, Kept, Holders, Unloaded, Active
  <2>2. CASE active
    <3>1. Gate(in) BY <2>1, <2>2 DEF Gate
    <3>2. SetRoomActive(f, s, active) = Evaluate(f, in)
      BY <1>2, <2>2 DEF SetRoomActive
    <3> HIDE DEF in
    <3>3. RuntimeOK(Evaluate(f, in), n + 1) /\ Evaluate(f, in).room = in.room
      BY <2>1, <3>1, EvaluateKeeps
    <3>4. QED BY <1>2, <2>1, <2>2, <3>2, <3>3
  <2>3. CASE ~active
    <3>1. SetRoomActive(f, s, active) = Teardown(in)
      BY <1>2, <2>3 DEF SetRoomActive
    <3> HIDE DEF in
    <3>2. RuntimeOK(Teardown(in), n) /\ Teardown(in).room = in.room
      BY <2>1, TeardownKeeps
    <3>3. QED BY <1>2, <2>1, <3>1, <3>2, NumbersGrow
  <2>4. QED BY <2>2, <2>3
<1>3. QED BY <1>1, <1>2

-----------------------------------------------------------------------------
(* The steps.                                                              *)

\* Steps of which each frame's part stays within its room.
LEMMA StaysKeeps ==
  ASSUME FramesInv, fr' = [f \in Frame |-> fr'[f]],
         \/ moves' = moves /\ \A f \in Frame : Stays(fr[f], fr'[f])
         \/ Tick /\ \A f \in Frame : Moves(fr[f], fr'[f]),
         member' \in BOOLEAN, member' => member
  PROVE  FramesInv'
<1>1. moves + 1 \in Nat /\ moves \in Nat BY FramesAssumption DEF FramesInv
<1>2. CASE moves' = moves /\ \A f \in Frame : Stays(fr[f], fr'[f])
  BY <1>1, <1>2 DEF FramesInv, Stays
<1>3. CASE Tick /\ \A f \in Frame : Moves(fr[f], fr'[f])
  <2>1. moves' = moves + 1 /\ moves' \in 0 .. MaxMoves
    BY <1>3, FramesAssumption DEF FramesInv, Tick
  <2>2. QED BY <1>1, <1>3, <2>1 DEF FramesInv, Moves
<1>4. QED BY <1>2, <1>3

LEMMA NoMove == ASSUME NEW s PROVE Stays(s, s) /\ Moves(s, s)
BY NumbersGrow DEF Stays, Moves

\* One frame's step.
LEMMA OneStays ==
  ASSUME FramesInv, NEW f \in Frame, NEW t, fr' = [fr EXCEPT ![f] = t],
         \/ UNCHANGED moves /\ Stays(fr[f], t)
         \/ Tick /\ Moves(fr[f], t),
         UNCHANGED member
  PROVE  FramesInv'
<1>1. fr' = [g \in Frame |-> fr'[g]] /\ fr'[f] = t
      /\ \A g \in Frame : g # f => fr'[g] = fr[g]
  BY DEF FramesInv
<1>2. CASE UNCHANGED moves /\ Stays(fr[f], t)
  <2>1. \A g \in Frame : Stays(fr[g], fr'[g]) BY <1>1, <1>2, NoMove
  <2>2. QED BY <1>1, <1>2, <2>1, StaysKeeps DEF FramesInv
<1>3. CASE Tick /\ Moves(fr[f], t)
  <2>1. \A g \in Frame : Moves(fr[g], fr'[g]) BY <1>1, <1>3, NoMove
  <2>2. QED BY <1>1, <1>3, <2>1, StaysKeeps DEF FramesInv, Tick
<1>4. QED BY <1>2, <1>3

\* Every frame hears of the room.
LEMMA PushKeeps ==
  ASSUME FramesInv, NEW active \in BOOLEAN, PushRoomActive(active),
         member' = active, UNCHANGED moves \/ Tick,
         active => member \/ Tick
  PROVE  FramesInv'
<1>1. /\ moves \in Nat /\ moves + 1 \in Nat /\ fr' = [f \in Frame |-> fr'[f]]
      /\ moves' = moves \/ moves' = moves + 1
      /\ active => member \/ moves' = moves + 1
      /\ moves' \in 0 .. MaxMoves
  BY FramesAssumption DEF FramesInv, PushRoomActive, Tick
<1>2. ASSUME NEW f \in Frame
      PROVE  /\ RuntimeOK(fr'[f], moves' + 1)
             /\ active /\ ~fr'[f].room => RuntimeOK(fr'[f], moves')
  <2>0. RuntimeOK(fr[f], moves + 1) BY <1>2 DEF FramesInv
  <2>1. CASE ~fr[f].up
    <3>1. fr'[f] = fr[f] BY <1>2, <2>1 DEF PushRoomActive
    <3>2. ~fr[f].room BY <2>0, <2>1 DEF RuntimeOK, Kept, Unloaded
    <3>3. member => RuntimeOK(fr[f], moves) BY <1>2, <3>2 DEF FramesInv
    <3>4. RuntimeOK(fr[f], moves' + 1) BY <1>1, <2>0, NumbersGrow
    <3>5. active => RuntimeOK(fr[f], moves') BY <1>1, <2>0, <3>3, NumbersGrow
    <3>6. QED BY <3>1, <3>4, <3>5
  <2>2. CASE fr[f].up
    <3>1. fr'[f] = SetRoomActive(f, fr[f], active)
      BY <1>2, <2>2 DEF PushRoomActive
    <3>2. fr'[f].room = active BY <1>1, <2>0, <2>2, <3>1, SetRoomActiveKeeps
    <3>3. CASE moves' = moves + 1
      BY <1>1, <2>0, <2>2, <3>1, <3>2, <3>3, SetRoomActiveKeeps
    <3>4. CASE moves' = moves /\ fr[f].room = active
      BY <1>1, <2>0, <2>2, <3>1, <3>2, <3>4, SetRoomActiveKeeps
    <3>5. CASE moves' = moves /\ fr[f].room # active /\ active
      <4>1. RuntimeOK(fr[f], moves) BY <1>1, <1>2, <3>5 DEF FramesInv
      <4>2. RuntimeOK(fr'[f], moves + 1) BY <1>1, <2>2, <3>1, <4>1, SetRoomActiveKeeps
      <4>3. QED BY <3>2, <3>5, <4>2
    <3>6. CASE moves' = moves /\ fr[f].room # active /\ ~active
      BY <1>1, <2>0, <2>2, <3>1, <3>6, SetRoomActiveKeeps
    <3>7. QED BY <1>1, <3>3, <3>4, <3>5, <3>6
  <2>3. QED BY <2>1, <2>2
<1>3. moves' \in Nat BY <1>1
<1>4. QED BY <1>1, <1>2, <1>3 DEF FramesInv


LEMMA MediaFrame == Media \subseteq Frame /\ Page \in Frame BY DEF Frame

\* A video turns up in time, or not, or its cold start is over.
LEMMA MediaInitKeeps ==
  ASSUME FramesInv, NEW f \in Media,
         \/ ResolveVideo(f)
         \/ \E i \in Ids : NoVideo(f, i) \/ EnsurePlayable(f, i)
  PROVE  FramesInv'
<1>0. f \in Frame BY MediaFrame
<1>1. CASE ResolveVideo(f)
  <2> DEFINE ids == Waiting(fr[f])
             s == Claim(fr[f], ids)
  <2>1. ids # {} BY <1>1 DEF ResolveVideo, Due
  <2>2. ids \subseteq fr[f].inits BY DEF Waiting
  <2>3. \/ fr' = [fr EXCEPT ![f] = Activate(s, ids)]
        \/ fr' = [fr EXCEPT ![f] = Prepare(s, ids)]
    BY <1>1 DEF ResolveVideo, Claim, Prepare
  <2>4. UNCHANGED <<member, moves>> BY <1>1 DEF ResolveVideo
  <2> HIDE DEF ids
  <2>5. ASSUME NEW n \in Nat, RuntimeOK(fr[f], n)
        PROVE  /\ RuntimeOK(Activate(s, ids), n) /\ Activate(s, ids).room = fr[f].room
               /\ RuntimeOK(Prepare(s, ids), n) /\ Prepare(s, ids).room = fr[f].room
    <3>1. s \in {Claim(fr[f], ids), Listen(fr[f], ids)} OBVIOUS
    <3> HIDE DEF s
    <3>2. /\ RuntimeOK(s, n) /\ s.room = fr[f].room /\ s.inits = fr[f].inits
          /\ ids \in SUBSET (1 .. n) /\ ids \subseteq s.inits \cap s.live
          /\ RuntimeOK(Prepare(s, ids), n) /\ Prepare(s, ids).room = fr[f].room
      BY <2>1, <2>2, <2>5, <3>1, ClaimKeeps
    <3>3. RuntimeOK(Activate(s, ids), n) /\ Activate(s, ids).room = s.room
      BY <2>1, <3>2, ActivateKeeps DEF RuntimeOK
    <3>4. QED BY <3>2, <3>3
  <2> HIDE DEF s
  <2>6. Stays(fr[f], Activate(s, ids)) /\ Stays(fr[f], Prepare(s, ids))
    BY <2>5 DEF Stays
  <2>7. QED BY <1>0, <2>3, <2>4, <2>6, OneStays
<1>2. ASSUME NEW i \in Ids, NoVideo(f, i) PROVE FramesInv'
  <2>1. i \in fr[f].inits BY <1>2 DEF NoVideo, Waiting
  <2>2. fr' = [fr EXCEPT ![f] = FailInit(fr[f], {i})] /\ UNCHANGED <<member, moves>>
    BY <1>2 DEF NoVideo
  <2>3. \A n \in Nat : RuntimeOK(fr[f], n) =>
          RuntimeOK(FailInit(fr[f], {i}), n) /\ FailInit(fr[f], {i}).room = fr[f].room
    BY <2>1, FailInitKeeps DEF RuntimeOK
  <2>4. Stays(fr[f], FailInit(fr[f], {i})) BY <2>3 DEF Stays
  <2>5. QED BY <1>0, <2>2, <2>4, OneStays
<1>3. ASSUME NEW i \in Ids, EnsurePlayable(f, i) PROVE FramesInv'
  <2>1. i \in fr[f].prep BY <1>3 DEF EnsurePlayable
  <2>2. fr' = [fr EXCEPT ![f] = Activate(fr[f], {i})] /\ UNCHANGED <<member, moves>>
    BY <1>3 DEF EnsurePlayable
  <2>3. ASSUME NEW n \in Nat, RuntimeOK(fr[f], n)
        PROVE  RuntimeOK(Activate(fr[f], {i}), n) /\ Activate(fr[f], {i}).room = fr[f].room
    <3>1. {i} \in SUBSET (1 .. n) /\ {i} \subseteq fr[f].inits \cap fr[f].live
      BY <2>1, <2>3 DEF RuntimeOK, Kept, Shape, Holders
    <3>2. {i} # {} OBVIOUS
    <3>3. QED BY <2>3, <3>1, <3>2, ActivateKeeps DEF RuntimeOK
  <2>4. Stays(fr[f], Activate(fr[f], {i})) BY <2>3 DEF Stays
  <2>5. QED BY <1>0, <2>2, <2>4, OneStays
<1>4. QED BY <1>1, <1>2, <1>3

\* The page's one wait ends.
LEMMA PageReadsKeeps ==
  ASSUME FramesInv, NEW ids, ids \subseteq fr[Page].inits, ids # {},
         PageReads(ids), UNCHANGED <<member, moves>>
  PROVE  FramesInv'
<1> DEFINE s == Listen(fr[Page], ids)
           a == Activate(s, ids)
           t == [a EXCEPT !.polls = FALSE]
<1>1. ASSUME NEW n \in Nat, RuntimeOK(fr[Page], n)
      PROVE  RuntimeOK(t, n) /\ t.room = fr[Page].room
  <2>1. s \in {Claim(fr[Page], ids), Listen(fr[Page], ids)} OBVIOUS
  <2> HIDE DEF s
  <2>2. /\ RuntimeOK(s, n) /\ s.room = fr[Page].room /\ s.inits = fr[Page].inits
        /\ ids \in SUBSET (1 .. n) /\ ids \subseteq s.inits \cap s.live
    BY <1>1, <2>1, ClaimKeeps
  <2>3. RuntimeOK(a, n) /\ a.room = fr[Page].room
    BY <2>2, ActivateKeeps DEF RuntimeOK
  <2> HIDE DEF a
  <2>4. /\ Shape(t, n) /\ t.up = a.up /\ t.room = a.room /\ t.state = a.state
        /\ t.inits = a.inits /\ t.live = a.live /\ t.prep = a.prep
        /\ t.nudge = a.nudge /\ t.nudged = a.nudged
    BY <2>3 DEF RuntimeOK, Kept, Shape
  <2> HIDE DEF t
  <2>5. Holders(t) /\ Gate(t) /\ Unloaded(t)
    BY <2>3, <2>4 DEF RuntimeOK, Kept, Holders, Gate, Unloaded, Active
  <2>6. QED BY <2>3, <2>4, <2>5 DEF RuntimeOK, Kept
<1>2. ASSUME NEW n \in Nat, RuntimeOK(fr[Page], n)
      PROVE  RuntimeOK(FailInit(fr[Page], ids), n)
             /\ FailInit(fr[Page], ids).room = fr[Page].room
  BY <1>2, FailInitKeeps DEF RuntimeOK
<1>3. CASE dom.url = "watch"
  <2>1. fr' = [fr EXCEPT ![Page] = t] BY <1>3 DEF PageReads, Listen
  <2> HIDE DEF t
  <2>2. Stays(fr[Page], t) BY <1>1 DEF Stays
  <2>3. QED BY <2>1, <2>2, MediaFrame, OneStays
<1>4. CASE dom.url # "watch"
  <2>1. fr' = [fr EXCEPT ![Page] = FailInit(fr[Page], ids)] BY <1>4 DEF PageReads
  <2>2. Stays(fr[Page], FailInit(fr[Page], ids)) BY <1>2 DEF Stays
  <2>3. QED BY <2>1, <2>2, MediaFrame, OneStays
<1>5. QED BY <1>3, <1>4

\* The active adapter is torn down and another one takes its place.
LEMMA RenewMoves == ASSUME NEW s, NEW f PROVE Moves(s, Evaluate(f, Teardown(s)))
<1>1. ASSUME NEW n \in Nat, RuntimeOK(s, n)
      PROVE  /\ RuntimeOK(Evaluate(f, Teardown(s)), n + 1)
             /\ Evaluate(f, Teardown(s)).room = s.room
  <2>1. RuntimeOK(Teardown(s), n) /\ Teardown(s).room = s.room
    BY <1>1, TeardownKeeps DEF RuntimeOK
  <2>2. QED BY <2>1, EvaluateKeeps DEF RuntimeOK
<1>2. QED BY <1>1 DEF Moves


\* Steps of one frame's own.
LEMMA FrameKeeps ==
  ASSUME FramesInv, NEW f \in Media,
         \/ VideoAppears(f) \/ LoadStart(f) \/ NudgeEnds(f) \/ Poll(f)
         \/ FrameGone(f) \/ FrameLoads(f)
  PROVE  FramesInv'
<1>0. f \in Frame BY MediaFrame
<1>1. CASE VideoAppears(f)
  BY <1>1 DEF VideoAppears, FramesInv
<1>2. CASE LoadStart(f)
  <2> DEFINE t == IF Active(fr[f]) THEN Evaluate(f, Teardown(fr[f])) ELSE fr[f]
  <2>1. fr' = [fr EXCEPT ![f] = t] /\ Tick /\ UNCHANGED member BY <1>2 DEF LoadStart
  <2>2. Moves(fr[f], t) BY RenewMoves, NoMove
  <2> HIDE DEF t
  <2>3. QED BY <1>0, <2>1, <2>2, OneStays
<1>3. CASE NudgeEnds(f)
  <2>1. /\ fr' = [fr EXCEPT ![f] = CancelNudge(fr[f], fr[f].nudge)]
        /\ UNCHANGED <<member, moves>>
    BY <1>3 DEF NudgeEnds
  <2>2. QED BY <1>0, <2>1, NudgeEndsStays, OneStays
<1>4. CASE FrameGone(f)
  <2> DEFINE t == [Blank EXCEPT !.up = FALSE]
  <2>1. fr' = [fr EXCEPT ![f] = t] /\ Tick /\ UNCHANGED member BY <1>4 DEF FrameGone
  <2>2. \A n \in Nat : RuntimeOK(t, n)
    BY DEF Blank, RuntimeOK, Kept, Shape, Holders, Unloaded, Gate, Active
  <2> HIDE DEF t
  <2>3. /\ fr' = [g \in Frame |-> fr'[g]] /\ fr'[f] = t
        /\ \A g \in Frame : g # f => fr'[g] = fr[g]
    BY <1>0, <2>1 DEF FramesInv
  <2>4. /\ moves \in Nat /\ moves' = moves + 1 /\ moves' \in 0 .. MaxMoves
        /\ member' \in BOOLEAN /\ member' = member
    BY <2>1, FramesAssumption DEF FramesInv, Tick
  <2>5. ASSUME NEW g \in Frame, g # f
        PROVE  /\ RuntimeOK(fr'[g], moves' + 1)
               /\ member /\ ~fr'[g].room => RuntimeOK(fr'[g], moves')
    BY <2>3, <2>4, <2>5, NumbersGrow DEF FramesInv
  <2>6. QED BY <2>2, <2>3, <2>4, <2>5 DEF FramesInv
<1>5. CASE FrameLoads(f)
  <2> DEFINE t == [fr[f] EXCEPT !.up = TRUE]
  <2>1. fr' = [fr EXCEPT ![f] = t] /\ UNCHANGED <<member, moves>>
    BY <1>5 DEF FrameLoads
  <2>2. ASSUME NEW n \in Nat, RuntimeOK(fr[f], n)
        PROVE  RuntimeOK(t, n) /\ t.room = fr[f].room
    <3>1. /\ Shape(t, n) /\ t.up /\ t.room = fr[f].room /\ t.state = fr[f].state
          /\ t.inits = fr[f].inits /\ t.live = fr[f].live /\ t.prep = fr[f].prep
          /\ t.nudge = fr[f].nudge /\ t.nudged = fr[f].nudged
      BY <2>2 DEF RuntimeOK, Kept, Shape
    <3> HIDE DEF t
    <3>2. QED BY <2>2, <3>1 DEF RuntimeOK, Kept, Holders, Unloaded, Gate, Active
  <2> HIDE DEF t
  <2>3. Stays(fr[f], t) BY <2>2 DEF Stays
  <2>4. QED BY <1>0, <2>1, <2>3, OneStays
<1>6. CASE Poll(f) BY <1>6 DEF Poll, FramesInv
<1>7. QED BY <1>1, <1>2, <1>3, <1>4, <1>5, <1>6

\* The page's steps.
LEMMA PageKeeps ==
  ASSUME FramesInv,
         PageReady \/ EmbedMounts \/ (\E i \in Ids : PageTimeout(i))
           \/ \E u \in Urls : PageMoves(u)
  PROVE  FramesInv'
<1>1. CASE PageReady
  <2>1. Waiting(fr[Page]) \subseteq fr[Page].inits /\ Waiting(fr[Page]) # {}
    BY <1>1 DEF PageReady, Due, Waiting
  <2>2. PageReads(Waiting(fr[Page])) /\ UNCHANGED <<member, moves>> BY <1>1 DEF PageReady
  <2>3. QED BY <2>1, <2>2, PageReadsKeeps
<1>2. CASE EmbedMounts BY <1>2 DEF EmbedMounts, FramesInv
<1>3. ASSUME NEW i \in Ids, PageTimeout(i) PROVE FramesInv'
  <2>1. {i} \subseteq fr[Page].inits /\ {i} # {} BY <1>3 DEF PageTimeout
  <2>2. PageReads({i}) /\ UNCHANGED <<member, moves>> BY <1>3 DEF PageTimeout
  <2>3. QED BY <2>1, <2>2, PageReadsKeeps
<1>4. ASSUME NEW u \in Urls, PageMoves(u) PROVE FramesInv'
  <2> DEFINE t == HandleLocationChange(fr[Page], dom'.last)
  <2>1. fr' = [fr EXCEPT ![Page] = t] /\ Tick /\ UNCHANGED member
    BY <1>4 DEF PageMoves
  <2>2. Moves(fr[Page], t) BY RenewMoves, NoMove DEF HandleLocationChange
  <2> HIDE DEF t
  <2>3. QED BY <2>1, <2>2, MediaFrame, OneStays
<1>5. QED BY <1>1, <1>2, <1>3, <1>4

\* A command goes to the owner, to every media frame, or nowhere.
LEMMA DispatchStays ==
  ASSUME FramesInv, NEW to, NEW m, Dispatch(to, m)
  PROVE  fr' = [f \in Frame |-> fr'[f]] /\ \A f \in Frame : Stays(fr[f], fr'[f])
<1>1. fr' = [f \in Frame |-> fr'[f]] BY DEF Dispatch, FramesInv
<1>2. ASSUME NEW f \in Frame PROVE Stays(fr[f], fr'[f])
  <2>1. fr'[f] = DeliverCommand(fr[f], m) \/ fr'[f] = fr[f] BY <1>2 DEF Dispatch
  <2>2. Stays(fr[f], DeliverCommand(fr[f], m)) BY DeliverStays DEF Stays
  <2>3. QED BY <2>1, <2>2, NoMove
<1>3. QED BY <1>1, <1>2

\* The background's steps.
LEMMA BackgroundKeeps ==
  ASSUME FramesInv,
         \/ Join \/ Leave
         \/ \E m \in {"play", "pause", "nudge", "steady"} : Command(m)
         \/ \E f \in Frame : Receive(f)
  PROVE  FramesInv'
<1>0. member \in BOOLEAN BY DEF FramesInv
<1>1. CASE Join
  BY <1>1, PushKeeps DEF Join
<1>2. CASE Leave
  BY <1>2, PushKeeps DEF Leave, TearDownTab
<1>3. ASSUME NEW m, Command(m) PROVE FramesInv'
  <2>1. Dispatch(owner, m) /\ Tick /\ UNCHANGED member BY <1>3 DEF Command
  <2>2. \A f \in Frame : Moves(fr[f], fr'[f]) BY <2>1, DispatchStays, StaysMoves
  <2>3. QED BY <1>0, <2>1, <2>2, DispatchStays, StaysKeeps
<1>4. ASSUME NEW f \in Frame, Receive(f) PROVE FramesInv'
  <2>1. UNCHANGED moves BY <1>4 DEF Receive
  <2>2. \/ PushRoomActive(member) /\ UNCHANGED member
        \/ UNCHANGED <<member, fr>>
        \/ Dispatch(f, "play") /\ UNCHANGED member
        \/ TearDownTab
    BY <1>4 DEF Receive, Handle
  <2>3. CASE PushRoomActive(member) /\ UNCHANGED member
    BY <1>0, <2>1, <2>3, PushKeeps
  <2>4. CASE UNCHANGED <<member, fr>> BY <2>1, <2>4 DEF FramesInv
  <2>5. CASE Dispatch(f, "play") /\ UNCHANGED member
    BY <1>0, <2>1, <2>5, DispatchStays, StaysKeeps
  <2>6. CASE TearDownTab
    BY <1>0, <2>1, <2>6, PushKeeps DEF TearDownTab
  <2>7. QED BY <2>2, <2>3, <2>4, <2>5, <2>6
<1>5. QED BY <1>1, <1>2, <1>3, <1>4

LEMMA StepKeepsFrames == FramesInv /\ [Next]_vars => FramesInv'
<1> SUFFICES ASSUME FramesInv, [Next]_vars PROVE FramesInv' OBVIOUS
<1>1. CASE UNCHANGED vars BY <1>1 DEF vars, FramesInv
<1>2. CASE \E f \in Media :
             \/ ResolveVideo(f) \/ \E i \in Ids : NoVideo(f, i) \/ EnsurePlayable(f, i)
  BY <1>2, MediaInitKeeps
<1>3. CASE \E f \in Media : VideoAppears(f) \/ LoadStart(f) \/ NudgeEnds(f)
                            \/ Poll(f) \/ FrameGone(f) \/ FrameLoads(f)
  BY <1>3, FrameKeeps
<1>4. CASE \/ PageReady \/ EmbedMounts \/ (\E i \in Ids : PageTimeout(i))
           \/ \E u \in Urls : PageMoves(u)
  BY <1>4, PageKeeps
<1>5. CASE \/ Join \/ Leave
           \/ \E m \in {"play", "pause", "nudge", "steady"} : Command(m)
           \/ \E f \in Frame : Receive(f)
  BY <1>5, BackgroundKeeps
<1>6. QED BY <1>1, <1>2, <1>3, <1>4, <1>5 DEF Next

LEMMA InitFrames == Init => FramesInv
<1> SUFFICES ASSUME Init PROVE FramesInv OBVIOUS
<1> DEFINE t == [Blank EXCEPT !.room = TRUE, !.inits = {1}]
<1>1. RuntimeOK(t, 1) /\ t.room
  <2>1. /\ t.up /\ t.room /\ t.state = None /\ t.inits = {1} /\ t.prep = {}
        /\ t.live = {} /\ t.held = {} /\ t.nudge = None /\ ~t.nudged
    BY DEF Blank
  <2>2. Shape(t, 1)
    <3>1. {1} \in SUBSET (1 .. 1) /\ {} \in SUBSET (1 .. 1) OBVIOUS
    <3>2. QED BY <3>1 DEF Blank, Shape
  <2>3. None # 1 BY FramesAssumption
  <2> HIDE DEF t
  <2>4. QED BY <2>1, <2>2, <2>3 DEF RuntimeOK, Kept, Holders, Unloaded, Gate, Active
<1> HIDE DEF t
<1>2. fr = [f \in Frame |-> t] BY DEF Init, t
<1>3. member \in BOOLEAN /\ moves = 0 /\ moves \in 0 .. MaxMoves
  BY FramesAssumption DEF Init
<1>4. QED BY <1>1, <1>2, <1>3 DEF FramesInv

LEMMA FramesInvariant == Spec => []FramesInv
BY InitFrames, StepKeepsFrames, PTL DEF Spec

\* The numbers that Next quantifies over are all that a frame ever gives out.
LEMMA NumbersSuffice ==
  Spec => [](\A f \in Frame : fr[f].inits \subseteq Ids /\ fr[f].prep \subseteq Ids)
<1>1. FramesInv => \A f \in Frame : fr[f].inits \subseteq Ids /\ fr[f].prep \subseteq Ids
  <2> SUFFICES ASSUME FramesInv, NEW f \in Frame
               PROVE  fr[f].inits \subseteq Ids /\ fr[f].prep \subseteq Ids
    OBVIOUS
  <2>1. 1 .. moves + 1 \subseteq Ids BY FramesAssumption DEF FramesInv, Ids
  <2>2. fr[f].inits \subseteq 1 .. moves + 1 /\ fr[f].prep \subseteq 1 .. moves + 1
    BY DEF FramesInv, RuntimeOK, Kept, Shape
  <2>3. QED BY <2>1, <2>2
<1>2. QED BY <1>1, FramesInvariant, PTL

\* No adapter is active in a frame that was told it is outside a room, however
\* long after a leave its init ends (evaluate's second look at roomActive).
THEOREM GateStaysShut == Spec => []GateShut
BY FramesInvariant, FramesInvImplies, PTL

\* A nudged player has a restore timer armed through an adapter that still has
\* the video (applyNudgeRate, cancelNudge, teardown).
THEOREM SpeedComesBack == Spec => []RateRestored
BY FramesInvariant, FramesInvImplies, PTL

=============================================================================
