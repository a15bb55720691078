------------------------- MODULE CreateDialogProofs -------------------------
(***************************************************************************)
(* Proofs about CreateDialog, for any pages, titles and number of moves:   *)
(* the preview of a settled form is about the URL in its field.            *)
(*                                                                         *)
(* Lookups overlap and their answers come in any order, so what is said of *)
(* the seed alone is not inductive: between the timer and the answer it is *)
(* the lookup in flight that bears the URL, and what tells it from the     *)
(* overtaken ones is its number.                                           *)
(***************************************************************************)
EXTENDS CreateDialog, SequenceTheorems, TLAPS

Lookup == [id : Nat, url : Pages]

Types ==
  /\ form \in [url : Pages \cup {Empty, Bad}, mode : Modes,
               label : Pages \cup {None, Typed}, touched : BOOLEAN,
               ttlOk : BOOLEAN, dismissed : BOOLEAN]
  /\ timer \in Pages \cup {None}
  /\ runs \in Seq(Lookup)
  /\ runId \in Nat
  /\ seed \in [pending : BOOLEAN, result : Pages \cup {None}, failed : BOOLEAN]

\* No two lookups have a number, and lookupRunId is the last one given out.
Numbered ==
  /\ \A k \in 1 .. Len(runs) : runs[k].id <= runId
  /\ \A k, n \in 1 .. Len(runs) : runs[k].id = runs[n].id => k = n

Bound(f) == Single(f) /\ Valid(f)

\* The timer is only armed for the URL of a form that wants a lookup.
TimerFits == timer # None => Bound(form) /\ timer = form.url

Current(k) == runs[k].id = runId

\* What a form that wants a lookup, and has none due, knows of its URL: the
\* answer is on its way and of the runs in flight the last one brings it, or
\* it is there and no run in flight can replace it.
Answered ==
  Bound(form) /\ timer = None =>
    IF seed.pending
    THEN /\ \E k \in 1 .. Len(runs) : Current(k)
         /\ \A k \in 1 .. Len(runs) : Current(k) => runs[k].url = form.url
    ELSE /\ \A k \in 1 .. Len(runs) : ~Current(k)
         /\ seed.result = form.url \/ (seed.failed /\ seed.result = None)

SeedInv == Types /\ Numbered /\ TimerFits /\ Answered

-----------------------------------------------------------------------------
\* Taking an answer out of the queue keeps the others as they were.
LEMMA RemoveAtIs ==
  ASSUME NEW S, NEW s \in Seq(S), NEW i \in 1 .. Len(s)
  PROVE  /\ RemoveAt(s, i) \in Seq(S)
         /\ Len(RemoveAt(s, i)) = Len(s) - 1
         /\ \A k \in 1 .. Len(s) - 1 :
               RemoveAt(s, i)[k] = IF k < i THEN s[k] ELSE s[k + 1]
<1> DEFINE a == SubSeq(s, 1, i - 1)
           b == SubSeq(s, i + 1, Len(s))
<1>1. /\ a \in Seq(S) /\ Len(a) = i - 1
      /\ \A k \in 1 .. i - 1 : a[k] = s[k]
  <2>1. \A k \in 1 .. i - 1 : s[k] \in S BY ElementOfSeq
  <2>2. /\ a \in Seq(S)
        /\ Len(a) = IF 1 <= i - 1 THEN (i - 1) - 1 + 1 ELSE 0
        /\ \A k \in 1 .. (i - 1) - 1 + 1 : a[k] = s[1 + k - 1]
    BY <2>1, SubSeqProperties
  <2>3. QED BY <2>2
<1>2. /\ b \in Seq(S) /\ Len(b) = Len(s) - i
      /\ \A k \in 1 .. Len(s) - i : b[k] = s[k + i]
  <2>1. \A k \in i + 1 .. Len(s) : s[k] \in S BY ElementOfSeq
  <2>2. /\ b \in Seq(S)
        /\ Len(b) = IF i + 1 <= Len(s) THEN Len(s) - (i + 1) + 1 ELSE 0
        /\ \A k \in 1 .. Len(s) - (i + 1) + 1 : b[k] = s[(i + 1) + k - 1]
    BY <2>1, SubSeqProperties
  <2>3. QED BY <2>2
<1> HIDE DEF a, b
<1>3. /\ a \o b \in Seq(S) /\ Len(a \o b) = Len(a) + Len(b)
      /\ \A k \in 1 .. Len(a) + Len(b) :
            (a \o b)[k] = IF k <= Len(a) THEN a[k] ELSE b[k - Len(a)]
  BY <1>1, <1>2, ConcatProperties
<1>4. RemoveAt(s, i) = a \o b BY DEF RemoveAt, a, b
<1>5. \A k \in 1 .. Len(s) - 1 : (a \o b)[k] = IF k < i THEN s[k] ELSE s[k + 1]
  BY <1>1, <1>2, <1>3
<1>6. Len(a \o b) = Len(s) - 1 BY <1>1, <1>2, <1>3
<1>7. QED BY <1>3, <1>4, <1>5, <1>6

LEMMA RunTypes ==
  SeedInv => \A k \in 1 .. Len(runs) : runs[k].id \in Nat /\ runs[k].url \in Pages
<1>1. SeedInv => runs \in Seq(Lookup) BY DEF SeedInv, Types
<1>2. runs \in Seq(Lookup) => \A k \in 1 .. Len(runs) : runs[k] \in Lookup
  BY ElementOfSeq
<1>3. QED BY <1>1, <1>2 DEF Lookup

\* Each run in flight after an answer was there before it.
LEMMA RunsKept ==
  ASSUME SeedInv, NEW i \in 1 .. Len(runs), runs' = RemoveAt(runs, i)
  PROVE  /\ runs' \in Seq(Lookup)
         /\ \A k \in 1 .. Len(runs') :
              \E n \in 1 .. Len(runs) : n # i /\ runs'[k] = runs[n]
         /\ \A n \in 1 .. Len(runs) : n # i =>
              \E k \in 1 .. Len(runs') : runs'[k] = runs[n]
         /\ \A k, n \in 1 .. Len(runs') : runs'[k].id = runs'[n].id => k = n
<1>1. /\ runs' \in Seq(Lookup) /\ Len(runs') = Len(runs) - 1
      /\ \A k \in 1 .. Len(runs') : runs'[k] = IF k < i THEN runs[k] ELSE runs[k + 1]
  <2>1. runs \in Seq(Lookup) BY DEF SeedInv, Types
  <2>2. /\ RemoveAt(runs, i) \in Seq(Lookup)
        /\ Len(RemoveAt(runs, i)) = Len(runs) - 1
        /\ \A k \in 1 .. Len(runs) - 1 :
              RemoveAt(runs, i)[k] = IF k < i THEN runs[k] ELSE runs[k + 1]
    BY <2>1, RemoveAtIs
  <2>3. QED BY <2>2
<1>2. \A k \in 1 .. Len(runs') :
        \E n \in 1 .. Len(runs) : n # i /\ runs'[k] = runs[n]
  <2> TAKE k \in 1 .. Len(runs')
  <2>1. CASE k < i BY <1>1, <2>1
  <2>2. CASE k >= i
    <3>1. k + 1 \in 1 .. Len(runs) /\ k + 1 # i /\ runs'[k] = runs[k + 1] BY <1>1, <2>2
    <3>2. QED BY <3>1
  <2>3. QED BY <2>1, <2>2
<1>3. \A n \in 1 .. Len(runs) : n # i => \E k \in 1 .. Len(runs') : runs'[k] = runs[n]
  <2> TAKE n \in 1 .. Len(runs)
  <2>1. CASE n < i BY <1>1, <2>1
  <2>2. CASE n > i
    <3>1. n - 1 \in 1 .. Len(runs') /\ runs'[n - 1] = runs[n] BY <1>1, <2>2
    <3>2. QED BY <3>1
  <2>3. QED BY <2>1, <2>2
<1>4. \A k, n \in 1 .. Len(runs') : runs'[k].id = runs'[n].id => k = n
  <2> SUFFICES ASSUME NEW k \in 1 .. Len(runs'), NEW n \in 1 .. Len(runs'),
                      runs'[k].id = runs'[n].id
               PROVE  k = n
    OBVIOUS
  <2> DEFINE at(x) == IF x < i THEN x ELSE x + 1
  <2>1. at(k) \in 1 .. Len(runs) /\ at(n) \in 1 .. Len(runs) BY <1>1
  <2>2. runs[at(k)].id = runs[at(n)].id BY <1>1
  <2>3. at(k) = at(n) BY <2>1, <2>2 DEF SeedInv, Numbered
  <2>4. QED BY <2>3
<1>5. QED BY <1>1, <1>2, <1>3, <1>4

-----------------------------------------------------------------------------
(* The steps.                                                              *)

FormType == [url : Pages \cup {Empty, Bad}, mode : Modes,
             label : Pages \cup {None, Typed}, touched : BOOLEAN,
             ttlOk : BOOLEAN, dismissed : BOOLEAN]

\* Steps that neither touch the lookups nor what the form asks of them.
LEMMA SeedStable ==
  ASSUME SeedInv, form' \in FormType,
         form'.url = form.url, Bound(form') <=> Bound(form),
         UNCHANGED <<timer, runs, runId, seed>>
  PROVE  SeedInv'
BY DEF SeedInv, Types, FormType, Numbered, TimerFits, Answered, Current

\* Steps after which no lookup is wanted, and those overtaken are left alone.
LEMMA NothingWanted ==
  ASSUME SeedInv, form' \in FormType, ~Bound(form)', timer' = None,
         seed' = NoSeed, runId' \in {runId, runId + 1}, runs' = runs
  PROVE  SeedInv'
<1>1. Types' BY DEF SeedInv, Types, FormType, NoSeed
<1>2. Numbered'
  <2>1. \A k \in 1 .. Len(runs) : runs[k].id \in Nat
    BY RunTypes
  <2>2. QED BY <2>1 DEF SeedInv, Numbered, Types
<1>3. QED BY <1>1, <1>2 DEF SeedInv, TimerFits, Answered, Bound

\* The watcher, whatever the URL or mode has become.
LEMMA ScheduleKeeps ==
  ASSUME SeedInv, form' \in FormType, ScheduleLookup(form'), runs' = runs
  PROVE  SeedInv'
<1>1. CASE Bound(form')
  <2>1. timer' = form'.url /\ UNCHANGED <<runId, seed>>
    BY <1>1 DEF ScheduleLookup, Bound
  <2>2. timer' \in Pages /\ timer' # None
    BY <1>1, <2>1, CreateAssumption DEF Bound, Valid
  <2>3. Types' /\ Numbered' BY <2>1, <2>2 DEF SeedInv, Types, FormType, Numbered
  <2>4. TimerFits' /\ Answered' BY <1>1, <2>1, <2>2 DEF TimerFits, Answered, Bound, Single, Valid
  <2>5. QED BY <2>3, <2>4 DEF SeedInv
<1>2. CASE ~Bound(form')
  <2>1. timer' = None /\ seed' = NoSeed /\ runId' = runId
    BY <1>2 DEF ScheduleLookup, Bound
  <2>2. ~Bound(form)' BY <1>2 DEF Bound, Single, Valid
  <2>3. QED BY <2>1, <2>2, NothingWanted
<1>3. QED BY <1>1, <1>2

\* The timer fires: from here on the lookup that starts is the one that counts.
LEMMA RunLookupKeeps == SeedInv /\ RunLookup => SeedInv'
<1> SUFFICES ASSUME SeedInv, RunLookup PROVE SeedInv' OBVIOUS
<1> DEFINE run == [id |-> runId + 1, url |-> timer]
<1>1. runs \in Seq(Lookup) /\ runId \in Nat /\ timer \in Pages
  BY DEF SeedInv, Types, RunLookup
<1>2. run \in Lookup BY <1>1 DEF Lookup
<1>3. runs' = Append(runs, run) BY DEF RunLookup
<1> HIDE DEF run
<1>4. /\ runs' \in Seq(Lookup) /\ Len(runs') = Len(runs) + 1
      /\ \A k \in 1 .. Len(runs) : runs'[k] = runs[k]
      /\ runs'[Len(runs) + 1] = run
  BY <1>1, <1>2, <1>3, AppendProperties
<1>5. run.id = runId + 1 /\ run.url = timer BY DEF run
<1>6. UNCHANGED form /\ timer' = None /\ runId' = runId + 1
  BY DEF RunLookup
<1>7. seed' = [seed EXCEPT !.pending = TRUE, !.failed = FALSE] BY DEF RunLookup
<1>8. Types'
  <2>1. seed' \in [pending : BOOLEAN, result : Pages \cup {None}, failed : BOOLEAN]
    BY <1>7 DEF SeedInv, Types
  <2>2. QED BY <2>1, <1>1, <1>4, <1>6 DEF SeedInv, Types
<1>9. \A k \in 1 .. Len(runs) : runs[k].id \in Nat /\ runs[k].id <= runId
  BY RunTypes DEF SeedInv, Numbered
<1>10. \A k \in 1 .. Len(runs) : runs'[k].id # runId + 1
  BY <1>1, <1>4, <1>9
<1>11. Len(runs) \in Nat BY <1>1
<1>12. Numbered'
  <2>1. \A k \in 1 .. Len(runs') : k \in 1 .. Len(runs) \/ k = Len(runs) + 1
    BY <1>4, <1>11
  <2>2. \A k \in 1 .. Len(runs') : runs'[k].id <= runId'
    BY <2>1, <1>1, <1>4, <1>5, <1>6, <1>9
  <2>3. \A k, n \in 1 .. Len(runs') : runs'[k].id = runs'[n].id => k = n
    BY <2>1, <1>4, <1>5, <1>10 DEF SeedInv, Numbered
  <2>4. QED BY <2>2, <2>3 DEF Numbered
<1>13. Answered'
  <2>1. seed'.pending BY <1>7 DEF SeedInv, Types
  <2>2. \E k \in 1 .. Len(runs') : Current(k)'
    <3>1. Len(runs) + 1 \in 1 .. Len(runs') BY <1>4, <1>11
    <3>2. runs'[Len(runs) + 1].id = runId' BY <1>4, <1>5, <1>6
    <3>3. QED BY <3>1, <3>2 DEF Current
  <2>3. \A k \in 1 .. Len(runs') : Current(k)' => runs'[k].url = form'.url
    <3>1. timer = form.url BY DEF SeedInv, TimerFits, RunLookup
    <3>2. \A k \in 1 .. Len(runs') : Current(k)' => k = Len(runs) + 1
      BY <1>4, <1>6, <1>10, <1>11 DEF Current
    <3>3. QED BY <3>1, <3>2, <1>4, <1>5, <1>6
  <2>4. QED BY <2>1, <2>2, <2>3 DEF Answered
<1>14. QED BY <1>6, <1>8, <1>12, <1>13 DEF SeedInv, TimerFits

\* An answer: of an overtaken lookup it changes nothing, and the one that
\* counts is the only one with its number.
LEMMA LookedUpKeeps ==
  ASSUME SeedInv, NEW i \in 1 .. Len(runs), NEW found \in BOOLEAN, LookedUp(i, found)
  PROVE  SeedInv'
<1>0. runs \in Seq(Lookup) /\ runs[i].url \in Pages
  BY RunTypes DEF SeedInv, Types
<1>1. runs' = RemoveAt(runs, i) /\ UNCHANGED <<timer, runId>> BY DEF LookedUp
<1>2. /\ runs' \in Seq(Lookup)
      /\ \A k \in 1 .. Len(runs') :
           \E n \in 1 .. Len(runs) : n # i /\ runs'[k] = runs[n]
      /\ \A n \in 1 .. Len(runs) : n # i =>
           \E k \in 1 .. Len(runs') : runs'[k] = runs[n]
      /\ \A k, n \in 1 .. Len(runs') : runs'[k].id = runs'[n].id => k = n
  BY <1>1, RunsKept
<1>3. Numbered' BY <1>1, <1>2 DEF SeedInv, Numbered
<1>4. CASE ~Current(i)
  <2>1. UNCHANGED <<seed, form>> BY <1>4 DEF LookedUp, Current
  <2>2. Types' /\ TimerFits' BY <1>1, <1>2, <2>1 DEF SeedInv, Types, TimerFits
  <2>3. Answered'
    <3>1. \A k \in 1 .. Len(runs') : Current(k)' =>
            \E n \in 1 .. Len(runs) : runs'[k] = runs[n] /\ Current(n)
      <4> TAKE k \in 1 .. Len(runs')
      <4>1. PICK n \in 1 .. Len(runs) : runs'[k] = runs[n] BY <1>2
      <4>2. runId' = runId BY <1>1
      <4>3. QED BY <4>1, <4>2 DEF Current
    <3>2. (\E n \in 1 .. Len(runs) : Current(n)) => \E k \in 1 .. Len(runs') : Current(k)'
      <4> SUFFICES ASSUME NEW n \in 1 .. Len(runs), Current(n)
                   PROVE  \E k \in 1 .. Len(runs') : Current(k)'
        OBVIOUS
      <4>1. n # i BY <1>4
      <4>2. PICK k \in 1 .. Len(runs') : runs'[k] = runs[n] BY <1>2, <4>1
      <4>3. runId' = runId BY <1>1
      <4>4. QED BY <4>2, <4>3 DEF Current
    <3>3. Bound(form)' = Bound(form) /\ timer' = timer BY <1>1, <2>1 DEF Bound, Single, Valid
    <3>4. QED BY <2>1, <3>1, <3>2, <3>3 DEF SeedInv, Answered
  <2>4. QED BY <1>3, <2>2, <2>3 DEF SeedInv
<1>5. CASE Current(i)
  <2>1. Take(found, runs[i].url) BY <1>5 DEF LookedUp, Current
  <2>2. \A k \in 1 .. Len(runs') : ~Current(k)'
    BY <1>1, <1>2, <1>5 DEF Current, SeedInv, Numbered
  <2>3. /\ form' \in FormType /\ form'.url = form.url
        /\ Bound(form') <=> Bound(form)
    BY <1>0, <2>1 DEF Take, Fill, SeedInv, Types, FormType, Bound, Single, Valid
  <2>4. /\ seed' \in [pending : BOOLEAN, result : Pages \cup {None}, failed : BOOLEAN]
        /\ ~seed'.pending
        /\ seed'.result = runs[i].url \/ (seed'.failed /\ seed'.result = None)
    <3>1. CASE found
      <4>1. seed' = [seed EXCEPT !.pending = FALSE, !.result = runs[i].url]
        BY <2>1, <3>1 DEF Take
      <4>2. QED BY <1>0, <4>1 DEF SeedInv, Types
    <3>2. CASE ~found
      <4>1. seed' = [pending |-> FALSE, result |-> None, failed |-> TRUE]
        BY <2>1, <3>2 DEF Take
      <4>2. QED BY <4>1
    <3>3. QED BY <3>1, <3>2
  <2>5. Types' BY <1>1, <1>2, <2>3, <2>4 DEF SeedInv, Types, FormType
  <2>6. TimerFits' BY <1>1, <2>3 DEF SeedInv, TimerFits
  <2>7. Answered'
    <3>1. Bound(form) /\ timer = None => runs[i].url = form.url
      BY <1>5 DEF SeedInv, Answered
    <3>2. QED BY <1>1, <2>2, <2>3, <2>4, <3>1 DEF Answered
  <2>8. QED BY <1>3, <2>5, <2>6, <2>7 DEF SeedInv
<1>6. QED BY <1>4, <1>5


-----------------------------------------------------------------------------
LEMMA FormTyped == SeedInv => form \in FormType
BY DEF SeedInv, Types, FormType

\* The owner's edits of the fields.
LEMMA EditKeeps ==
  ASSUME SeedInv,
         \/ \E url \in Pages \cup {Empty, Bad} : TypeUrl(url)
         \/ \E mode \in Modes : OnModeChange(mode)
         \/ OnLabelInput \/ SetTtl
         \/ ApplyFreeformSuggestion \/ DismissSuggestion
  PROVE  SeedInv'
<1>0. form \in FormType BY FormTyped
<1>1. ASSUME NEW url \in Pages \cup {Empty, Bad}, TypeUrl(url) PROVE SeedInv'
  <2>1. form' \in FormType BY <1>0, <1>1 DEF TypeUrl, FormType
  <2>2. QED BY <1>1, <2>1, ScheduleKeeps DEF TypeUrl
<1>2. ASSUME NEW mode \in Modes, OnModeChange(mode) PROVE SeedInv'
  <2>1. form' \in FormType BY <1>0, <1>2 DEF OnModeChange, FormType
  <2>2. CASE mode = "single" BY <1>2, <2>1, <2>2, ScheduleKeeps DEF OnModeChange
  <2>3. CASE mode # "single"
    <3>1. form'.mode # "single" BY <1>0, <1>2, <2>3 DEF OnModeChange, FormType
    <3>2. ~Bound(form)' BY <3>1 DEF Bound, Single
    <3>3. timer' = None /\ runId' = runId + 1 /\ seed' = NoSeed /\ runs' = runs
      BY <1>2, <2>3 DEF OnModeChange, ResetSeedState
    <3>4. QED BY <2>1, <3>2, <3>3, NothingWanted
  <2>4. QED BY <2>2, <2>3
<1>3. CASE OnLabelInput
  <2>1. /\ form' \in FormType /\ form'.url = form.url /\ form'.mode = form.mode
        /\ UNCHANGED <<timer, runs, runId, seed>>
    BY <1>0, <1>3 DEF OnLabelInput, FormType
  <2>2. QED BY <2>1, SeedStable DEF Bound, Single, Valid
<1>4. CASE SetTtl
  <2>1. /\ form' \in FormType /\ form'.url = form.url /\ form'.mode = form.mode
        /\ UNCHANGED <<timer, runs, runId, seed>>
    BY <1>0, <1>4 DEF SetTtl, FormType
  <2>2. QED BY <2>1, SeedStable DEF Bound, Single, Valid
<1>5. CASE ApplyFreeformSuggestion
  <2>1. /\ form' \in FormType /\ form'.url = form.url /\ form'.mode = "freeform"
        /\ UNCHANGED <<timer, runs, runId, seed>>
    BY <1>0, <1>5 DEF ApplyFreeformSuggestion, FormType, Modes
  <2>2. form.mode = "default" BY <1>5 DEF ApplyFreeformSuggestion, ShowSuggestion
  <2>3. QED BY <2>1, <2>2, SeedStable DEF Bound, Single, Valid
<1>6. CASE DismissSuggestion
  <2>1. /\ form' \in FormType /\ form'.url = form.url /\ form'.mode = form.mode
        /\ UNCHANGED <<timer, runs, runId, seed>>
    BY <1>0, <1>6 DEF DismissSuggestion, FormType
  <2>2. QED BY <2>1, SeedStable DEF Bound, Single, Valid
<1>7. QED BY <1>1, <1>2, <1>3, <1>4, <1>5, <1>6

LEMMA StepKeepsSeed == SeedInv /\ [Next]_vars => SeedInv'
<1> SUFFICES ASSUME SeedInv, [Next]_vars PROVE SeedInv' OBVIOUS
<1>1. CASE Open
  <2>1. form' = Blank /\ timer' = None /\ runId' = runId + 1 /\ seed' = NoSeed /\ runs' = runs
    BY <1>1 DEF Open, ResetSeedState
  <2>2. form' \in FormType /\ ~Bound(form)'
    BY <2>1 DEF Blank, FormType, Bound, Single, Modes
  <2>3. QED BY <2>1, <2>2, NothingWanted
<1>2. CASE \/ Close \/ Submit \/ (\E ok \in BOOLEAN : Created(ok)) \/ UNCHANGED vars
  <2>1. UNCHANGED <<form, timer, runs, runId, seed>>
    BY <1>2 DEF Close, Submit, Created, vars
  <2>2. QED BY <2>1, FormTyped, SeedStable
<1>3. CASE \/ \E url \in Pages \cup {Empty, Bad} : TypeUrl(url)
           \/ \E mode \in Modes : OnModeChange(mode)
           \/ OnLabelInput \/ SetTtl
           \/ ApplyFreeformSuggestion \/ DismissSuggestion
  BY <1>3, EditKeeps
<1>4. CASE RunLookup BY <1>4, RunLookupKeeps
<1>5. CASE \E i \in 1 .. Len(runs), found \in BOOLEAN : LookedUp(i, found)
  BY <1>5, LookedUpKeeps
<1>6. QED BY <1>1, <1>2, <1>3, <1>4, <1>5 DEF Next

LEMMA InitSeed == Init => SeedInv
<1> SUFFICES ASSUME Init PROVE SeedInv OBVIOUS
<1>1. runs \in Seq(Lookup) /\ Len(runs) = 0 BY DEF Init
<1>2. ~Bound(form) BY DEF Init, Blank, Bound, Single
<1>3. QED
  BY <1>1, <1>2 DEF Init, Blank, Modes, NoSeed, SeedInv, Types, Numbered, TimerFits, Answered

LEMMA SeedInvariant == Spec => []SeedInv
<1>1. QED BY InitSeed, StepKeepsSeed, PTL DEF Spec

\* With no lookup due and none pending, the preview of a valid single-mode form
\* is about the URL in the field or says that it failed, for any order of the
\* answers (scheduleLookup, runLookup and its token in RoomCreateDialog.vue).
THEOREM PreviewFollowsTheUrl == Spec => []PreviewIsTheUrl
<1>1. SeedInv => PreviewIsTheUrl
  BY DEF SeedInv, Answered, Bound, PreviewIsTheUrl
<1>2. QED BY <1>1, SeedInvariant, PTL

=============================================================================
