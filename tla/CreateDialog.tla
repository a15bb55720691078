---------------------------- MODULE CreateDialog ----------------------------
(***************************************************************************)
(* The form that creates a room.  In single mode the room is locked to one *)
(* video, so the form looks the typed URL up on the server: 400 ms after   *)
(* the last change a lookup starts, and its answer fills the preview, the  *)
(* title and the entry that is sent with the form.  Lookups may overlap    *)
(* and their answers may come back in any order.                           *)
(***************************************************************************)
EXTENDS Naturals, Sequences, FiniteSets, SequencesExt

CONSTANTS
    Pages,     \* addresses of pages
    Titled,    \* those of them whose page has a title
    Films,     \* those of them that look like a standalone video
    Empty, Bad,    \* an empty field, and one that is not an http(s) URL
    None, Typed,   \* no value; a title that the owner typed
    MaxMoves   \* bound: moves of the owner, failed calls

ASSUME CreateAssumption ==
    /\ Titled \subseteq Pages /\ Films \subseteq Pages
    /\ Cardinality({Empty, Bad, None, Typed}) = 4
    /\ {Empty, Bad, None, Typed} \cap Pages = {}
    /\ MaxMoves \in Nat

VARIABLES
    open,
    form,    \* the fields: url, mode, label and whether it was typed, the time
             \* to live is in range, the suggestion was dismissed
    timer,   \* the URL that the debounce timer will look up
    runs,    \* the lookups in flight, in the order they started
    runId,   \* lookupRunId
    seed,    \* pending, result (the page it is about) and failed
    post,    \* the creation in flight
    made,    \* the creations that were sent
    moves

vars == <<open, form, timer, runs, runId, seed, post, made, moves>>

Modes == {"default", "single", "freeform"}
Blank == [url |-> Empty, mode |-> "default", label |-> None, touched |-> FALSE,
          ttlOk |-> TRUE, dismissed |-> FALSE]
NoSeed == [pending |-> FALSE, result |-> None, failed |-> FALSE]

Init ==
    /\ open = FALSE /\ form = Blank /\ timer = None
    /\ runs = <<>> /\ runId = 0 /\ seed = NoSeed
    /\ post = None /\ made = {} /\ moves = 0

Tick == moves < MaxMoves /\ moves' = moves + 1

----------------------------------------------------------------------------
(* What the form computes.                                                 *)

Valid(f) == f.url \in Pages
Single(f) == f.mode = "single"

CanSubmit ==
    /\ open /\ Valid(form) /\ form.ttlOk /\ post = None
    /\ Single(form) => seed.result # None /\ ~seed.pending

\* suggestMode, and whether the note that offers freeform mode is there.
ShowSuggestion ==
    open /\ form.url \in Films /\ form.mode = "default" /\ ~form.dismissed

----------------------------------------------------------------------------
(* The seed.                                                               *)

ResetSeedState == timer' = None /\ runId' = runId + 1 /\ seed' = NoSeed

\* Mutant: the timer is cleared, but only armed if there was none.
ScheduleLookupOnce(f) ==
    IF Single(f) /\ Valid(f)
    THEN timer' = (IF timer = None THEN f.url ELSE None) /\ UNCHANGED <<runId, seed>>
    ELSE timer' = None /\ seed' = NoSeed /\ UNCHANGED runId

\* The watcher of URL and mode, on the form as it now is.
ScheduleLookup(f) ==
    IF Single(f) /\ Valid(f) THEN timer' = f.url /\ UNCHANGED <<runId, seed>>
    ELSE timer' = None /\ seed' = NoSeed /\ UNCHANGED runId

RunLookup ==
    /\ timer # None
    /\ timer' = None
    /\ runs' = Append(runs, [id |-> runId + 1, url |-> timer])
    /\ runId' = runId + 1
    /\ seed' = [seed EXCEPT !.pending = TRUE, !.failed = FALSE]
    /\ UNCHANGED <<open, form, post, made, moves>>

\* lookupMetadata answers null for a failure of any kind.
Fill(f, url) ==
    IF ~f.touched /\ url \in Titled THEN [f EXCEPT !.label = url] ELSE f

Take(found, url) ==
    IF found THEN seed' = [seed EXCEPT !.pending = FALSE, !.result = url]
                  /\ form' = Fill(form, url)
    ELSE seed' = [pending |-> FALSE, result |-> None, failed |-> TRUE]
         /\ UNCHANGED form

\* Mutant: the token is not looked at.
LookedUpAny(i, found) ==
    /\ IF found THEN UNCHANGED moves ELSE Tick
    /\ runs' = RemoveAt(runs, i)
    /\ Take(found, runs[i].url)
    /\ UNCHANGED <<open, timer, runId, post, made>>

LookedUp(i, found) ==
    /\ IF found THEN UNCHANGED moves ELSE Tick
    /\ runs' = RemoveAt(runs, i)
    /\ IF runs[i].id = runId THEN Take(found, runs[i].url)
       ELSE UNCHANGED <<seed, form>>
    /\ UNCHANGED <<open, timer, runId, post, made>>

----------------------------------------------------------------------------
(* The owner.                                                              *)

Open ==
    /\ ~open /\ Tick /\ open' = TRUE
    /\ form' = Blank /\ ResetSeedState
    /\ UNCHANGED <<runs, post, made>>

\* Not while a creation is in flight.
Close ==
    /\ open /\ post = None /\ open' = FALSE
    /\ UNCHANGED <<form, timer, runs, runId, seed, post, made, moves>>

TypeUrl(url) ==
    /\ open /\ url # form.url /\ Tick
    /\ form' = [form EXCEPT !.url = url, !.dismissed = FALSE]
    /\ ScheduleLookup(form')
    /\ UNCHANGED <<open, runs, post, made>>

\* onModeChange, then the watcher if single mode went on or off.
OnModeChange(mode) ==
    /\ open /\ mode # form.mode /\ Tick
    /\ IF mode = "single"
       THEN form' = [form EXCEPT !.mode = mode] /\ ScheduleLookup(form')
       ELSE /\ form' = [form EXCEPT !.mode = mode, !.label = None, !.touched = FALSE]
            /\ ResetSeedState
    /\ UNCHANGED <<open, runs, post, made>>

ApplyFreeformSuggestion ==
    /\ ShowSuggestion /\ Tick
    /\ form' = [form EXCEPT !.mode = "freeform", !.dismissed = TRUE]
    /\ UNCHANGED <<open, timer, runs, runId, seed, post, made>>

DismissSuggestion ==
    /\ ShowSuggestion
    /\ form' = [form EXCEPT !.dismissed = TRUE]
    /\ UNCHANGED <<open, timer, runs, runId, seed, post, made, moves>>

OnLabelInput ==
    /\ open /\ Single(form) /\ Tick
    /\ form' = [form EXCEPT !.label = Typed, !.touched = TRUE]
    /\ UNCHANGED <<open, timer, runs, runId, seed, post, made>>

\* A preset or a custom time to live, in range or not.
SetTtl ==
    /\ open /\ Tick
    /\ form' = [form EXCEPT !.ttlOk = ~@]
    /\ UNCHANGED <<open, timer, runs, runId, seed, post, made>>

Submit ==
    /\ CanSubmit
    /\ post' = [url |-> form.url, mode |-> form.mode,
                entry |-> IF Single(form) THEN seed.result ELSE None,
                label |-> IF Single(form) THEN form.label ELSE None]
    /\ made' = made \cup {post'}
    /\ UNCHANGED <<open, form, timer, runs, runId, seed, moves>>

Created(ok) ==
    /\ post # None
    /\ IF ok THEN UNCHANGED moves ELSE Tick
    /\ post' = None
    /\ open' = (open /\ ~ok)
    /\ UNCHANGED <<form, timer, runs, runId, seed, made>>

----------------------------------------------------------------------------
Next ==
    \/ Open \/ Close \/ SetTtl \/ OnLabelInput \/ Submit \/ RunLookup
    \/ \E url \in Pages \cup {Empty, Bad} : TypeUrl(url)
    \/ \E mode \in Modes : OnModeChange(mode)
    \/ ApplyFreeformSuggestion \/ DismissSuggestion
    \/ \E i \in 1 .. Len(runs), found \in BOOLEAN : LookedUp(i, found)
    \/ \E ok \in BOOLEAN : Created(ok)

Spec == Init /\ [][Next]_vars

\* The timer fires and the server answers; the owner owes nothing.
FairSpec ==
    /\ Spec
    /\ WF_vars(RunLookup)
    /\ WF_vars(Len(runs) > 0 /\ \E found \in BOOLEAN : LookedUp(1, found))
    /\ WF_vars(\E ok \in BOOLEAN : Created(ok))

----------------------------------------------------------------------------
\* Once no lookup is due and none that counts is in flight, the preview of a
\* form in single mode is about the URL in the field, or says that it failed,
\* whichever of the lookups made on the way answered last.
PreviewIsTheUrl ==
    (open /\ Single(form) /\ Valid(form) /\ timer = None /\ ~seed.pending) =>
    seed.result = form.url \/ (seed.failed /\ seed.result = None)

\* A form that stays in single mode with a valid URL comes to a preview that
\* is about it, or to the note that there is none.
PreviewComes ==
    <>[](open /\ Single(form) /\ Valid(form)) =>
    <>[](seed.result = form.url \/ seed.failed)

\* A room locked to one video is locked to the video of its URL.
SeedIsTheUrl == \A p \in made : p.mode = "single" => p.entry = p.url
=============================================================================
