----------------------------- MODULE OverlaySurface -----------------------------
(***************************************************************************)
(* The overlay's window: the owner of the surface's life                   *)
(* (src/kotonoha/platform/surface_lifecycle.py), its geometry, position,    *)
(* drag and input region (src/kotonoha/ui/overlay/{surface,position,drag,   *)
(* geometry}.py) and the window's event handlers (ui/overlay/window.py),    *)
(* over one of the adapters of OverlayPlatform.  Each event of the toolkit  *)
(* is one action, with everything it calls synchronously: a drag that ends  *)
(* rebuilds the surface, shows it, saves the place and applies it.          *)
(*                                                                         *)
(* Outputs come and go, bridge calls fail, the content changes its height,  *)
(* settings change, and the application shuts the overlay down.            *)
(***************************************************************************)
EXTENDS OverlayPlatform, Sequences

CONSTANTS
    Displays,       \* the outputs, in the order the toolkit lists them
    Gone,           \* the object of an output that was removed
    Sessions,       \* the sessions the program is started in
    Heights,        \* the heights the content may take
    Margins,        \* the distances from the edge that settings offer
    Configs,        \* the settings the program is started with
    NoPlacement, NoMargin,
    MaxFaults,      \* calls that raise
    MaxEvents       \* drags, outputs unplugged, clicks, settings, new heights, shutdowns

VARIABLES
    overlay,        \* the window and all that it owns, a record
    budget          \* what the environment may still do

vars == <<overlay, budget>>

Outputs == {Displays[i] : i \in DOMAIN Displays}

\* What stands for an output that is not there, or not any more, is none.
ASSUME OutputsAssumption ==
    /\ Displays \in Seq(Outputs)
    /\ NoOutput \notin Outputs \cup {Gone} /\ Gone \notin Outputs

\* The settings hold all that the overlay reads of them.
ASSUME ConfigsAssumption ==
    \A config \in Configs :
        /\ DOMAIN config = {"top", "margin", "screen", "passthrough"}
        /\ config.margin \in Int

\* Heights and distances are numbers of pixels.
ASSUME PixelsAssumption ==
    /\ Heights \in SUBSET Nat /\ Heights # {}
    /\ Margins \in SUBSET Int

ASSUME BoundsAssumption == MaxFaults \in Nat /\ MaxEvents \in Nat

\* The first of a set of outputs, as the toolkit lists them.
FirstOf(S) ==
    IF S = {} THEN NoOutput
    ELSE Displays[CHOOSE i \in DOMAIN Displays :
                      Displays[i] \in S /\ \A j \in 1 .. i - 1 : Displays[j] \notin S]

-------------------------------------------------------------------------------
(* Geometry: outputs and places.                                           *)

Configured(o) == IF o.config.screen \in o.connected THEN o.config.screen ELSE NoOutput

\* The first usable output of the one in use, the configured one, the widget's and
\* the primary one.  An output that returns is a new object, which the one in use
\* is not.
TargetScreen(o, inUse) ==
    IF inUse \in o.connected THEN inUse
    ELSE IF Configured(o) # NoOutput THEN Configured(o)
    ELSE IF o.screen \in o.connected THEN o.screen
    ELSE FirstOf(o.connected)

\* The output to work on, which is the one in use from then on.
Target(o) == TargetScreen(o, IF o.chosen # NoOutput THEN o.chosen ELSE o.selected)

Aimed(o) == [o EXCEPT !.selected = Target(o)]

\* The configured output of those connected, or else the first.
Preferred(o) == IF Configured(o) # NoOutput THEN Configured(o) ELSE FirstOf(o.connected)

\* The output that the place belongs to: the configured one, until a drag is committed.
UpdateGeometry(o) == [o EXCEPT !.home = o.config.screen, !.homeMargin = NoMargin]
RecordCommit(o, commit) == [o EXCEPT !.home = commit.screen, !.homeMargin = commit.margin]

\* After a drag a strip must remain visible; elsewhere the whole surface.
Clamped(y, h, partial) ==
    Between(0, y, IF partial THEN ScreenHeight - Strip
                  ELSE IF h > ScreenHeight THEN 0 ELSE ScreenHeight - h)

\* The place the configuration, or a drag since, gives the surface.
LayerPlace(o, output) ==
    LET home == output # NoOutput /\ o.home = output
        margin == IF home /\ o.homeMargin # NoMargin THEN o.homeMargin ELSE o.config.margin
    IN  Clamped(IF o.config.top THEN margin ELSE ScreenHeight - o.content - margin,
                o.content, home)

\* The distance from the edge that is saved for a place.
EdgeMargin(o, y) ==
    Between(0, IF o.config.top THEN y ELSE ScreenHeight - o.content - y, ScreenHeight)

Bound(o, output) == IF output = NoOutput THEN o ELSE [o EXCEPT !.screen = output]

-------------------------------------------------------------------------------
(* The input region: the panel, or the lock button while locked.           *)

WantedRegion(o) == <<IF o.locked THEN "lock" ELSE "panel", o.content>>

\* Only a region that differs from the last one accepted is submitted.
ApplyInputRegion(o) ==
    LET region == WantedRegion(o)
        Known(r) == IF Succeeded(r) THEN [r EXCEPT !.o.region = region, !.o.sure = TRUE] ELSE r
    IN  IF o.sure /\ region = o.region THEN Applied(o) ELSE Known(SetInput(o, region))

SetInputMode(o, locked) ==
    ApplyInputRegion([o EXCEPT !.sure = @ /\ locked = o.locked, !.locked = locked])

-------------------------------------------------------------------------------
(* Geometry of the widget.                                                 *)

\* The window takes the content's height on its output; Layer Shell is placed by
\* activation, an ordinary window here.
ApplyWindowGeometry(o, reset) ==
    LET Sized(a) == [Bound(a, a.selected) EXCEPT
                        !.height = a.content,
                        !.resize = @ \/ a.height # a.content,
                        !.layer = IF reset THEN LayerPlace(a, a.selected) ELSE @]
        Placed(w) == IF w.kind # "window" THEN w ELSE MoveTo(w, w.selected, w.layer).o
        On(a) == IF a.selected = NoOutput THEN a ELSE Placed(Sized(a))
    IN  On(Aimed(o))

\* Mutant: the surface moves, and the place it moved to is not recorded.
ResizeContentForgetful(o) ==
    LET y == IF o.config.top THEN o.layer ELSE o.layer + o.height - o.content
    IN  IF o.content = o.height THEN Aimed(o)
        ELSE [MoveTo(Aimed(o), Target(o), y).o EXCEPT !.height = o.content]

\* The content's height changes under the edge it is anchored to.  A size that
\* could not be placed is rolled back, and not tried again until it changes.
ResizeContent(o) ==
    LET y == IF o.config.top THEN o.layer ELSE o.layer + o.height - o.content
        Placed(r) == IF Succeeded(r) THEN [r.o EXCEPT !.layer = y]
                     ELSE [r.o EXCEPT !.rejected = o.content, !.height = o.height]
        Resized(a) == IF a.content = a.height THEN a
                      ELSE IF ~Positions(a) THEN [a EXCEPT !.height = a.content]
                      ELSE Placed(MoveTo([a EXCEPT !.height = a.content], a.selected, y))
        On(a) == IF a.selected = NoOutput \/ a.content = a.rejected THEN a
                 ELSE Resized([a EXCEPT !.rejected = 0])
    IN  On(Aimed(o))

-------------------------------------------------------------------------------
(* Configuration.                                                          *)

Ending(o) == o.closed \/ o.closing

ApplyConfig(o) ==
    LET updated == UpdateGeometry([o EXCEPT !.rejected = 0])
        locked == SetInputMode(updated, o.config.passthrough).o
        output == IF Configured(o) # NoOutput THEN Configured(o)
                  ELSE IF o.chosen # NoOutput THEN o.chosen
                  ELSE o.screen
        aimed == [locked EXCEPT !.passthrough = o.config.passthrough, !.selected = output]
    IN  IF Ending(o) THEN o
        ELSE [ApplyWindowGeometry(aimed, TRUE) EXCEPT !.resize = TRUE]

\* A placement is saved, and the saved configuration applied.
Save(o, commit) ==
    ApplyConfig([o EXCEPT !.config.margin = commit.margin, !.config.screen = commit.screen])

CommitPosition(o, commit) ==
    [RecordCommit(o, commit) EXCEPT
        !.layer = commit.y, !.selected = commit.object, !.chosen = commit.object]

-------------------------------------------------------------------------------
(* Showing.                                                                *)

Show(o) ==
    LET shown == [Held(o) EXCEPT !.visible = TRUE, !.native.output = o.screen]
        placed == ApplyWindowGeometry([shown EXCEPT !.keep = FALSE], ~o.keep)
    IN  IF o.visible THEN o
        ELSE IF Ending(o) THEN shown
        ELSE [placed EXCEPT !.soon = TRUE, !.later = TRUE]

-------------------------------------------------------------------------------
(* The surface's life.                                                     *)

Closing(o) == o.state \in {"closing", "closed"}

PrepareLife(o) ==
    LET r == Prepare(o)
    IN  IF Closing(o) THEN Rejected(o)
        ELSE IF o.state \in {"prepared", "active", "rebinding"} THEN Applied(o)
        ELSE [r EXCEPT !.o.state = IF Succeeded(r) THEN "prepared" ELSE "degraded"]

\* A retry is only armed for a pending output.
ScheduleRetry(o) ==
    [o EXCEPT !.retry = @ \/ (o.state \in {"rebinding", "degraded"} /\ o.pending # NoOutput)]

Degraded(r) ==
    LET o == [r.o EXCEPT !.state = "degraded"]
    IN  [r EXCEPT !.o = IF Retryable(r) THEN ScheduleRetry(o) ELSE o]

\* The old surface is released once per rebuild.
FreeForRebind(o) ==
    LET Freed(r) == [r EXCEPT !.o.free = Succeeded(r)]
    IN  IF o.free THEN Applied(o)
        ELSE IF ~Layered(o) THEN Unsupported(o)
        ELSE Freed(ReleaseSurface(o))

\* The output of the place that waits was removed: asking its object for the name, as
\* every rebuild does first of all, raises.
Orphaned(o) == o.placing # NoPlacement /\ o.placing.object = Gone

\* Nobody catches that.  It ends the event's handler, before the lifecycle has taken
\* the rebuild for a failed one.
Raised(o) == [o |-> o, is |-> "raised"]
Raises(r) == r.is = "raised"

\* The place a rebuilt surface gets: that of the drag that waits for this output,
\* or the configured one.
BeginRebuild(o, output) ==
    LET waiting == o.placing # NoPlacement /\ o.placing.screen = output
    IN  [o EXCEPT !.layer = IF waiting THEN o.placing.y ELSE LayerPlace(o, output),
                  !.keep = waiting, !.selected = output]

\* A rebuild that failed halfway is released again.
Undone(r) ==
    LET After(released) ==
            IF Succeeded(released) THEN [released EXCEPT !.is = r.is] ELSE Failed(released.o)
    IN  After(ReleaseSurface(r.o))

\* Mutant: a rebuilt surface is trusted to have the region of the old one.
RebuildTrustingRegion(o, output) ==
    LET begun == Bound([BeginRebuild(o, output) EXCEPT !.height = o.content], output)
        placed == AndThen(Promote(begun), LAMBDA w : MoveTo(w, output, w.layer))
        shaped == AndThen(placed, ApplyInputRegion)
        Finished(r) == IF Succeeded(r) THEN r ELSE Undone(r)
    IN  IF output \notin o.connected THEN Rejected(o)
        ELSE IF Orphaned(o) THEN Raised(o)
        ELSE Finished(AndThen(shaped, SetBlur))

RebuildSurface(o, output) ==
    LET unsure == [o EXCEPT !.sure = FALSE]
        begun == Bound([BeginRebuild(unsure, output) EXCEPT !.height = o.content], output)
        placed == AndThen(Promote(begun), LAMBDA w : MoveTo(w, output, w.layer))
        shaped == AndThen(placed, ApplyInputRegion)
        Finished(r) == IF Succeeded(r) THEN r ELSE Undone(r)
    IN  IF output \notin o.connected THEN Rejected(unsure)
        ELSE IF Orphaned(o) THEN Raised(unsure)
        ELSE Finished(AndThen(shaped, SetBlur))

\* Mutant: a rebuilt surface is not shown.
CompleteRebindHidden(o, output, dragging) ==
    LET waiting == o.placing # NoPlacement /\ o.placing.screen = output
        commit == o.placing
        committed == [CommitPosition(o, commit) EXCEPT !.placing = NoPlacement]
        saved == IF ~waiting THEN o
                 ELSE IF dragging THEN committed
                 ELSE Save(committed, commit)
    IN  [saved EXCEPT !.selected = output, !.chosen = output]

\* A rebuilt surface commits the place of the drag that waited for it, and is
\* shown.  The drag that is still running saves the place itself.  It asks the place
\* for its output's name as well, which cannot raise where beginning the rebuild, in
\* the same call, did not.
CompleteRebind(o, output, dragging) ==
    LET waiting == o.placing # NoPlacement /\ o.placing.screen = output
        commit == o.placing
        committed == [CommitPosition(o, commit) EXCEPT !.placing = NoPlacement]
        saved == IF ~waiting THEN o
                 ELSE IF dragging THEN committed
                 ELSE Save(committed, commit)
        object == IF waiting THEN commit.object ELSE output
    IN  Show([saved EXCEPT !.selected = object, !.chosen = object])

AttemptRebind(o, dragging) ==
    LET output == o.pending
        Rebuilt(r) ==
            IF Raises(r) THEN r
            ELSE IF ~Succeeded(r) THEN Degraded([r EXCEPT !.o.free = FALSE])
            ELSE LET active == [r.o EXCEPT !.active = output, !.pending = NoOutput,
                                           !.free = FALSE, !.state = "active", !.retry = FALSE]
                 IN  Applied(CompleteRebind(active, output, dragging))
        Freed(r) == IF ~Succeeded(r) THEN Degraded(r)
                    ELSE Rebuilt(RebuildSurface([r.o EXCEPT !.state = "rebinding"], output))
    IN  IF Closing(o) \/ output = NoOutput THEN Rejected(o) ELSE Freed(FreeForRebind(o))

Rebind(o, output, dragging) ==
    LET intent == [o EXCEPT !.pending = output, !.state = "rebinding", !.retry = FALSE]
        Freed(r) == IF Succeeded(r) THEN AttemptRebind(r.o, dragging) ELSE Degraded(r)
    IN  IF Closing(o) THEN Rejected(o)
        ELSE IF ~Layered(o) THEN Unsupported(o)
        ELSE Freed(FreeForRebind(intent))

ActivateLife(o, output) ==
    LET Promoted(r) ==
            IF ~Succeeded(r) THEN [r EXCEPT !.o.state = "degraded"]
            ELSE [r EXCEPT !.o.free = FALSE, !.o.active = output, !.o.pending = NoOutput,
                           !.o.state = "active", !.o.retry = FALSE]
    IN  IF Closing(o) THEN Rejected(o)
        ELSE IF o.state = "active" /\ (output = NoOutput \/ o.active \in {NoOutput, output})
            THEN Applied(o)
        ELSE IF o.state = "active" THEN Rebind(o, output, FALSE)
        ELSE IF o.state = "rebinding" \/ (o.state = "degraded" /\ o.pending # NoOutput)
            THEN AttemptRebind(o, FALSE)
        ELSE Promoted(Promote(PrepareLife(o).o))

\* Mutant: a pending output that was lost stays pending.
OutputRemovedKeepingPending(o, output, replacement) ==
    LET lost == [o EXCEPT !.active = NoOutput, !.pending = replacement, !.state = "rebinding"]
        Freed(r) == IF Succeeded(r) THEN ScheduleRetry(r.o) ELSE Degraded(r).o
    IN  IF ~Layered(o) \/ o.active # output THEN o ELSE Freed(FreeForRebind(lost))

OutputRemoved(o, output, replacement) ==
    LET replaced == [o EXCEPT !.pending = IF @ = output THEN replacement ELSE @]
        lost == [replaced EXCEPT !.active = NoOutput, !.pending = replacement,
                                 !.state = "rebinding"]
        Freed(r) == IF Succeeded(r) THEN ScheduleRetry(r.o) ELSE Degraded(r).o
    IN  IF ~Layered(o) THEN o
        ELSE IF o.active # output \/ output = NoOutput THEN replaced
        ELSE Freed(FreeForRebind(lost))

OutputAdded(o, output) ==
    IF o.state \notin {"rebinding", "degraded"} THEN o
    ELSE ScheduleRetry([o EXCEPT !.pending = output, !.state = "rebinding"])

\* Mutant: the retry is left armed.
CloseLifeRetrying(o) ==
    LET Closed(r) ==
            IF ~Succeeded(r) THEN r
            ELSE [r EXCEPT !.o.free = TRUE, !.o.active = NoOutput, !.o.state = "closed"]
    IN  IF o.state = "closed" THEN Applied(o)
        ELSE Closed(CloseAdapter([o EXCEPT !.state = "closing", !.pending = NoOutput]))

CloseLife(o) ==
    LET Closed(r) ==
            IF ~Succeeded(r) THEN r
            ELSE [r EXCEPT !.o.free = TRUE, !.o.active = NoOutput, !.o.state = "closed"]
    IN  IF o.state = "closed" THEN Applied(o)
        ELSE Closed(CloseAdapter([o EXCEPT !.state = "closing", !.retry = FALSE, !.pending = NoOutput]))

-------------------------------------------------------------------------------
(* Activation.                                                             *)

\* The overlay is promoted, placed and shaped, or falls back to an ordinary
\* window; after what the lifecycle raised it is neither.
Activate(o) ==
    LET output == Target(o)
        aimed == [Bound(Aimed(o), output) EXCEPT !.sure = @ /\ o.state = "active"]
        Fallen(w) == IF w.selected = NoOutput THEN w ELSE MoveWindow(w, w.selected, w.layer)
        Placed(r) ==
            IF Layered(o) /\ Succeeded(r)
            THEN MoveTo([r.o EXCEPT !.chosen = output], output, r.o.layer).o
            ELSE Fallen(Aimed(r.o))
        Shaped(r) == IF Raises(r) THEN r.o ELSE ApplyInputRegion(Placed(r)).o
    IN  IF Ending(o) THEN o ELSE Shaped(ActivateLife(aimed, output))

-------------------------------------------------------------------------------
(* Dragging.                                                               *)

Press(o) ==
    LET begun == BeginDrag(o)
    IN  IF begun.stroke
        THEN [begun EXCEPT !.dragging = TRUE, !.moved = FALSE, !.applied = TRUE, !.grab = TRUE]
        ELSE begun

\* One refused step spoils the drag.
DragStep(o, d) ==
    LET Judged(r) == IF Succeeded(r) THEN [r EXCEPT !.o.moved = @ \/ r.o.at # o.layer]
                     ELSE [r EXCEPT !.o.applied = FALSE]
    IN  Judged(UpdateDrag(o, d))

\* The place is the one the platform applied.
Drag(o, d) ==
    LET Placed(r) == IF Succeeded(r) THEN [r.o EXCEPT !.layer = r.o.at] ELSE r.o
    IN  Placed(DragStep(o, d))

\* A stroke is over, and with it all that was known of it.
DragEnds(o) ==
    EndDrag([o EXCEPT !.dragging = FALSE, !.moved = FALSE, !.applied = TRUE, !.grab = FALSE])

\* Mutant: the place on another output is saved before the surface is there.
CommitDragAtOnce(o, cursor) ==
    LET y == Clamped(o.layer, o.content, TRUE)
        On(a, output) ==
            LET commit == [screen |-> output, object |-> output, y |-> y,
                           margin |-> EdgeMargin(o, y)]
            IN  IF output # a.selected /\ Layered(o)
                THEN Save(Rebind([a EXCEPT !.placing = commit], output, TRUE).o, commit)
                ELSE Save(CommitPosition(a, commit), commit)
    IN  IF Target(o) = NoOutput THEN Aimed(o)
        ELSE On(Aimed(o), IF Rebinds(o) THEN cursor ELSE Target(o))

\* Where a drag ends is saved once the surface is there: at once on the same
\* output, after a rebuild on another.
CommitDrag(o, cursor) ==
    LET y == Clamped(o.layer, o.content, TRUE)
        Rebound(r, commit) == IF Succeeded(r) THEN Save(r.o, commit) ELSE r.o
        Moved(r, commit) ==
            IF Succeeded(r) THEN Save(CommitPosition(r.o, commit), commit) ELSE r.o
        On(a, output) ==
            LET commit == [screen |-> output, object |-> output, y |-> y,
                           margin |-> EdgeMargin(o, y)]
            IN  IF output # a.selected /\ Layered(o)
                THEN Rebound(Rebind([a EXCEPT !.placing = commit], output, TRUE), commit)
                ELSE Moved(IF Layered(o) THEN MoveTo(a, output, y) ELSE Applied(a), commit)
    IN  IF Target(o) = NoOutput THEN Aimed(o)
        ELSE On(Aimed(o), IF Rebinds(o) THEN cursor ELSE Target(o))

\* An ordinary window went with the pointer, to the output that one is on.
Carried(o, cursor) ==
    IF o.kind = "window" THEN [o EXCEPT !.native.output = cursor] ELSE o

FinishDrag(o, cursor) ==
    LET ended == DragEnds(Carried(o, cursor))
        commits == o.moved /\ o.applied /\ Positions(o)
        Shaped(w) == IF Ending(w) THEN w ELSE SetInputMode(w, w.passthrough).o
    IN  IF ~o.moved THEN ended
        ELSE [Shaped(IF commits THEN CommitDrag(ended, cursor) ELSE ended) EXCEPT !.suppress = TRUE]

-------------------------------------------------------------------------------
(* The window's other handlers.                                            *)

SetPassthrough(o, locked) ==
    IF Ending(o) THEN o
    ELSE [SetInputMode([o EXCEPT !.passthrough = locked], locked).o EXCEPT !.inputDue = TRUE]

\* The tray or the lock button: the window first, then the configuration.
Toggle(o) ==
    [SetPassthrough(o, ~o.config.passthrough) EXCEPT !.config.passthrough = ~@]

\* A release over a control is that control's click.
ClickLock(o, cursor) ==
    LET Clicked(w) == IF w.suppress THEN w ELSE Toggle(w)
    IN  Clicked(IF o.dragging /\ o.moved THEN FinishDrag(o, cursor)
                ELSE [o EXCEPT !.grab = FALSE])

OnFrame(o, h) ==
    IF Ending(o) THEN o
    ELSE [o EXCEPT !.content = h, !.inputDue = TRUE, !.resize = @ \/ h # o.height]

RefreshGeometry(o) ==
    IF Ending(o) THEN o ELSE [ResizeContent(o) EXCEPT !.inputDue = TRUE]

Shutdown(o) ==
    LET Closed(r) == IF Succeeded(r) THEN [r.o EXCEPT !.closed = TRUE, !.closing = FALSE]
                     ELSE r.o
    IN  IF o.closed THEN o
        ELSE Closed(CloseLife([o EXCEPT !.closing = TRUE, !.soon = FALSE, !.later = FALSE,
                                        !.inputDue = FALSE, !.resize = FALSE]))

\* The toolkit moves the windows of a removed output to the first one left; a
\* layer surface goes with its output.
ScreenRemoved(o, s) ==
    LET left == o.connected \ {s}
        Left(object) == IF object = s THEN Gone ELSE object
        fallen == [o EXCEPT
            !.connected = left,
            !.screen = IF @ = s THEN FirstOf(left) ELSE @,
            !.chosen = Left(@), !.selected = Left(@),
            !.placing = IF @ = NoPlacement \/ @.object # s THEN @
                       ELSE [@ EXCEPT !.object = Gone],
            !.native = IF @ = NoSurface \/ @.output # s THEN @
                       ELSE [@ EXCEPT !.output = IF o.native.layer THEN NoOutput ELSE FirstOf(left)]]
    IN  OutputRemoved(fallen, s, Preferred(fallen))

ScreenAdded(o, s) ==
    LET joined == [o EXCEPT !.connected = @ \cup {s},
                            !.screen = IF o.connected = {} THEN s ELSE @]
    IN  OutputAdded(joined, Preferred(joined))

-------------------------------------------------------------------------------
(* The specification.                                                      *)

\* The window as its constructor leaves it, before the application activates and
\* shows it.
Built(session, config) ==
    ApplyConfig(
        [kind |-> Selected(session), bad |-> {}, released |-> FALSE, shut |-> FALSE,
         native |-> NoSurface, visible |-> FALSE, grab |-> FALSE, stroke |-> FALSE, at |-> 0,
         state |-> "prepared", active |-> NoOutput, pending |-> NoOutput, free |-> FALSE,
         retry |-> FALSE,
         layer |-> 0, chosen |-> NoOutput, selected |-> NoOutput, placing |-> NoPlacement,
         keep |-> FALSE, home |-> config.screen, homeMargin |-> NoMargin,
         locked |-> config.passthrough, sure |-> FALSE, region |-> <<"all">>, rejected |-> 0,
         height |-> 0, content |-> CHOOSE h \in Heights : \A i \in Heights : h <= i,
         dragging |-> FALSE, moved |-> FALSE, applied |-> TRUE,
         passthrough |-> config.passthrough, closed |-> FALSE, closing |-> FALSE,
         soon |-> FALSE, later |-> FALSE, inputDue |-> FALSE, resize |-> FALSE,
         suppress |-> FALSE, config |-> config, screen |-> FirstOf(Outputs),
         connected |-> Outputs, begun |-> FALSE])

Init ==
    /\ \E session \in Sessions, config \in Configs : overlay = Built(session, config)
    /\ budget = [faults |-> MaxFaults, events |-> MaxEvents]

\* The calls that fail during one event: one of them, or one and the release
\* that follows it.
FaultSets ==
    {{"activate"}, {"move"}, {"input"}, {"blur"}, {"destroy"}, {"move", "destroy"}}

\* One event, without a fault or with one.
Event(handled(_)) ==
    \E bad \in {{}} \cup FaultSets :
        /\ bad # {} => budget.faults > 0
        /\ overlay' = [handled([overlay EXCEPT !.bad = bad]) EXCEPT !.bad = {}]
        /\ budget' = [budget EXCEPT !.faults = IF bad = {} THEN @ ELSE @ - 1]

Spend ==
    /\ budget.events > 0
    /\ budget' = [budget EXCEPT !.events = @ - 1]

Start ==
    /\ ~overlay.begun
    /\ Event(LAMBDA o : Show(Activate([o EXCEPT !.begun = TRUE])))

ActivationTimer ==
    /\ overlay.soon
    /\ Event(LAMBDA o : Activate([o EXCEPT !.soon = FALSE]))

\* It is armed together with the other, for a tenth of a second later.
ActivationRetryTimer ==
    /\ overlay.later /\ ~overlay.soon
    /\ Event(LAMBDA o : Activate([o EXCEPT !.later = FALSE]))

GeometryTimer ==
    /\ overlay.resize
    /\ Event(LAMBDA o : RefreshGeometry([o EXCEPT !.resize = FALSE]))

InputTimer ==
    /\ overlay.inputDue
    /\ Event(LAMBDA o : IF Ending(o) THEN [o EXCEPT !.inputDue = FALSE]
                        ELSE SetInputMode([o EXCEPT !.inputDue = FALSE], o.passthrough).o)

ClickTimer ==
    /\ overlay.suppress
    /\ overlay' = [overlay EXCEPT !.suppress = FALSE]
    /\ UNCHANGED budget

RetryTimer ==
    /\ overlay.retry
    /\ Event(LAMBDA o : IF Closing(o) THEN [o EXCEPT !.retry = FALSE]
                        ELSE AttemptRebind([o EXCEPT !.retry = FALSE], FALSE).o)

Usable == overlay.begun /\ overlay.visible /\ ~overlay.closed

PressPanel ==
    /\ Usable /\ ~overlay.passthrough /\ ~overlay.grab
    /\ Spend
    /\ overlay' = Press(overlay)

DragMove ==
    /\ overlay.grab /\ overlay.dragging
    /\ \E d \in {-1, 1} :
          /\ overlay.at + d \in -1 .. ScreenHeight
          /\ Event(LAMBDA o : IF Target(o) = NoOutput THEN Aimed(o) ELSE Drag(Aimed(o), d))

Release ==
    /\ overlay.grab /\ overlay.dragging
    /\ \E cursor \in overlay.connected : Event(LAMBDA o : FinishDrag(o, cursor))

LockClicked ==
    /\ Usable
    /\ \E cursor \in overlay.connected :
          /\ Spend
          /\ overlay' = ClickLock(overlay, cursor)

\* The pointer that drags the panel clicks nowhere else.
TrayToggled ==
    /\ overlay.begun /\ ~overlay.grab
    /\ Spend
    /\ overlay' = Toggle(overlay)

SettingsApplied ==
    /\ overlay.begun /\ ~overlay.grab
    /\ Spend
    /\ \E top \in BOOLEAN, margin \in Margins :
          overlay' = Activate(ApplyConfig([overlay EXCEPT !.config.top = top,
                                                          !.config.margin = margin]))

FrameShown ==
    /\ ~Ending(overlay)
    /\ \/ overlay' = OnFrame(overlay, overlay.content) /\ UNCHANGED budget
       \/ \E h \in Heights \ {overlay.content} :
             overlay' = OnFrame(overlay, h) /\ Spend

Unplugged ==
    /\ Spend
    /\ \E s \in overlay.connected : overlay' = ScreenRemoved(overlay, s)

Plugged ==
    /\ \E s \in Outputs \ overlay.connected : overlay' = ScreenAdded(overlay, s)
    /\ UNCHANGED budget

ShutDown ==
    /\ overlay.begun
    /\ budget.events > 0
    /\ \E bad \in {{}} \cup FaultSets :
          /\ bad # {} => budget.faults > 0
          /\ overlay' = [Shutdown([overlay EXCEPT !.bad = bad]) EXCEPT !.bad = {}]
          /\ budget' = [budget EXCEPT !.events = @ - 1,
                                      !.faults = IF bad = {} THEN @ ELSE @ - 1]

Timers ==
    \/ ActivationTimer \/ ActivationRetryTimer \/ GeometryTimer \/ InputTimer
    \/ ClickTimer \/ RetryTimer

Next ==
    \/ Start \/ Timers
    \/ PressPanel \/ DragMove \/ Release \/ LockClicked \/ TrayToggled
    \/ SettingsApplied \/ FrameShown \/ Unplugged \/ Plugged \/ ShutDown

Spec == Init /\ [][Next]_vars

-------------------------------------------------------------------------------
(* Properties.                                                             *)

\* A surface that is believed to be active on an output exists, is shown, and is on
\* that output.
ActiveIsShown ==
    overlay.state = "active" /\ overlay.active # NoOutput /\ Layered(overlay) =>
        /\ overlay.native # NoSurface
        /\ overlay.native.layer => overlay.native.output = overlay.active
        /\ overlay.visible

\* While a region is cached, so that it is not submitted again, it is the region
\* the compositor has, and that of the lock state shown to the user.
RegionIsKnown ==
    overlay.state = "active" /\ overlay.sure =>
        /\ overlay.native # NoSurface
        /\ overlay.native.input = overlay.region
        /\ overlay.region[1] = IF overlay.passthrough THEN "lock" ELSE "panel"

\* The surface is what the controller takes it for.  It is not when it was shown before
\* it could be promoted, and then nothing moves it; nor when an activation ran the
\* pending rebuild, and the output it had aimed at was recorded instead.
AsBelieved(o) ==
    /\ o.native # NoSurface /\ o.native.layer
    /\ o.state = "active" /\ o.chosen = o.active

\* On Layer Shell, what a drag or a rebuild saves is the place the surface is at, on
\* its output: a move that failed is not saved, and a place on another output not
\* before the surface is there.  A surface that was just shown is placed once more by
\* the activation that is due.  No activation is due for an overlay that could not be
\* shut down, whose owner may rebuild it when its output is unplugged.
OnlyShownPlacesAreSaved ==
    [][ LET now == overlay'
        IN  /\ now.config.screen # overlay.config.screen \/ now.config.margin # overlay.config.margin
            /\ now.config.top = overlay.config.top /\ Layered(now) /\ ~SettingsApplied
            => /\ now.visible
               /\ AsBelieved(now) =>
                    /\ now.native.output = now.config.screen
                    /\ \/ now.soon \/ Ending(now)
                       \/ now.config.margin = EdgeMargin(now, now.native.y) ]_vars

\* The place of a layer surface is the one its controller works from, unless the
\* activation that places it is still due.  Only the part of it that hangs off the
\* lower edge, which no margin can say, is forgotten.
Known(o) ==
    \/ o.soon
    \/ o.native.y = o.layer
    \/ /\ ~o.config.top /\ o.native.y + o.height > ScreenHeight
       /\ o.layer = Clamped(o.native.y, o.height, FALSE)

\* While nothing failed, an active layer surface is where the next drag will start
\* from.
PlaceIsKnown ==
    Layered(overlay) /\ AsBelieved(overlay) => budget.faults < MaxFaults \/ Known(overlay)

\* A closed overlay is not on the screen, and nothing is armed that could bring it
\* back.
ClosedStaysClosed ==
    overlay.closed =>
        /\ ~overlay.visible
        /\ overlay.state = "closed" /\ overlay.pending = NoOutput
        /\ ~overlay.soon /\ ~overlay.later /\ ~overlay.retry

\* An output that waits for its surface is there, and a retry is armed for it: no
\* failure and no order of outputs that come and go leaves it waiting for good.  Only
\* a rebuild that raised, because the output that a dragged place waits for was
\* removed, leaves its output without one.
PendingIsRetried ==
    overlay.pending # NoOutput =>
        /\ overlay.pending \in overlay.connected
        /\ overlay.retry \/ (Orphaned(overlay) /\ overlay.state = "rebinding")

===============================================================================
