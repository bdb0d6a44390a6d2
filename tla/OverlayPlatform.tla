---------------------------- MODULE OverlayPlatform ----------------------------
(***************************************************************************)
(* The adapters between the overlay and the window system                  *)
(* (src/kotonoha/platform): Layer Shell with the drag strategies of KWin   *)
(* and niri, and the ordinary window of X11 and of a Wayland session        *)
(* without Layer Shell.  An operation takes the state and returns a result: *)
(* the next state o and how the operation ended, as SurfaceResult says it. *)
(*                                                                         *)
(* o.bad is the set of bridge calls that raise during the present event;   *)
(* every adapter turns those into a retryable failure.  Space is one       *)
(* dimension, the distance y from the top of an output, because only that  *)
(* one has an anchor, a margin and a resizing panel.                       *)
(***************************************************************************)
EXTENDS Naturals, Integers, FiniteSets

CONSTANTS
    NoOutput,
    ScreenHeight,   \* the height of an output
    Strip           \* what of a surface must stay on its output after a drag

ASSUME SpaceAssumption ==
    /\ ScreenHeight \in Nat
    /\ Strip \in 1 .. ScreenHeight

\* There is no native window.
NoSurface == [none |-> TRUE]

Least(a, b) == IF a < b THEN a ELSE b
Greatest(a, b) == IF a > b THEN a ELSE b
Between(low, y, high) == Greatest(low, Least(y, high))

-------------------------------------------------------------------------------
(* Which adapter a session gets.  A provider claims the session with one, or *)
(* passes it on (the empty set).                                           *)

\* The bridge is of use on Wayland, where it loads and the compositor advertises
\* Layer Shell.
Available(session) == session.platform = "wayland" /\ session.layerShell

\* niri is known by its desktop's name or by its socket.
NiriDrag(session) == {kind \in {"niri"} : session.niri}

\* The desktop only selects the drag strategy, the first that recognises it.
LayerShellProvider(session) ==
    IF ~Available(session) THEN {}
    ELSE IF NiriDrag(session) # {} THEN NiriDrag(session)
    ELSE {"anchor"}

X11Provider(session) == {kind \in {"window"} : session.platform = "xcb"}
WaylandProvider(session) == {kind \in {"system"} : session.platform = "wayland"}
GenericProvider(session) == {"window"}

\* Layer Shell, then X11, then the Wayland fallback, then the generic one.
Selected(session) ==
    LET claims == <<LayerShellProvider(session), X11Provider(session),
                    WaylandProvider(session), GenericProvider(session)>>
        first == CHOOSE i \in DOMAIN claims :
                    claims[i] # {} /\ \A j \in 1 .. (i - 1) : claims[j] = {}
    IN  CHOOSE kind \in claims[first] : TRUE

-------------------------------------------------------------------------------
(* What an adapter can do.                                                 *)

Layered(o) == o.kind \in {"anchor", "niri"}

LayerCapabilities == [rebinding |-> TRUE, positioning |-> TRUE, systemMove |-> FALSE]

\* A Wayland client may not place an ordinary window, and asks the compositor to
\* move it.
WindowCapabilities(o) ==
    [rebinding |-> FALSE, positioning |-> o.kind = "window", systemMove |-> o.kind = "system"]

Capabilities(o) == IF Layered(o) THEN LayerCapabilities ELSE WindowCapabilities(o)

Positions(o) == Capabilities(o).positioning

\* Whether the pointer's position at a release tells the output: on niri the two are
\* not measured in the same space.
Rebinds(o) == IF Layered(o) THEN o.kind # "niri" ELSE Positions(o)

-------------------------------------------------------------------------------
(* Results.                                                                *)

Applied(o) == [o |-> o, is |-> "applied"]
Unsupported(o) == [o |-> o, is |-> "unsupported"]
Rejected(o) == [o |-> o, is |-> "rejected"]
Failed(o) == [o |-> o, is |-> "failed"]
Succeeded(r) == r.is = "applied"
Retryable(r) == r.is = "failed"

\* The next call of a chain, which is not made after a failure.
AndThen(r, call(_)) == IF Succeeded(r) THEN call(r.o) ELSE r

-------------------------------------------------------------------------------
(* The native window.                                                      *)

\* Asking for the handle creates the window; it gets its output when it is shown.  A
\* surface takes all input until it has a region.
Held(o) ==
    IF o.native # NoSurface THEN o
    ELSE [o EXCEPT !.native =
            [output |-> NoOutput, y |-> 0, input |-> <<"all">>, layer |-> FALSE]]

\* The toolkit's own move, which a Wayland compositor ignores.
MoveWindow(o, output, y) ==
    IF "move" \in o.bad \/ o.kind # "window" THEN o
    ELSE [Held(o) EXCEPT !.native.y = y, !.native.output = output]

\* The window is hidden, which ends the pointer grab of a drag.
Hidden(o) == [o EXCEPT !.visible = FALSE, !.grab = FALSE]

Destroyed(o) == IF "destroy" \in o.bad THEN o ELSE [o EXCEPT !.native = NoSurface]

\* The bridge gives the surface the layer's role.  A window that is shown already has
\* its role, and the call returns as if it had taken the new one.
MakeOverlay(o) == [Held(o) EXCEPT !.native.layer = @ \/ ~o.visible]

\* A layer surface stays on its output and moves by its margins, which an ordinary
\* surface does not have.
SetAnchor(o, y) ==
    LET held == Held(o)
    IN  IF held.native.layer THEN [held EXCEPT !.native.y = y] ELSE held

\* The region a surface takes input in: nowhere, or in one rectangle.
PassedThrough(o) == [Held(o) EXCEPT !.native.input = <<"none">>]
SetInputRect(o, region) == [Held(o) EXCEPT !.native.input = region]

-------------------------------------------------------------------------------
(* The Layer Shell adapter.  Each bridge call may raise, and a call that does *)
(* is a failure to retry.                                                  *)

LayerActivate(o) ==
    IF "activate" \in o.bad THEN Failed(Held(o))
    ELSE Applied([MakeOverlay(o) EXCEPT !.released = FALSE])

LayerInput(o, region) ==
    IF "input" \in o.bad THEN Failed(Held(o)) ELSE Applied(SetInputRect(o, region))

LayerBlur(o) == IF "blur" \in o.bad THEN Failed(Held(o)) ELSE Applied(Held(o))

LayerMove(o, y) ==
    IF "move" \in o.bad THEN Failed(Held(o))
    ELSE Applied([SetAnchor(o, y) EXCEPT !.at = y])

\* The old surface is made click-through and loses its blur before it is destroyed; a
\* failure of either does not stop the other.
Silenced(o) == IF "input" \in o.bad THEN Held(o) ELSE PassedThrough(o)
BlurReleased(o) == "blur" \notin o.bad

\* Every step of the release is tried, and every failure kept.
ReleaseLayer(o) ==
    LET clean == BlurReleased(o) /\ {"input", "destroy"} \cap o.bad = {}
    IN  IF o.released THEN Applied(o)
        ELSE [o |-> [Destroyed(Hidden(Silenced(o))) EXCEPT !.released = clean],
              is |-> IF clean THEN "applied" ELSE "failed"]

CloseLayer(o) ==
    LET Closed(r) == [r EXCEPT !.o.stroke = FALSE, !.o.shut = Succeeded(r)]
    IN  IF o.shut THEN Applied(o) ELSE Closed(ReleaseLayer(o))

-------------------------------------------------------------------------------
(* The ordinary window's adapter.                                          *)

WindowActivate(o) == Applied([o EXCEPT !.released = FALSE])

\* The window's flag makes it click-through, its mask confines it to a rectangle.
WindowInput(o, region) ==
    IF "input" \in o.bad THEN Failed(Held(o)) ELSE Applied(SetInputRect(o, region))

WindowBlur(o) == IF "blur" \in o.bad THEN Failed(Held(o)) ELSE Applied(Held(o))

\* An ordinary window moves over the desktop, from one output to another.
WindowMove(o, output, y) ==
    IF ~Positions(o) THEN Unsupported(o)
    ELSE IF "move" \in o.bad THEN Failed(Held(o))
    ELSE Applied(MoveWindow(o, output, y))

\* The release stops at the first step that fails.
ReleaseWindow(o) ==
    LET unmasked == [Held(o) EXCEPT !.native.input = <<"all">>]
        clean == "destroy" \notin o.bad
    IN  IF o.released THEN Applied(o)
        ELSE IF "input" \in o.bad THEN Failed([Held(o) EXCEPT !.released = FALSE])
        ELSE [o |-> [Destroyed(Hidden(unmasked)) EXCEPT !.released = clean],
              is |-> IF clean THEN "applied" ELSE "failed"]

CloseWindow(o) ==
    LET Closed(r) == [r EXCEPT !.o.stroke = FALSE, !.o.shut = Succeeded(r)]
    IN  IF o.shut THEN Applied(o) ELSE Closed(ReleaseWindow(o))

-------------------------------------------------------------------------------
(* The ports of the selected adapter.  A closed adapter rejects everything. *)

Prepare(o) == IF o.shut THEN Rejected(o) ELSE Applied(o)

Promote(o) ==
    IF o.shut THEN Rejected(o) ELSE IF Layered(o) THEN LayerActivate(o) ELSE WindowActivate(o)

SetInput(o, region) ==
    IF o.shut THEN Rejected(o)
    ELSE IF Layered(o) THEN LayerInput(o, region)
    ELSE WindowInput(o, region)

SetBlur(o) ==
    IF o.shut THEN Rejected(o) ELSE IF Layered(o) THEN LayerBlur(o) ELSE WindowBlur(o)

MoveTo(o, output, y) ==
    IF o.shut THEN Rejected(o)
    ELSE IF Layered(o) THEN LayerMove(o, y)
    ELSE WindowMove(o, output, y)

ReleaseSurface(o) == IF Layered(o) THEN ReleaseLayer(o) ELSE ReleaseWindow(o)
CloseAdapter(o) == IF Layered(o) THEN CloseLayer(o) ELSE CloseWindow(o)

-------------------------------------------------------------------------------
(* Drag strategies.  A stroke starts from where the overlay believes its     *)
(* surface to be.                                                          *)

BeginLayerDrag(o) == [o EXCEPT !.stroke = TRUE, !.at = o.layer]

\* A Wayland fallback hands the gesture to the compositor, and keeps nothing.
BeginWindowDrag(o) ==
    IF Capabilities(o).systemMove THEN o ELSE [o EXCEPT !.stroke = TRUE, !.at = o.layer]

\* On niri the output bounds the stroke, and without one there is none.
BeginNiriDrag(o) == IF o.screen = NoOutput THEN o ELSE BeginLayerDrag(o)

BeginDrag(o) ==
    IF o.shut THEN o
    ELSE IF o.kind = "niri" THEN BeginNiriDrag(o)
    ELSE IF Layered(o) THEN BeginLayerDrag(o) ELSE BeginWindowDrag(o)

\* niri keeps the panel on its output while it is dragged.
Constrained(o, y) ==
    IF o.kind = "niri" THEN Between(0, y, Greatest(0, ScreenHeight - o.height)) ELSE y

\* The strategy moves by the pointer's displacement d from where it believes the
\* surface to be.
UpdateLayerDrag(o, d) ==
    LET y == Constrained(o, o.at + d)
    IN  IF y = o.at THEN Applied(o) ELSE LayerMove(o, y)

\* An ordinary window moves by as much from where the toolkit has it.
UpdateWindowDrag(o, d) ==
    IF ~Positions(o) THEN Unsupported(o)
    ELSE IF d = 0 THEN Applied(o)
    ELSE IF "move" \in o.bad THEN Failed(Held(o))
    ELSE Applied([Held(o) EXCEPT !.native.y = @ + d, !.at = @ + d])

UpdateDrag(o, d) ==
    IF o.shut \/ ~o.stroke THEN Rejected(o)
    ELSE IF Layered(o) THEN UpdateLayerDrag(o, d)
    ELSE UpdateWindowDrag(o, d)

EndDrag(o) == [o EXCEPT !.stroke = FALSE]

===============================================================================
