# A verification project for rubix

rubix is a tiling Wayland compositor. Its windows live on a "cube": every
monitor has a row of columns, every column a stack of groups, every group a
split tree of windows; the monitor shows the active group of each column in its
visible band. This directory holds TLA+ models of the compositor's state
machines, the TLC runs that check them on small instances, and TLAPS proofs of
what holds for every size.

## Inventory

The compositor is one thread, a calloop event loop around the struct
`RubixState`. Everything that arrives (a key, a Wayland request, an X11 event,
a timer, a DRM event, a line on the status socket) runs one handler to
completion, and the handlers call each other through `&mut self`. Concurrency is
therefore the order of events: what one handler leaves for the next, and what a
handler assumes of a state that three other protocols can change. Other
threads exist: the wallpaper decoders, the screencast portal's D-Bus thread with its
PipeWire streams, and the config watcher, which talk to the loop by channels.

The last column names the module that models the component; `PROJECT.json` says of
each how much of it.

| Component | State | Operations | Hard part | Modules |
| --- | --- | --- | --- | --- |
| Split trees and grid (`model/`) | a binary tree per group, `active_window`, `active_row`, `active_column`, `visible_columns`, the monitors | insert, remove, rotate, scroll, swap, reveal, carry | unchecked indices after any sequence of chords; survivors of a removal; windows lost or doubled by two-step moves | `Tiling`, `Grid` |
| Nav chords and focus (`input.rs`, `focus.rs`) | the seat's keyboard focus | `dispatch_nav`, `focus_by_id`, click, hover | the order reveal, cursor, focus, reconcile, layout | `Desktop`, `Pointer` |
| Layout, fullscreen, maximize (`state.rs`) | `fullscreen_windows`, `maximized`, `iconified`, the Space, the tweens | `apply_layout`, `set_window_fullscreen`, `cycle_maximize`, `reconcile_focus_state`, `remove_window_by_id` | five sets that must agree on every window; an animated and a direct path to one layout | `Desktop`, `Screen` |
| Wayland clients (`handlers/xdg_shell.rs`, `compositor.rs`, `layer_shell.rs`) | `unmapped`, layer surfaces | create, first buffer, fullscreen, destroy | requests before the first buffer; a launcher that takes the focus | `Desktop` |
| X11 clients (`handlers/xwayland.rs`) | `pending_x11_focus`, association of surfaces | map, associate, withdraw, activate, configure, XWayland's death | association arrives later than everything else | `Desktop` |
| Taskbar (`foreign_toplevel.rs`) | handles per manager and window | activate, fullscreen, maximize, refresh | requests on windows that moved or died | `Desktop` |
| Interactive grabs (`grabs/`) | `ResizeSurfaceState` per surface, the seat's grab | move, resize, release, the client's commits | a client that commits sizes late while its far edge must stay | `Pointer` |
| Pointer constraints (`handlers/pointer_constraints.rs`, `input.rs`) | the constraint of each surface, the pointer | lock, confine, hint, motion, warp after a chord | focus that moves, and a pointer that may not | `Pointer` |
| Power and idle (`output_power.rs`, `handlers/idle.rs`, `state.rs`) | `power_off` per head, `idle_timer`, `last_activity`, inhibitors | timeout, wake, set_mode, hotplug | a timer against activity, refusing outputs, hotplug | `Power` |
| DRM backend (`udev.rs`) | devices, surfaces, scheduled frames | connect, render, vblank, VT switch, HDR | frames, nudges and hotplug on one surface | `Outputs`, `Colour` |
| Colour management (`color_management.rs`, `udev.rs`) | `hdr_outputs`, the connector's state, descriptions held by clients, two damage trackers | toggle, composite or scan out, brightness, fullscreen | path, connector and program of each element are chosen apart | `Colour` |
| Screencast (`portal/`) | sessions, active captures, streams | CreateSession, SelectSources, Start, Close, the capture tick | two threads, a stream thread, and a client that may vanish between any two calls | `Cast` |
| Screencopy (`screencopy.rs`) | announced, pending and answered frames | capture, render, client gone | waits for a render that nothing else may ask for | `Outputs` |
| Wallpaper (`wallpaper.rs`) | assignments, decoded images, the slideshow, the prefetch in flight | resolve, set, prefetch, swap, evict | late results of a superseded request | `Wallpaper` |
| Theme and palette (`theme.rs`, `palette.rs`) | the solved theme, the palette of each image | extract, solve, take | a palette that goes or comes with its image | `Appearance` |
| Config (`config_loader.rs`, `state.rs`) | the live config, the debounce timer | watch, merge, deserialize, report, reload | saves of several steps over several files; a refused directory must not undo the live one | `ConfigLoader`, `Appearance` |
| Status socket (`ipc.rs`) | connections, subscriptions | request, push | slow and vanished readers | its commands in `Power` and `Appearance` |
| XWayland lifecycle (`main.rs`, `handlers/xwayland.rs`) | `xwm`, respawn attempts | spawn, ready, crash, respawn | windows whose server died; a crash loop | `Desktop` |
| Tile geometry, rounding, decoration, shaders, text, EDID, nested backend | none that lives between calls, or caches of pixels | | not state machines | |

## Modules

* `Tiling` is `model/tiling.rs`. A tree is the set of its leaves with the paths
  that lead to them, so splitting and removing are set expressions, and nothing
  is recursive. A batch of removals is one expression too (`Prune`): the leaves that
  stay keep the turns that still part them from another, in whatever order the loop
  removes the rest.
* `Grid` is `model/grid.rs` for one monitor: records for `Group`, `Column`,
  `Monitor` and one operator for each method, from a monitor to its successor.
* `GridReference` is the same code written literally, with recursive trees and
  loops, run in lockstep with `Grid`. It is what makes the closed forms
  trustworthy (rotation, removal of a batch, insertion of several windows).
* `Desktop` is the window management of `state.rs`, `input.rs` and `handlers/`:
  one action for each chord, client request and device event. The fields the
  methods thread through each other are one record, the *desk*, so that
  `focus_by_id` calling `reconcile_focus_state` calling `apply_layout` is a
  composition of operators. A method that iterates a `HashSet` is the set of
  the desks it may leave.
* `Showing` says what a layout pass promises, without animation: the last layout
  asked for is the one in force, at once.
* `Screen` is the animated half of `state.rs`: the Space, the tweens and
  `last_configured`, with `apply_layout`'s direct and animated path,
  `plan_transition`, `settle_tweens` and `step_animations`. It implements
  `Showing`. That is what lets `Desktop` take a layout pass as one step: `Screen`
  takes the layouts it is asked for as any layouts, and `Desktop` takes the screen
  as settled.
* `Power` is screen power and the idle timer, across `state.rs`, `udev.rs`,
  `output_power.rs`, `handlers/idle.rs`, `ipc.rs` and the head of
  `process_input_event`.
* `Outputs` is the loop that draws a head, in `udev.rs`: renders, vblanks, and
  everything that schedules one; with the captures of `screencopy.rs`, which wait
  for a render. It is what `Screen` stands on, whose frames it produces.
* `Colour` is the same heads seen by their light: when a surface is put in HDR, which
  path a frame takes (composited in SDR, composited in PQ, or a client's buffer scanned
  out), what its elements were encoded for, and what clients have been told of the
  output, and of what to send for a surface (`udev.rs`, `color_management.rs`). It
  leaves scheduling to `Outputs`.
* `Cast` is `portal/`: one action for each await point of the D-Bus calls, the
  commands the loop handles, the PipeWire thread of each stream and the tick that
  renders captures.
* `Wallpaper` holds the operators of `wallpaper.rs` (resolve, set, swap, prefetch,
  evict) from one wallpaper to the next; `ConfigLoader` those of
  `config_loader.rs` (discovery, merge, deserialize, the schema and its diagnostics).
  `Appearance` composes them into the state machine: the user's files, the watcher
  and its debounce, the reload, the worker threads, the theme that is handed on after
  each cycle, the slideshow timer and the status socket's `set_wallpaper`.
* `Pointer` is the pointer where something holds it: constraints, interactive
  grabs and the warps after a chord (`grabs/`, `handlers/pointer_constraints.rs`,
  `input.rs`, `handlers/compositor.rs`).
* `MCDesktop`, `MCAppearance` and `MCPointer` give TLC the constants that a `.cfg`
  cannot spell: the shells of the windows, the files a user may save, the layouts
  and scenes.
* `Desktop_proofs`, `Screen_proofs`, `Power_proofs`, `Outputs_proofs`, `Colour_proofs`,
  `Cast_proofs`, `Appearance_proofs` and `Pointer_proofs` hold the theorems.

They meet at interfaces rather than in one product. `Desktop` takes a layout pass as
settled, which is what `Showing` promises and `Screen` is proved to implement;
`Screen` and `Colour` assume that frames come, which is `LoopEndsOnlyBy` of
`Outputs`; `Power` and `Outputs` share the heads, their power and the session
switch; `Pointer` takes the layout as any of `Layouts`, settled.

### How the state corresponds

`desk.monitors`, `active_monitor` are `Workspace`; `desk.windows` is the key set
of `windows`; `fullscreen_windows`, `maximized`, `iconified` are the fields of
the same name; `desk.focus` is the seat's keyboard focus; `desk.space` is what
smithay's Space has mapped once the tweens have settled; `desk.associated` are
the X11 windows that have a `wl_surface`. `unmapped`, `pending_x11_focus` and
`next_id` are fields of `RubixState`; `xwayland` is the X server (`xwm`, or that none is
there yet or any more) with `xwayland_respawn_attempts`; `layer` is whether the launcher's layer
surface exists; `gone` remembers the X11 windows that were withdrawn and are
still tracked (it is a ghost: no handler reads it).

Windows are numbers given by `next_window_id` in the order of their birth, so
their shell (Wayland, X11, X11 menu) is a constant of the run. The client side
is free: any window asks for anything at any time, within `MayFullscreen`.

In `Screen`, `space` is where the Space has each mapped window, or that it is on its
way; `animations` is the tween of each window that has one (entering, leaving or
moving, where to, and whether it is drawn to scale outside the Space), and `age`
the frames since they started, which is the same for all of one transition.
`last_configured` is the field of that name. `intended` is the last layout asked
for, less what died since, and `told` the last configure each client was sent; no
code reads these two. A layout is any placement of tracked windows on the rects of
the run.

In `Power`, `heads` are the DRM surfaces and `off` those with `power_off`;
`active` is `UdevData::active`; `timeout` is `config.idle`, 0 for never;
`inhibitors` are `idle_inhibitors`. `idle` holds the time since `last_activity`,
the timers alive in the event loop with the ticks they have left, and the token
`idle_timer` names: a timer and the token are kept apart, because the code may
lose one and keep the other. `output_power` maps a head to the registered control
object and `told` is what each living object heard last. A tick is a unit of time;
a due timer fires before the next tick, but any other event may come between.
`Refusals` are the sets of heads whose CRTC may fail to clear at one time; without
the session every head refuses.

In `Outputs`, `surfaces` has the Output of the surface on each crtc, `off` and
`active` are as in `Power`, `space` are the Outputs mapped. `timers` counts the calloop
timers that will call `render` for a crtc, whatever their delay: a timer due early
may still be fired late, so the order of two is open. `flips` counts the vblanks to
come; smithay keeps one frame in flight and one behind it. The outcome of a render
(damage, none, an error) is open, except that a context is lost only while
`broken` says so. What smithay forgets of flips in flight when it clears or
reactivates a CRTC is open too. `frames` are the screencopy objects; a pending one
whose client has gone stays queued (`Abandoned`).

In `Colour`, `hdr`, `hdr_capable`, `applied` and `power_off` are fields of the surfaces
and `hdr_outputs` the copy that handlers read; `staged` is the connector's colour state
for the next commit. `screen` is what a head shows, and how it came about: the encoding
of its pixels, the state of the connector they went out under, the SDR white they were
made at, and whether a client has committed since. `tracker` and `drm` are the two
damage trackers, each with what it believes to be on screen. `heard` is what clients
that bound an output hold as its description and were not told to ask for again. `on` is
the head each window is on, by the Space, and `preferred` the last answer to the surface
feedback of its client: these two are apart because nobody tells surface feedback
anything.

In `Cast`, `sessions` is the registry and `active_captures` the map of the tick, each
behind a mutex, `lock` whether the loop holds the registry's; `stream_stop` are the
sessions with a stop handle, `loop` the session whose stream was spawned and is not
stored yet. `start` and `close` say how far a call has come: its steps between two
waits are separate actions. `bridge` is the channel to the loop, and `stream` the thread
of each session's stream with its `format`, the newest frame in its `slot` and what it
painted. `shown` is the size of each target, or that it is not there.

In `Wallpaper`, the manager's fields have their names, except that `decoding` is the bag
of what the workers will send, each with the settings of the moment it was asked for;
gain and blur radius are one setting, `scale`. Deadlines are timers that are armed.
In `Appearance`, `disk` is what each file of the config directory holds: a table of
settings, something malformed, or nothing. Tables merge recursively in the code; here a
file's keys are leaves, which comes to the same. `config` is the one in force,
`reported` the problems that the last load or reload reported, `noticed` whether the
watcher has events for the loop, `reload_timer` and `wallpaper_timer` whether those are
armed. `theme` is the image that the theme in force was solved from.

In `Pointer`, `cursor` is `pointer_location` and `at` where the seat's pointer was last
moved; `focus` and `keyboard` are the seat's, `grab` its pointer grab. `place`, `size` and
`stack` are the Space with what clients committed, `asked` the sizes each was sent and
has not committed, `resize` its `ResizeSurfaceState`, `constraint` that of its surface.
Two dimensions are one, since every step treats them alike.

What `Desktop` abstracts: sizes, split directions and ratios; which tile a pointer or
a directional step hits inside a group (any of them may be hit); stacking,
except that on one head a fullscreen window covers the rest; animation (the
Space is the settled one).

## Runs

| Run | Instance | What it shows |
| --- | --- | --- |
| `nav` | one head, a Wayland and an X11 window, up to 3 columns of 2 rows, all grid chords | indices in range, whole trees, the screen follows the grid, an activated window comes forward from any column or row, and only a chord that clamps the cursor to the band parts it from the focused tile |
| `shells` | one head, one column of up to two rows, a window of each shell, fullscreen, maximize, pointer, taskbar, launcher | every managed window is tiled or fullscreen, evicted windows leave no trace, X11 windows have a server, the screen and the iconic state follow the model |
| `heads` | two heads, 3 windows in up to 2 columns, two that go fullscreen | no window on two heads, chords act where the focus is, a window that gains the focus sends every other fullscreen one back to the grid and ends maximize |
| `reference` | 4 windows, 3 columns | the closed forms are the code |
| `animation` | 2 windows, 2 rects, flights of 2 frames | layouts cut each other short, windows die and menus open in flight: the last layout is in force throughout (`ShowingSpec`), no window is drawn twice, the pointer warps to where a window will be, a client told wrong is one believed to be told, and all comes to rest |
| `power` | 2 heads, 2 inhibiting surfaces, 2 control objects, timeouts of 0 to 3 ticks | one idle timer, on time, that blanks nothing early; every client told of every transition; what ends the timer's watch over a lit head, and that the heads go dark otherwise |
| `outputs` | 2 heads, 2 Outputs, a capture, 2 renders scheduled for a head | what ends the loop of a head that can be drawn, in whatever order nudges, vblanks, power, hotplug and session switches come; a capture is answered even where the loop had ended |
| `cast` | 2 sessions, one monitor, 2 sizes | no stream runs that nobody can stop, none is captured after its session closed, a Close ends whatever Start awaits, and a cast comes to show its target |
| `wallpaper` | 2 files, 3 images of which one cannot be decoded, one output, 2 gains, 3 acts of the user | nothing shown is evicted or was decoded with other settings, a slideshow comes round to every image it can read, a directory that is accepted comes into force and one that is refused is reported |
| `colour` | one head that takes HDR, a window, 2 brightnesses | each frame goes out in the encoding its connector was told, whoever bound the output is told when what it heard no longer holds, surface feedback misleads a client only by a toggle or its window's move, what there is to show is shown |
| `pointer` | 2 windows, 2 heads of width 2, sizes up to 3 | a lock is not pulled from under its window, focus takes the pointer along, a resize keeps its far edge whatever its press asked for before |
| `capture_leak` | violation | a Close between two locks leaves a capture that the tick renders for ever |

Bounds. Three columns make the far jump (`swap_slot_into_view`), the wrap of a
rotation and the two directions of a reveal differ; two rows make scrolling and
the vertical neighbours happen; two windows make a split, a survivor and a
neighbour; the third is there where two windows must be fullscreen, or beside,
while one has the focus. `MaxColumns` and `MaxRows` bound the chords that grow
the grid and nothing else. `VisibleColumns` starts at 1 or 2. A new column
widens the band, so columns lie off screen only where the chord that narrows it is
bound (`nav`); rows lie off screen as soon as there are two (`nav`,
`shells`).

`Screen`: with two windows and two rects a window can enter, leave, move, be
scaled or stay while the other one does something else, and each rect can be
vacated and taken in one layout. Two frames are the shortest flight with a moment
in the middle of it. The state is finite without further bounds.

`Power`: two heads make some-off differ from all-off; a timeout of 3 has an
elapsed time that is neither 0 nor due, and a reload to a shorter timeout that is
already over. `elapsed` stops counting at `MaxTimeout`, after which every timeout
is over. `MaxTimers` is 2 and a handler that might arm a timer waits for a free
token; with `OneClock` true there always is one, so the bound cuts nothing off. In the
`power` run no head refuses while the session is active, and all do while it is
switched away; a head that refuses alone breaks `OneClock` (see Proofs).

`Outputs`: two heads tell a head's own timers and power from the other's; the second
Output is either the other head's or the ghost of one unplugged or never
initialized, with a capture that waits for it. Two scheduled renders are enough for
loops to double, overtake each other and merge in a queued flip; a handler that
schedules a third waits until one was fired (`MaxTimers`), and every timer is fired.

`Cast`: two sessions are what a capture tick and the loop can confuse; two sizes let a
target be resized under its stream. A window target is not in the instance: it
vanishes like a monitor that is unplugged and does not return, so its behaviours are a
subset.

`Appearance`: two files let a key move from one to the other, be set in both or in
neither. `Acts` counts the acts of the user (a save, an added image, a command): three
are a change, the next one before the first took effect, and one after. With the acts
spent and no slideshow the system rests, so the deadlock check is off. Of three
images one is broken, so that a slideshow has two to show and one to skip. The output
has at most one `[[output]]` table: with two, the wallpaper takes the last one and keeps
the overridden image until the next eviction, and `CacheIsExact` is not claimed there.
`OneTablePerOutput` says so of every directory the user may write; TLC evaluates it on
the instance, and it is the premise of the theorem.

`Colour`: heads meet only in `toggle_hdr` and the SDR white, which treat each alike, so
one head shows every case of the frames; a window moves between it and no head, which
changes what its client should send as another head would. The theorems are about any
number of heads and windows. `Pointer`: two heads have
an edge between them and far edges; a width of 2 leaves a place to move to, a size of
3 grows a window beyond its head. `MaxAsked` is the one size a client may be behind with. A press may be followed by any
number of requests to move or resize, as `check_grab` lets it; `Near` bounds from where
TLC makes them, since a client that asks again in the middle of each drag takes its
window anywhere: in the run, from its tile's place, which a drag leaves and comes back
to. The theorems have any `Near`. Drags and constraints are in separate scenes, and the
scene of the drags has neither hover nor warps. Constraints are persistent, each window is its own
client, and layers and popups are left out.

`Outputs` lets the steps of a hotplug come between any two others, though the code
runs those of one event together: it has more behaviours than the program, never
fewer.

That focus and cursor agree (`FocusInActiveSlot`) is no invariant: the chord that narrows
the band is not in `dispatch_nav`'s refocus set, and leaves the focus in a column that has
gone off screen. So do a widening and a window promoted to a new column, where a move has
taken the cursor beyond the band, which both pull it back into. `KeepsSlot` is about
steps: none but these (`Clamps`) parts the two, and any other that moves the focus to a
tile brings them together again. Each disjunct of `Clamps` is needed: without it TLC finds
a behaviour of `nav` within seven steps.

Deadlock is checked in every run but `wallpaper`.

### Fairness

`Grid` and `Desktop` state none: what they promise is safety, and a handler's
several steps are one action. `Screen` has `WF_vars(Frame)`: each render of a lit
head in an active session ends by arranging for the next one (the vblank of the
flip it queued, or the heartbeat timer when nothing was damaged), and every render
steps the animations. It is therefore a statement about a session that is
switched to and has a lit head, and about renders that do not lose their context.
`Power` has `WF_vars(Idling)`: time passes, and calloop dispatches a timer that is
due. `GoesDark` is conditional on the rest of the world leaving the compositor
alone, so it asks no fairness of users or clients. `Outputs` has weak fairness of
`Render(h)` and `FrameFinish(h)` for each head: calloop fires what is due, and a flip
the kernel accepted has its vblank unless the CRTC is cleared under it. With
`LoopEndsOnlyBy` these give the frames that `Screen` and `Colour` assume: `Colour` has
weak fairness of a surface's render, and asks nothing of toggles and chords. In these
two and in `Appearance` an action's `ENABLED` is spelled out, as the condition under
which it changes something, so that the theorems about liveness can use it; on the
instances of the runs TLC finds it equal to `ENABLED`.

`Cast` has weak fairness of the loop's messages, of its capture tick, and of each
stream's thread (it reads its stop message, and PipeWire asks a stream that is ready
for frames), and strong fairness of the step in which `Close` takes the registry's
mutex: the loop holds it again and again, each time for a moment. Nothing is asked of
the user, the frontend, or PipeWire's connection: that a session is closed is a
premise. `Appearance` has the weak fairness of the debounce, the slideshow's timer, the
watcher's channel and each worker; an edit is never due.
`Pointer` has none; its properties are safety.

## Proofs

The first half of `Desktop_proofs` is about the operators of `Tiling` and `Grid`, for
trees and grids of every size, in three layers.

* *Trees.* Splitting a leaf, removing one and removing a set of them lead from split
  trees to split trees (unique ids, no leaf below another, both children of every
  split), and change the windows as the methods promise; the survivor is a leaf that
  stays. The code recurses on the tree; the lemmas are about paths, of which two part
  at a first turn. That a nonempty set of naturals has a least element (`LeastNatural`)
  is all the induction they need, which spares the induction over trees that the
  provers cannot do.
* *Shape.* Every method keeps a monitor *shaped*: at least one column, at least one group
  in each, the cursor on a column, every active row on a group, the band a nonempty
  prefix of the columns. These are about any set of groups and say nothing of trees.
* *Soundness.* `IsSound` adds that each group is a tree whose active window is in it, and
  that no two groups share a window. `Becomes(m, n, ws)` says that `n` is sound again
  and holds exactly `ws`; each method has such a lemma, with `ws` the windows it had,
  less one, or one more. Reveal, rotation and the swap into view add which group is under
  the cursor afterwards, and what is in view.

The second half lifts these to the specification, with two inductive invariants.

The first, `IInv`, is about indices and sets: every monitor is shaped; the fields of the
desk are sets of windows; `space`, `iconified` and `associated` are sets of *tracked*
windows; a fullscreen id is tracked or staged, and what is staged is a Wayland window;
X11 windows have a server (`Served`). It is stronger than the two properties proved from
it, because `IndexSafe` alone does not say that the focus is a window (an index operation
after `focus_by_id` needs it) and `NoTrace` alone does not say that a staged id is a
window. Since handlers compose methods, the proof goes through one relation,
`Follows(d, e)`: the desk `e` is well formed, tracks what `d` tracks, and has no new
untracked fullscreen id. Each method is shown to follow, and following is transitive.

* `Invariance`: `Spec => []IInv`.
* `IndexSafety` and `NoTraceLeft`, for every number of heads, columns, windows and every
  keymap.

The second, `Tidy`, is what holds *between* handlers. On top of `IInv` it has three
parts for the desk (`Settled`) and one for the counters:

* `IsPlaced`: sound monitors, no window on two of them, the grid within the tracked
  windows, and each managed window in the grid or fullscreen and never both;
* `AtHome`: a focused tile is on the monitor under the cursor. With another window, `old`,
  in place of the focused one it says more: a focused tile is in the slot under the
  cursor, unless it is `old`;
* `IsFresh`: what the Space has and what X11 clients were told is what the bands show;
* `Numbered`: ids are given in order, staged and tracked windows are apart, and what was
  withdrawn early has no surface.

No part is inductive without the others: a focus lands at home because a window that is
placed is found in one group; a swap or a carry doubles nothing because the ids of a
monitor are unique; a new window is nowhere yet because ids are counted. A handler
breaks all of them in the middle: it tracks a window before it has a tile, empties the
fullscreen set before the windows are back, moves the cursor before the focus. So each
helper has a lemma that says what it needs of the desk and what it repairs:
`IsPlacedBut(d, X)` is a desk on which the windows of `X` have no place yet, reveal and
the refocus tail restore `AtHome` from any placed desk, and `ApplyLayout` restores
`IsFresh` from any placed desk whatever was on screen. That each action ends in the
helpers which repair what it broke is then the proof of `NextTidy`.

* `Tidiness`: `Spec => []Tidy`.
* `TypeCorrect`, `GridSoundness`, `Partitioned`, `FocusUnderCursor`: `TypeOK`,
  `SoundGrid`, `Partition` and `FocusOnActiveMonitor`, without any assumption beyond
  the constants'.
* `FocusKeepsSlot`: the action property `KeepsSlot`, for every keymap. Every lemma about a
  helper or a handler is stated for any `old`, so one proof gives both: `Tidy` is inductive
  with `old` the window that has the focus, which is what the chords of `Clamps` keep, and
  any other step, taken from a desk where focus and cursor agree (`old` no window) or
  where they may not (`old` the focus before it), ends with the same `old` (`NextTidyFrom`).
* `ScreenFreshness`: `ScreenFresh`, where no menu asks for fullscreen. A menu that
  leaves fullscreen is given a tile; when it moves later, its configure notify maps it
  though its row may be hidden (`xwayland.rs:384`). TLC finds that with one menu and two
  rows, and the assumption is there for nothing else: the rest of `Tidy` allows such menus.
* `FocusSettlesAll` and `RaisedComesForward`: the action properties `FocusIsExclusive` and
  `ComesForward`, from `Tidy` and from what `focus_by_id` leaves of any placed desk. The
  first needs that the loop over the fullscreen set ends with the focused window's
  fullscreen only, in any order of a `HashSet`; the second that reveal brings any slot
  into view: far columns by a swap, rows by their column's cursor.

The only assumption is `DesktopAssumption`, what the constants are. One part of
it is not guaranteed by the code: `VisibleColumns > 0`. `config.rs` takes
`visible_columns` as it is written, and with 0 the first column does not exist.

`Screen_proofs` proves `Spec => ShowingSpec` (`Implements`), `PointerWarpsHome` and
`ScaledDrawnOnce` from one inductive invariant: only tracked windows are in the
Space and a fresh id is in no map (`Tidy`); a window drawn to scale is not in the
Space (`DrawnOnce`); and the layout last asked for is what `Settled` makes of the
Space and the tweens. The last part is the heart of it: `Settled` is what
`settle_tweens` would leave, so the invariant says that interrupting an animation
at any frame gives what the animation would have given.

`Power_proofs` has three parts. `ModeAlwaysTold` needs no assumption: its invariant
adds that registered objects are alive, that heads which are off exist, and that
an object is registered for one head only. `TimerIsOneClock` and
`TimerBlanksWhenIdle` assume `AllOrNone` (the heads refuse together or not at all):
with a single refusing head the timer's callback re-arms the timer through
`set_screen_power` and then forgets its token, and neither theorem holds. The
invariant is `OneClock` with its types; each way of arming the timer is shown to
put it on time, whatever it was before. `WatchNeverDropped` (`WatchEndsOnlyBy`) is again
without that assumption: it is about one step from any typed state, and asks of each way
of arming that it names a timer unless every head is off, something inhibits, or there is
no timeout (`RearmedNames`). The only step that ends the watch over a lit head and is
not an exception of the property would be a timer that fires, and where no head may
refuse that one turns every head off (`FireBlanksAll`).

`Outputs_proofs` proves `LoopEndsOnlyBy`, for any number of heads and of renders
scheduled at once. No invariant stronger than `TypeOK` is needed: the property is
about one step at a time, and a step that takes the last render of a head away either
leaves one behind or leaves nothing to draw. The lemma `LoopKept` goes through the
steps; most only add timers, while `Disconnect`, `PowerOff` and `ActivateSession`
may lose flips.

`Screen_proofs` also has `LostOneWay` (`ToldOrBelieved`): a client that was last told
another place than the layout's is one for which `last_configured` has the layout's.
The animated path is the only one that tells without recording, so a direct path is
wrong only where it believes that it need not tell. `TypeCorrect` there, and in
`Power_proofs`, `Outputs_proofs`, `Colour_proofs` and `Cast_proofs`, is the whole type
invariant.

`Colour_proofs` proves `EncodingAlwaysMatches` and `HeardAlwaysTrue` for any number of
heads. The invariant ties what is kept twice: what the connector has staged is what the
surface remembers to have applied (`StagedAsApplied`), and `hdr_outputs` names the
surfaces that run HDR, with nothing heard of an output that has gone (`CacheKept`).
Neither property is inductive without them: a frame takes its path from the surface and
its light from the connector, and a client is answered from the cache. The second half
of `HeardIsTrue`, about surface feedback, is a property of steps (`MisledBy`): an answer
fits the head the window is on, and what it should be changes with the window's head or
by a toggle and nothing else, a hotplug included.

`Cast_proofs` proves `StreamsHaveStops` and `CapturesInTime` for any number of
sessions. A running stream's stop handle is in the registry, with the loop, or used; for
that to be inductive, the registry must hold the sessions not yet closed (`Registered`),
the loop hold the mutex only between its two stores (`LockStores`), and a stream be asked
for and spawned only with a target (`AskedWithTarget`, `SpawnedWithTarget`).
`NoLateCapture` follows from the mutex. `CaptureHasSession` does not, and is the
violation run.

`Appearance_proofs` proves `TypeCorrect` and `CacheAlwaysExact`, for any finite set of
images, whichever of them decode, any outputs, settings and number of files, and any
tables the user may write. `CacheIsExact` is not inductive: a swap shows the prefetched
image at once, so the invariant adds that a prefetched image decoded, and with the
settings in force (`Fits`). That is what `receive_prefetch` checks when a result comes
late and what a reload keeps by dropping what was prefetched. Every method of the
manager is shown to lead from a manager of the right type to one, to keep `Fits`, and to
make an exact cache of an exact one. `resolve` is the exception: it needs only a cache
that is `Clean` (what it holds decodes, and was decoded with the settings in force),
which is true of the empty one at startup and of every exact one, and makes it exact
where the config has one table for each output. `SetWallpaper` needs more than it looks:
that an image which will not decode is not in the cache from before.
`TypeCorrect` has no such premise. That `index` stays in range is in it, while
`skip_unreadable` takes entries out, and that every merge of files which is accepted is a
config. For these `FlattenSeqType` (the library's recursive function exists, and
concatenates) and `Sortable` (a folder has an order) are proved by a least
counterexample. Besides `WallpaperAssumption` and `LoaderAssumption` the
theorems assume that what a file holds is a table whose keys have values of their kind
(`AppearanceAssumption`; any other file is `Malformed`).

`Pointer_proofs` proves all four properties of the run, for any number of heads and
windows, any layouts and any regions. `AnchorAlwaysHolds` needs an invariant, since
`AnchorHolds` is not inductive: a commit places a window by what its surface remembers,
not by the grab. `IsDrag` says that a grab which drags has a window and a rect, and
`Resizing` that the surface of the window it resizes remembers that rect and edge,
mapped or not. Nothing is said of the surfaces that no grab resizes, since one of them may
still be `Resizing` (see below). A layout then keeps the anchor because it puts what it maps on the tile it was
last configured for, a commit because it places a window by the size it commits.
`LockAlwaysHolds` and `PointerLandsOnFocus` are about one step from any typed state. They
rest on what is under a point being a mapped window that covers it (`UnderCovers`), on
`clamp_to_outputs` leaving alone what is on a head (`ClampedOnScreen`), and on
`TargetIsVisible`: the part of a window on a head is a run of points, and the middle of
the largest one is in it, so a warp lands on its window and is not clamped off it. The
stacking order is stated as what it keeps (`Raised`), which is all that the proofs need
of it. `NothingAssumption` says that
`Nothing` is no value of the types it stands in for.

Three liveness properties are proved too, each for every value of the constants. In
each, one fair step suffices: an invariant says that whenever the answer is due, a step
which gives it is pending, and nothing but that step, or the end of the premise, takes it
away.

* `CapturesGetAnswers` (`CapturesAnswered`). `AwaitedIsDrawn`: a head that can be drawn
  and has an awaited capture has a render scheduled or a flip in flight. It holds
  because the copy request nudges the heads, and because what else ends a loop
  (`LoopKept`) either leaves the head undrawable or is a render that lost its context
  once it had answered. A flip that ends schedules a render, and a render answers
  (`DrawnAnswers`): fairness is needed of both, in turn.
* `PictureAlwaysShown` (`PictureShown`). `SeenIsShown`: what either damage tracker claims
  to have seen of a lit head is on its screen, at the white the HDR path remembers. So a
  screen that is behind makes the next render find something (`BehindIsStale`), on
  whichever path it goes, and that render puts it right (`RenderShows`). That a plain
  frame which stands in for a failed HDR one counts as shown is part of the property.
* `SavedTakesEffect` (`ConfigTakesEffect`). `OnItsWay`: what is saved and not yet in force
  is with the watcher or has the debounce armed. The theorem has the premise that saving
  ends. The model's user saves at most `Acts` times, so every behaviour meets it; that a
  count with a bound ends is an induction which is not to be had here, and with the
  premise the theorem is about users who save as often as they like.

Model-checked only: `SameGrid`, since it compares with recursive operators, which the
prover does not handle; and the liveness whose steps must be counted: `ComesToRest` and
`GoesDark` (frames and ticks left), `ClosedStartEnds` and `CastShowsTarget` (messages in
a queue, rounds of a mutex) and `Rotates` (images to try). The prover's temporal logic is
propositional. It proves that one fair step follows another, but an argument by a
decreasing count is an induction over temporal formulas, which it has no rule for.

## Where code and comments part

`capture_leak` is the run whose finding `PROJECT.json` lists. The others below are true
of the models too; each property that they touch is stated with the exception named,
and the hazards say which.

* Focus that leaves for an empty group runs no layout: a fullscreen X11 window stays on
  screen (`input.rs:888` against `state.rs:2258`). So does a maximized one after a click
  on the empty desktop (`input.rs:446` against `state.rs:121`).
* A layout pass unmaps an open menu (`state.rs:2311` against `xwayland.rs:120`), until
  the menu moves and its configure notify maps it again (`xwayland.rs:384`). A menu that
  asks for fullscreen and leaves it is put in the grid (`xwayland.rs:410` against
  `state.rs:2612`).
* An X11 window withdrawn before its surface is associated keeps its tile
  (`xwayland.rs:64` against `xwayland.rs:59`).
* An XWayland that starts and dies at once is respawned for ever: every Ready forgives
  the exits before it (`main.rs:197` against `xwayland.rs:23`), so
  `respawn_attempts` never passes 1 in the model.
* A direct layout after an animated one skips a configure that the client needs
  (`state.rs:2459` against `state.rs:303`).
* The chord that narrows the band leaves the focus in a hidden column (`input.rs:546`
  against `input.rs:540`).
* The same goes for a widening and a window promoted to a new column while the cursor is
  beyond the band (`grid.rs:453` clamps it, and `input.rs:540` expects the focus to follow).
* A client told what to send for its surface learns nothing of a toggle or of its window's
  head: `color_management.rs:311` calls the answer the one by which gamescope decides to
  offer HDR, and `state.rs:702` re-advertises to output objects only.
* A press that asks for a resize and then for a move leaves `ResizeSurfaceState` at
  `Resizing` (`xdg_shell.rs:279`), so the window's commits put it back at the resized edge
  during the move and after it. A request for a window that is no longer mapped is
  unwrapped (`xdg_shell.rs:141`, `:173`).
* `config/default/input.toml:25` calls the warp inert "while any tracked window holds an
  active pointer lock or confinement"; `warp_pointer_to_focused_window` asks the focused
  one only (`state.rs:1988`).
* A head plugged in while every other is off is watched by no timer (`udev.rs:1006`
  against `state.rs:725`); a head that refuses to go off orphans one (`state.rs:845`).
* A head whose surface cannot be made stays mapped (`udev.rs:876`), a capture of a head
  that was unplugged stays queued (`screencopy.rs:281`), frames without damage start
  loops that run side by side (`udev.rs:2329`), and a toggle of HDR at rest is not
  followed by the frame its comment expects (`udev.rs:1167`).
* `capture.rs:66` says that the timer learns of a resize from `target_size`; it does not,
  the target's own size is read at each tick.
* Without a decode channel the comments promise an inline decode (`wallpaper.rs:294`,
  `wallpaper.rs:525`, `main.rs:750`), and no swap ever happens.

Met while modelling `Appearance`, and left as they are: a `[theme]` that is turned on
by a reload extracts no palette from the image that is already shown; `set_wallpaper`
during a slideshow lasts until the next swap, and evicts the palette of the image that
was prefetched, whose swap then keeps the old theme; a slideshow reduced to one entry
fires its timer every 250 ms; a theme turned off leaves its colours in
`theme_border_colors`. A save between the load at startup and the start of the watcher
is missed, and so is one in a directory that is linked or renamed: the model starts
after both.

## Not modelled

* Pixels: composition, shaders, rounding, text, the decorations' drawing, the colour
  arithmetic of palettes and themes. Tile geometry is arithmetic on rects.
* Parsing: TOML, the clamps of each setting, EDID, ICC and image files. What a parser
  lets through and what it refuses are inputs of the models.
* The startup commands that the first Ready of XWayland runs, and the DISPLAY that
  children get.
* The binding of heads to monitors by a config that is reloaded, and heads of several
  devices: in `Desktop` every head keeps its monitor (hazard at `state.rs:1124`).
* The status socket's subscriptions and the taskbar's refresh, which repeat the state
  to clients; media keys and spawned commands, which change nothing here.
* The nested winit backend, and what smithay does for the compositor (seats,
  selections, buffers, popups, the ext-idle-notify broadcast). They either keep no state
  between calls or keep state that no other component reads.
* In `Cast`, the rows of the chooser, the formats PipeWire negotiates, a renderer that
  fails for one capture, the variable that forces a target, and a client that calls
  `Start` twice. In `Colour`, presentation feedback, EDID luminance and a queue that
  fails. In `Wallpaper`, animated images and a decode thread that panics.

## Plan

1. An abstract "every window is in one place" that `Desktop` refines.
2. *Heads and monitors*: the binding by a reloaded config, above `Outputs` and `Desktop`.

A dozen runs is what a full check takes in good time. A new module composes with
what it interacts with rather than getting a run of its own, and a violation run
gives way when its finding is fixed.
