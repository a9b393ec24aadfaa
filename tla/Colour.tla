------------------------------- MODULE Colour -------------------------------
(***************************************************************************)
(* High dynamic range on the heads of the DRM backend: how render_surface  *)
(* (src/udev.rs) draws a frame, in which encoding, under which colour      *)
(* state of the connector, and when it finds that nothing changed; the     *)
(* toggle, power and hotplug around it; and what clients are told to       *)
(* encode for: of an output, and for a surface (src/color_management.rs).  *)
(*                                                                         *)
(* When a head is rendered is the subject of Outputs: here it may be at    *)
(* any time while it is lit.  Two trackers decide whether there is         *)
(* anything to draw, and neither knows what the other has seen: the HDR    *)
(* path's own, and the one inside smithay's DrmCompositor.                 *)
(***************************************************************************)
EXTENDS Naturals, FiniteSets

CONSTANTS Head,      \* connectors
          Bt2020,    \* those that take the HDR colour state
          Nits,      \* settings of SDR white
          Window,    \* windows whose clients ask what to send for their surface
          Nothing    \* no value

\* DecodeKind, and what of it asks for more range than SDR has.
DecodeKind == {"Sdr", "HdrPq", "WindowsScrgb"}
is_hdr(kind) == kind \in {"HdrPq", "WindowsScrgb"}

ASSUME ColourAssumption ==
  /\ Bt2020 \subseteq Head
  /\ Nothing \notin Head
  /\ Nothing \notin Nits /\ Nothing \notin BOOLEAN
  /\ Nothing \notin DecodeKind \cup {"srgb", "pq"}

\* How a client encodes its own buffer.
Encoding == [Sdr |-> "srgb", HdrPq |-> "pq", WindowsScrgb |-> "linear"]

\* What a head shows.  "mixed" is pixels of several encodings in one frame; white
\* is the SDR white they were composited at; current says that no client has
\* committed since.
Frame == [pixels: {"dark", "srgb", "pq", "linear", "mixed"}, connector: {"sdr", "pq"},
          white: Nits \cup {Nothing}, fallback: BOOLEAN, current: BOOLEAN]

VARIABLES
  connected,      \* heads with a surface
  hdr_capable,    \* SurfaceData::hdr_capable: hdr = true in the config it came up with
  hdr,            \* SurfaceData::hdr
  hdr_outputs,    \* the cache clients are answered from
  power_off,      \* heads powered off
  fullscreen,     \* the kind of the window that covers a head, or Nothing
  hdr_content,    \* heads with an HDR window, layer or wallpaper on them
  sdr_white_nits,
  hdr_last_nits,  \* the value of it the HDR path last composited at
  applied,        \* SurfaceData::applied_connector_hdr
  staged,         \* the connector's colour state for the next commit
  tracker,        \* heads whose hdr_damage_tracker has seen all there is
  drm,            \* what the DrmCompositor compares with: "none", "raw", "encode"
  screen,         \* what the head shows
  heard,          \* what clients with an output object know each output to be, or Nothing
  on,             \* the head each window is on, or Nothing: not mapped, or off the screen
  preferred       \* what surface feedback last answered for it, or Nothing

surface == <<connected, hdr_capable, hdr, hdr_outputs, power_off>>
content == <<fullscreen, hdr_content, sdr_white_nits>>
frames == <<hdr_last_nits, applied, staged, tracker, drm, screen>>
feedback == <<on, preferred>>
vars == <<surface, content, frames, heard, feedback>>

\* Every part of the state holds a value of its kind; only heads with a surface
\* have state, and only those made for HDR run it.  Proved, for every value of the
\* constants.
TypeOK ==
  /\ connected \subseteq Head
  /\ hdr_capable \subseteq connected
  /\ hdr \subseteq hdr_capable
  /\ hdr_outputs \subseteq connected
  /\ power_off \subseteq connected
  /\ fullscreen \in [Head -> DecodeKind \cup {Nothing}]
  /\ hdr_content \subseteq Head
  /\ \A h \in Head : fullscreen[h] # Nothing /\ is_hdr(fullscreen[h]) => h \in hdr_content
  /\ sdr_white_nits \in Nits
  /\ hdr_last_nits \in [Head -> Nits \cup {Nothing}]
  /\ applied \in [Head -> BOOLEAN \cup {Nothing}]
  /\ staged \in [Head -> {"sdr", "pq"}]
  /\ tracker \subseteq Head
  /\ drm \in [Head -> {"none", "raw", "encode"}]
  /\ screen \in [Head -> Frame]
  /\ heard \in [Head -> {"srgb", "pq", Nothing}]
  /\ on \in [Window -> connected \cup {Nothing}]
  /\ preferred \in [Window -> {"srgb", "pq", Nothing}]
  /\ \A h \in Head : screen[h].pixels = "dark" => drm[h] = "none" /\ ~screen[h].current
  /\ \A h \in Head : ~(h \in connected \ power_off) => screen[h].pixels = "dark"

Dark == [pixels |-> "dark", connector |-> "sdr", white |-> Nothing, fallback |-> FALSE,
         current |-> FALSE]

Init ==
  /\ connected = {} /\ hdr_capable = {} /\ hdr = {} /\ hdr_outputs = {} /\ power_off = {}
  /\ fullscreen = [h \in Head |-> Nothing]
  /\ hdr_content \in SUBSET Head
  /\ sdr_white_nits \in Nits
  /\ hdr_last_nits = [h \in Head |-> Nothing]
  /\ applied = [h \in Head |-> Nothing]
  /\ staged = [h \in Head |-> "sdr"]
  /\ tracker = {}
  /\ drm = [h \in Head |-> "none"]
  /\ screen = [h \in Head |-> Dark]
  /\ heard = [h \in Head |-> Nothing]
  /\ on = [w \in Window |-> Nothing] /\ preferred = [w \in Window |-> Nothing]

Lit(h) == h \in connected \ power_off

-----------------------------------------------------------------------------
(* The colour state of the connector.                                      *)

\* A connector without support, or one that fails to stage, keeps what it has.
set_hdr_output_properties(h) == IF h \in Bt2020 THEN "pq" ELSE staged[h]
set_sdr_output_properties(h) == "sdr"

\* Under exclusive fullscreen the connector follows the content, else the head.
desired_connector_hdr(h) ==
  IF fullscreen[h] = "Sdr" THEN FALSE ELSE h \in hdr_capable /\ h \in hdr

\* What is staged when this frame is committed.
Staged(h) ==
  IF applied[h] = desired_connector_hdr(h) THEN staged[h]
  ELSE IF desired_connector_hdr(h) THEN set_hdr_output_properties(h)
  ELSE set_sdr_output_properties(h)

-----------------------------------------------------------------------------
(* The pixels of a frame.                                                  *)

sdr_tonemap_needed(h) == h \notin hdr /\ h \in hdr_content

\* Drawn straight to scan-out: a fullscreen buffer as it is, or tone-mapped, or
\* the desktop with its HDR content, if any, tone-mapped.
PlainPixels(h) ==
  IF sdr_tonemap_needed(h) THEN "srgb"
  ELSE IF fullscreen[h] # Nothing THEN Encoding[fullscreen[h]]
  ELSE IF h \in hdr_content THEN "mixed" ELSE "srgb"

\* Each surface decoded in its own way, or, where none is HDR, all in one.
render_surface_hdr_zrun(h) == "pq"
render_surface_hdr(h) == IF h \in hdr_content THEN "mixed" ELSE "pq"

HdrPixels(h) ==
  IF h \in hdr_content THEN render_surface_hdr_zrun(h) ELSE render_surface_hdr(h)

\* Mutant of TakesHdrPath: any fullscreen buffer may be scanned out as it is.
TakesHdrPathOnDesktop(h) == h \in hdr /\ fullscreen[h] = Nothing

\* A linear buffer needs the conversion; the others are what the connector wants.
TakesHdrPath(h) == h \in hdr /\ fullscreen[h] \in {Nothing, "WindowsScrgb"}

-----------------------------------------------------------------------------
(* render_surface.                                                         *)

Shows(h, pixels, white, fallback) ==
  screen' = [screen EXCEPT ![h] = [pixels |-> pixels, connector |-> Staged(h), white |-> white,
                                   fallback |-> fallback, current |-> TRUE]]

\* A frame of the element list itself; without damage there is none, and the
\* program an element is drawn with is no part of it.
PlainFrame(h, fallback) ==
  IF drm[h] = "raw"
  THEN UNCHANGED <<drm, screen>>
  ELSE drm' = [drm EXCEPT ![h] = "raw"] /\ Shows(h, PlainPixels(h), Nothing, fallback)

\* A frame of the offscreen, encoded.
HdrFrame(h) ==
  /\ drm' = [drm EXCEPT ![h] = "encode"]
  /\ Shows(h, HdrPixels(h), sdr_white_nits, FALSE)

\* Whether the HDR path finds anything to composite.
HdrDamage(h) == h \notin tracker \/ hdr_last_nits[h] # sdr_white_nits

\* The colour state is settled first, whatever becomes of the frame.  The HDR
\* path may fail once its tracker has moved on, and a plain frame stands in.
render_surface(h) ==
  /\ Lit(h)
  /\ applied' = [applied EXCEPT ![h] = desired_connector_hdr(h)]
  /\ staged' = [staged EXCEPT ![h] = Staged(h)]
  /\ IF ~TakesHdrPath(h)
     THEN PlainFrame(h, FALSE) /\ UNCHANGED <<tracker, hdr_last_nits>>
     ELSE /\ tracker' = tracker \cup {h}
          /\ IF ~HdrDamage(h)
             THEN UNCHANGED <<hdr_last_nits, drm, screen>>
             ELSE /\ hdr_last_nits' = [hdr_last_nits EXCEPT ![h] = sdr_white_nits]
                  /\ HdrFrame(h) \/ PlainFrame(h, TRUE)
  /\ UNCHANGED <<surface, content, heard, feedback>>

-----------------------------------------------------------------------------
(* What is drawn changes.                                                  *)

\* The elements of head h are no longer what either tracker has seen.
Damaged(h) ==
  /\ tracker' = tracker \ {h}
  /\ drm' = [drm EXCEPT ![h] = IF @ = "raw" THEN "none" ELSE @]
  /\ screen' = [screen EXCEPT ![h] = IF @.pixels = "dark" THEN @ ELSE [@ EXCEPT !.current = FALSE]]

\* A client commits, and with it may cover the head, uncover it or bring or take
\* HDR content.  A window that covers the head has drawn itself at that size.
Commit(h) ==
  /\ fullscreen' \in {[fullscreen EXCEPT ![h] = k] : k \in DecodeKind \cup {Nothing}}
  /\ hdr_content' \in {hdr_content \ {h}, hdr_content \cup {h}}
  /\ fullscreen'[h] # Nothing /\ is_hdr(fullscreen'[h]) => h \in hdr_content'
  /\ Damaged(h)
  /\ UNCHANGED <<surface, sdr_white_nits, hdr_last_nits, applied, staged, heard, feedback>>

\* The brightness chords, and a reload, change a uniform and no element.
SetSdrWhite ==
  /\ sdr_white_nits' \in Nits \ {sdr_white_nits}
  /\ UNCHANGED <<surface, fullscreen, hdr_content, frames, heard, feedback>>

-----------------------------------------------------------------------------
(* The heads.                                                              *)

description_for_output(h) == IF h \in hdr_outputs THEN "pq" ELSE "srgb"

\* A client asks of an output it has bound, by its wp_color_management_output_v1.
GetImageDescription(h) ==
  /\ h \in connected
  /\ heard' = [heard EXCEPT ![h] = description_for_output(h)]
  /\ UNCHANGED <<surface, content, frames, feedback>>

\* A client asks what to send for the surface of w: it is answered for the head the
\* window is on, and before it is mapped for the active monitor, whichever that is.
preferred_description_for_surface(w) ==
  /\ \E h \in IF on[w] # Nothing THEN {on[w]} ELSE IF connected # {} THEN connected ELSE {Nothing} :
       preferred' = [preferred EXCEPT ![w] = description_for_output(h)]
  /\ UNCHANGED <<surface, content, frames, heard, on>>

\* The window is mapped, carried to another head, or unmapped: nothing tells its client
\* what this means for what it sends.
Moves(w) ==
  /\ \E h \in (connected \cup {Nothing}) \ {on[w]} : on' = [on EXCEPT ![w] = h]
  /\ UNCHANGED <<surface, content, frames, heard, preferred>>

\* Mutant of toggle_hdr: the cache is left to drift.
toggle_hdr_surfaces ==
  /\ hdr_capable # {}
  /\ hdr' = (hdr \ hdr_capable) \cup (hdr_capable \ hdr)
  /\ heard' = [h \in Head |-> IF h \in hdr_capable THEN Nothing ELSE heard[h]]
  /\ UNCHANGED <<connected, hdr_capable, hdr_outputs, power_off, content, frames, feedback>>

\* Every head made for HDR changes over, the cache with it, and whoever bound the
\* output is told that what it heard no longer holds.  Surface feedback is told nothing.
toggle_hdr ==
  /\ hdr_capable # {}
  /\ hdr' = (hdr \ hdr_capable) \cup (hdr_capable \ hdr)
  /\ hdr_outputs' = (hdr_outputs \ hdr_capable) \cup (hdr_capable \ hdr)
  /\ heard' = [h \in Head |-> IF h \in hdr_capable THEN Nothing ELSE heard[h]]
  /\ UNCHANGED <<connected, hdr_capable, power_off, content, frames, feedback>>

\* A surface made anew; hdr is what the config says by then.
connector_connected(h) ==
  /\ h \notin connected
  /\ connected' = connected \cup {h}
  /\ \E output_hdr \in BOOLEAN :
       LET with(S) == IF output_hdr THEN S \cup {h} ELSE S \ {h}
       IN  /\ hdr_capable' = with(hdr_capable) /\ hdr' = with(hdr)
           /\ hdr_outputs' = with(hdr_outputs)
           /\ staged' = [staged EXCEPT ![h] = IF output_hdr THEN set_hdr_output_properties(h) ELSE @]
  /\ hdr_last_nits' = [hdr_last_nits EXCEPT ![h] = Nothing]
  /\ applied' = [applied EXCEPT ![h] = Nothing]
  /\ tracker' = tracker \ {h}
  /\ UNCHANGED <<power_off, content, drm, screen, heard, feedback>>

\* The surface goes, the global with what clients heard of it, and the space no longer
\* has a window there.
connector_disconnected(h) ==
  /\ h \in connected
  /\ connected' = connected \ {h}
  /\ hdr_capable' = hdr_capable \ {h} /\ hdr' = hdr \ {h} /\ hdr_outputs' = hdr_outputs \ {h}
  /\ power_off' = power_off \ {h}
  /\ screen' = [screen EXCEPT ![h] = Dark] /\ drm' = [drm EXCEPT ![h] = "none"]
  /\ staged' = [staged EXCEPT ![h] = "sdr"]
  /\ heard' = [heard EXCEPT ![h] = Nothing]
  /\ on' = [w \in Window |-> IF on[w] = h THEN Nothing ELSE on[w]]
  /\ UNCHANGED <<content, hdr_last_nits, applied, tracker, preferred>>

\* The planes are cleared; the trackers are not.
PowerOff(h) ==
  /\ Lit(h)
  /\ power_off' = power_off \cup {h}
  /\ screen' = [screen EXCEPT ![h] = Dark] /\ drm' = [drm EXCEPT ![h] = "none"]
  /\ UNCHANGED <<connected, hdr_capable, hdr, hdr_outputs, content, hdr_last_nits, applied,
                 staged, tracker, heard, feedback>>

\* Mutant of PowerOn: the HDR path's tracker outlives the blank.
PowerOnTracked(h) ==
  /\ h \in power_off
  /\ power_off' = power_off \ {h}
  /\ applied' = [applied EXCEPT ![h] = Nothing]
  /\ UNCHANGED <<connected, hdr_capable, hdr, hdr_outputs, content, hdr_last_nits, staged,
                 tracker, drm, screen, heard, feedback>>

\* Whatever was seen before the blank is no longer on the screen.
PowerOn(h) ==
  /\ h \in power_off
  /\ power_off' = power_off \ {h}
  /\ applied' = [applied EXCEPT ![h] = Nothing]
  /\ tracker' = tracker \ {h}
  /\ UNCHANGED <<connected, hdr_capable, hdr, hdr_outputs, content, hdr_last_nits, staged,
                 drm, screen, heard, feedback>>

Next ==
  \/ \E h \in Head : \/ render_surface(h) \/ Commit(h) \/ GetImageDescription(h)
                     \/ connector_connected(h) \/ connector_disconnected(h)
                     \/ PowerOff(h) \/ PowerOn(h)
  \/ \E w \in Window : preferred_description_for_surface(w) \/ Moves(w)
  \/ SetSdrWhite \/ toggle_hdr

\* Whether a render of h would change anything: the colour state, or the picture where
\* the tracker on its path finds something new.
Stale(h) ==
  \/ applied[h] # desired_connector_hdr(h)
  \/ IF TakesHdrPath(h) THEN HdrDamage(h) ELSE drm[h] # "raw"

\* A lit head is rendered again and again (LoopEndsOnlyBy of Outputs): weak fairness
\* of its renders, with their ENABLED spelled out.
Fairness(h) == []<>~(Lit(h) /\ Stale(h)) \/ []<><<render_surface(h)>>_vars

Spec == Init /\ [][Next]_vars /\ \A h \in Head : Fairness(h)

-----------------------------------------------------------------------------
\* Every frame goes out in the encoding its connector was told to expect, through
\* toggles, fullscreen windows of every kind, HDR content on an SDR head, blanks
\* and hotplug: where the connector takes the HDR state at all, and but for the
\* plain frame that stands in for a failed HDR one.
EncodingMatches ==
  \A h \in Bt2020 :
    screen[h].pixels # "dark" /\ ~screen[h].fallback
      => screen[h].pixels = IF screen[h].connector = "pq" THEN "pq" ELSE "srgb"

\* What the screen of head h shows is what there is to show, at the white set.
Shown(h) ==
  /\ screen[h].current
  /\ screen[h].pixels = "pq" /\ TakesHdrPath(h) => screen[h].white = sdr_white_nits

\* Whatever a client commits, or the user sets SDR white to, comes to be shown,
\* whichever of the two trackers saw what, and also after a blank.
PictureShown == \A h \in Head : (Lit(h) /\ ~Shown(h)) ~> (~Lit(h) \/ Shown(h))

\* The encoding that fits head h.
Fits(h) == IF h \in hdr THEN "pq" ELSE "srgb"

\* What clients heard of an output, and were not told to ask for again, fits it.
OutputsHeard == \A h \in Head : heard[h] \in {Nothing, Fits(h)}

\* The client of w encodes for another kind of head than the one its window is on.
Misled(w) == on[w] # Nothing /\ preferred[w] \notin {Nothing, Fits(on[w])}

\* No client is misled by an answer, though all are given from a cache: one that bound
\* the output is told of every change, and one that asked for a surface is misled only
\* once its window has come to another head or the user has toggled HDR, of which it
\* is told nothing, and no longer than until it asks again.
HeardIsTrue ==
  [][/\ OutputsHeard'
     /\ \A w \in Window :
          Misled(w)' => \/ Misled(w) /\ ~preferred_description_for_surface(w)
                        \/ Moves(w) \/ toggle_hdr]_vars
===============================================================================
