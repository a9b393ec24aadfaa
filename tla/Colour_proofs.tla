---------------------------- MODULE Colour_proofs ----------------------------
(***************************************************************************)
(* Proofs about Colour: every frame goes out in the encoding its connector *)
(* expects, and no client is misled by the description it is answered      *)
(* with.  The invariant ties each piece of state that is kept twice: what  *)
(* is staged with what is remembered as applied, the cache with the heads. *)
(***************************************************************************)
EXTENDS Colour, TLAPS

\* What a lit head's connector has staged is what it is remembered to have.
StagedAsApplied ==
  \A h \in Bt2020 \cap connected :
    applied[h] # Nothing => staged[h] = IF applied[h] THEN "pq" ELSE "sdr"

\* The cache clients are answered from names the heads that run HDR, and what
\* a client heard is of a head there is.
CacheKept ==
  /\ hdr_outputs = hdr
  /\ \A h \in Head : heard[h] # Nothing => h \in connected

IInv == TypeOK /\ StagedAsApplied /\ CacheKept /\ EncodingMatches /\ OutputsHeard

LEMMA Distinct ==
  /\ Nothing \notin Nits /\ Nothing \notin {"Sdr", "HdrPq", "WindowsScrgb"}
  /\ Nothing \notin BOOLEAN /\ Nothing \notin {"srgb", "pq"}
  /\ Bt2020 \subseteq Head /\ Nothing \notin Head
BY ColourAssumption DEF DecodeKind

\* The connector follows what render_surface asks of it, on a head that takes
\* the HDR state.
LEMMA StagedFollows ==
  ASSUME TypeOK, StagedAsApplied, NEW h \in Bt2020 \cap connected
  PROVE  Staged(h) = IF desired_connector_hdr(h) THEN "pq" ELSE "sdr"
<1>1. desired_connector_hdr(h) \in BOOLEAN
  BY DEF TypeOK, desired_connector_hdr
<1>2. CASE applied[h] = desired_connector_hdr(h)
  BY <1>1, <1>2, Distinct DEF StagedAsApplied, Staged
<1>3. CASE applied[h] # desired_connector_hdr(h)
  BY <1>3 DEF Staged, set_hdr_output_properties, set_sdr_output_properties
<1> QED BY <1>2, <1>3

\* A frame of the element list is in PQ exactly when the connector is asked to
\* be: the window that covers the head is scanned out as it is, or tone-mapped.
LEMMA PlainMatches ==
  ASSUME TypeOK, NEW h \in Head, ~TakesHdrPath(h)
  PROVE  PlainPixels(h) = IF desired_connector_hdr(h) THEN "pq" ELSE "srgb"
<1>1. fullscreen[h] \in {"Sdr", "HdrPq", "WindowsScrgb", Nothing} /\ hdr \subseteq hdr_capable
  BY DEF TypeOK, DecodeKind
<1>2. fullscreen[h] \in {"HdrPq", "WindowsScrgb"} => h \in hdr_content
  BY Distinct DEF TypeOK, is_hdr
<1>3. CASE h \in hdr
  <2>1. fullscreen[h] \in {"Sdr", "HdrPq"}
    BY <1>1, <1>3 DEF TakesHdrPath
  <2> QED BY <1>1, <1>3, <2>1, Distinct
    DEF PlainPixels, sdr_tonemap_needed, Encoding, desired_connector_hdr
<1>4. CASE h \notin hdr
  BY <1>1, <1>2, <1>4, Distinct
  DEF PlainPixels, sdr_tonemap_needed, Encoding, desired_connector_hdr
<1> QED BY <1>3, <1>4

\* A frame of the offscreen is in PQ, and so is the connector.
LEMMA HdrMatches ==
  ASSUME TypeOK, NEW h \in Head, TakesHdrPath(h)
  PROVE  desired_connector_hdr(h)
BY Distinct DEF TypeOK, TakesHdrPath, desired_connector_hdr

-----------------------------------------------------------------------------
(* render_surface.                                                         *)

LEMMA RenderKeepsTypes ==
  ASSUME IInv, NEW h \in Head, render_surface(h)
  PROVE  TypeOK'
<1>1. desired_connector_hdr(h) \in BOOLEAN /\ Staged(h) \in {"sdr", "pq"}
  BY DEF IInv, TypeOK, desired_connector_hdr, Staged, set_hdr_output_properties,
         set_sdr_output_properties
<1>2. PlainPixels(h) \in {"srgb", "pq", "linear", "mixed"} /\ HdrPixels(h) \in {"pq", "mixed"}
  BY DEF IInv, TypeOK, PlainPixels, HdrPixels, render_surface_hdr, render_surface_hdr_zrun,
         Encoding, DecodeKind
<1>3. /\ tracker' \subseteq Head /\ hdr_last_nits' \in [Head -> Nits \cup {Nothing}]
      /\ applied' \in [Head -> BOOLEAN \cup {Nothing}] /\ staged' \in [Head -> {"sdr", "pq"}]
  BY <1>1 DEF IInv, TypeOK, render_surface
<1>4. \/ UNCHANGED <<drm, screen>>
      \/ \E pixels \in {"srgb", "pq", "linear", "mixed"}, white \in Nits \cup {Nothing},
            fallback \in BOOLEAN, d \in {"raw", "encode"} :
           drm' = [drm EXCEPT ![h] = d] /\ Shows(h, pixels, white, fallback)
  <2>1. CASE UNCHANGED <<drm, screen>>
    BY <2>1
  <2>2. CASE \E fallback \in BOOLEAN :
               drm' = [drm EXCEPT ![h] = "raw"] /\ Shows(h, PlainPixels(h), Nothing, fallback)
    BY <1>2, <2>2
  <2>3. CASE drm' = [drm EXCEPT ![h] = "encode"] /\ Shows(h, HdrPixels(h), sdr_white_nits, FALSE)
    BY <1>2, <2>3 DEF IInv, TypeOK
  <2> QED BY <2>1, <2>2, <2>3 DEF render_surface, PlainFrame, HdrFrame
<1>5. /\ drm' \in [Head -> {"none", "raw", "encode"}] /\ screen' \in [Head -> Frame]
      /\ \A g \in Head : screen'[g].pixels = "dark" => drm'[g] = "none" /\ ~screen'[g].current
      /\ \A g \in Head \ {h} : screen'[g] = screen[g]
  <2>1. CASE UNCHANGED <<drm, screen>>
    BY <2>1 DEF IInv, TypeOK
  <2>2. ASSUME NEW pixels \in {"srgb", "pq", "linear", "mixed"}, NEW white \in Nits \cup {Nothing},
               NEW fallback \in BOOLEAN, NEW d \in {"raw", "encode"},
               drm' = [drm EXCEPT ![h] = d], Shows(h, pixels, white, fallback)
        PROVE  /\ drm' \in [Head -> {"none", "raw", "encode"}] /\ screen' \in [Head -> Frame]
               /\ \A g \in Head : screen'[g].pixels = "dark" => drm'[g] = "none" /\ ~screen'[g].current
               /\ \A g \in Head \ {h} : screen'[g] = screen[g]
    <3>1. [pixels |-> pixels, connector |-> Staged(h), white |-> white, fallback |-> fallback,
           current |-> TRUE] \in Frame
      BY <1>1, <2>2 DEF Frame
    <3> QED BY <2>2, <3>1 DEF IInv, TypeOK, Shows
  <2> QED BY <1>4, <2>1, <2>2
<1>6. UNCHANGED <<surface, content, heard, feedback>> /\ h \in connected \ power_off
  BY DEF render_surface, Lit
<1> QED BY <1>3, <1>5, <1>6 DEF IInv, TypeOK, surface, content, feedback

LEMMA RenderKeeps ==
  ASSUME IInv, NEW h \in Head, render_surface(h)
  PROVE  IInv'
<1>1. TypeOK'
  BY RenderKeepsTypes
<1>2. UNCHANGED <<connected, hdr_capable, hdr, hdr_outputs, power_off, heard>> /\ h \in connected
  BY DEF render_surface, Lit, surface
<1>3. /\ applied' = [applied EXCEPT ![h] = desired_connector_hdr(h)]
      /\ staged' = [staged EXCEPT ![h] = Staged(h)]
  BY DEF render_surface
<1>4. StagedAsApplied'
  <2> SUFFICES ASSUME NEW g \in Bt2020 \cap connected, applied'[g] # Nothing
               PROVE  staged'[g] = IF applied'[g] THEN "pq" ELSE "sdr"
    BY <1>2 DEF StagedAsApplied
  <2>1. CASE g = h
    BY <1>3, <2>1, StagedFollows, Distinct DEF IInv, TypeOK
  <2>2. CASE g # h
    BY <1>3, <2>2, Distinct DEF IInv, TypeOK, StagedAsApplied
  <2> QED BY <2>1, <2>2
<1>5. CacheKept' /\ OutputsHeard'
  BY <1>2 DEF IInv, CacheKept, OutputsHeard, Fits
<1>6. EncodingMatches'
  <2> SUFFICES ASSUME NEW g \in Bt2020, screen'[g].pixels # "dark", ~screen'[g].fallback
               PROVE  screen'[g].pixels = IF screen'[g].connector = "pq" THEN "pq" ELSE "srgb"
    BY DEF EncodingMatches
  <2>1. CASE screen'[g] = screen[g]
    BY <2>1 DEF IInv, EncodingMatches
  <2>2. CASE screen'[g] # screen[g]
    <3>1. g = h /\ g \in Bt2020 \cap connected
      BY <1>2, <2>2, Distinct
      DEF IInv, TypeOK, render_surface, PlainFrame, HdrFrame, Shows
    <3>2. Staged(h) = IF desired_connector_hdr(h) THEN "pq" ELSE "sdr"
      BY <3>1, StagedFollows DEF IInv
    <3>3. CASE TakesHdrPath(h)
      <4>1. screen'[h].pixels = HdrPixels(h) /\ screen'[h].connector = Staged(h)
        BY <2>2, <3>1, <3>3 DEF IInv, TypeOK, render_surface, PlainFrame, HdrFrame, Shows
      <4>2. HdrPixels(h) = "pq" /\ Staged(h) = "pq"
        BY <3>2, <3>3, HdrMatches
        DEF IInv, HdrPixels, render_surface_hdr, render_surface_hdr_zrun
      <4> QED BY <3>1, <4>1, <4>2
    <3>4. CASE ~TakesHdrPath(h)
      <4>1. screen'[h].pixels = PlainPixels(h) /\ screen'[h].connector = Staged(h)
        BY <2>2, <3>1, <3>4 DEF IInv, TypeOK, render_surface, PlainFrame, Shows
      <4>2. PlainPixels(h) = IF desired_connector_hdr(h) THEN "pq" ELSE "srgb"
        BY <3>4, PlainMatches DEF IInv
      <4> QED BY <3>1, <3>2, <4>1, <4>2
    <3> QED BY <3>3, <3>4
  <2> QED BY <2>1, <2>2
<1> QED BY <1>1, <1>4, <1>5, <1>6 DEF IInv

-----------------------------------------------------------------------------
(* What is drawn changes.                                                  *)

LEMMA CommitKeeps ==
  ASSUME IInv, NEW h \in Head, Commit(h)
  PROVE  IInv'
<1>1. UNCHANGED <<connected, hdr_capable, hdr, hdr_outputs, power_off, sdr_white_nits,
                  hdr_last_nits, applied, staged, heard, on, preferred>>
  BY DEF Commit, surface, feedback
<1>2. \A g \in Head : /\ screen[g] \in Frame
                      /\ screen'[g] = screen[g] \/ screen'[g] = [screen[g] EXCEPT !.current = FALSE]
                      /\ screen[g].pixels = "dark" => screen'[g] = screen[g]
  BY DEF IInv, TypeOK, Commit, Damaged
<1>3. \A g \in Head : /\ screen'[g] \in Frame
                      /\ screen'[g].pixels = screen[g].pixels
                      /\ screen'[g].connector = screen[g].connector
                      /\ screen'[g].fallback = screen[g].fallback
                      /\ screen'[g].current => screen[g].current
  BY <1>2 DEF Frame
<1>4. TypeOK'
  <2>1. /\ fullscreen' \in [Head -> DecodeKind \cup {Nothing}] /\ hdr_content' \subseteq Head
        /\ \A g \in Head : fullscreen'[g] # Nothing /\ is_hdr(fullscreen'[g]) => g \in hdr_content'
    BY DEF IInv, TypeOK, Commit
  <2>2. /\ tracker' \subseteq Head
        /\ drm' \in [Head -> {"none", "raw", "encode"}]
        /\ \A g \in Head : drm[g] = "none" => drm'[g] = "none"
    BY DEF IInv, TypeOK, Commit, Damaged
  <2>3. screen' \in [Head -> Frame]
    <3>1. screen' = [g \in Head |-> screen'[g]]
      BY DEF IInv, TypeOK, Commit, Damaged
    <3> QED BY <1>3, <3>1
  <2> QED BY <1>1, <1>3, <2>1, <2>2, <2>3 DEF IInv, TypeOK
<1>5. StagedAsApplied' /\ CacheKept' /\ OutputsHeard'
  BY <1>1 DEF IInv, StagedAsApplied, CacheKept, OutputsHeard, Fits
<1>6. EncodingMatches'
  BY <1>3, Distinct DEF IInv, EncodingMatches
<1> QED BY <1>4, <1>5, <1>6 DEF IInv

LEMMA SetSdrWhiteKeeps ==
  ASSUME IInv, SetSdrWhite
  PROVE  IInv'
BY DEF IInv, TypeOK, StagedAsApplied, CacheKept, EncodingMatches, OutputsHeard, Fits, SetSdrWhite,
       surface, frames, feedback

-----------------------------------------------------------------------------
(* The heads.                                                              *)

LEMMA GetImageDescriptionKeeps ==
  ASSUME IInv, NEW h \in Head, GetImageDescription(h)
  PROVE  IInv'
<1>1. UNCHANGED <<surface, content, frames, feedback>> /\ h \in connected
      /\ heard' = [heard EXCEPT ![h] = IF h \in hdr THEN "pq" ELSE "srgb"]
  BY DEF GetImageDescription, description_for_output, IInv, CacheKept
<1>2. TypeOK' /\ StagedAsApplied' /\ EncodingMatches'
  BY <1>1 DEF IInv, TypeOK, StagedAsApplied, EncodingMatches, surface, content, frames, feedback
<1>3. CacheKept' /\ OutputsHeard'
  BY <1>1 DEF IInv, TypeOK, CacheKept, OutputsHeard, Fits, surface
<1> QED BY <1>2, <1>3 DEF IInv

\* What a client asks for a surface, and where its window goes, is its own matter.
LEMMA FeedbackKeeps ==
  ASSUME IInv, NEW w \in Window, preferred_description_for_surface(w) \/ Moves(w)
  PROVE  IInv'
<1>1. UNCHANGED <<surface, content, frames, heard>>
  BY DEF preferred_description_for_surface, Moves
<1>2. /\ on' \in [Window -> connected \cup {Nothing}]
      /\ preferred' \in [Window -> {"srgb", "pq", Nothing}]
  BY DEF IInv, TypeOK, preferred_description_for_surface, Moves, description_for_output
<1>3. TypeOK'
  BY <1>1, <1>2 DEF IInv, TypeOK, surface, content, frames
<1>4. StagedAsApplied' /\ CacheKept' /\ EncodingMatches' /\ OutputsHeard'
  BY <1>1 DEF IInv, StagedAsApplied, CacheKept, EncodingMatches, OutputsHeard, Fits, surface, frames
<1> QED BY <1>3, <1>4 DEF IInv

LEMMA ToggleKeeps ==
  ASSUME IInv, toggle_hdr
  PROVE  IInv'
<1>1. UNCHANGED <<connected, hdr_capable, power_off, content, frames, feedback>>
  BY DEF toggle_hdr
<1>2. TypeOK'
  BY <1>1 DEF IInv, TypeOK, CacheKept, toggle_hdr, content, frames, feedback
<1>3. StagedAsApplied' /\ EncodingMatches'
  BY <1>1 DEF IInv, StagedAsApplied, EncodingMatches, frames
<1>4. CacheKept' /\ OutputsHeard'
  BY Distinct DEF IInv, TypeOK, CacheKept, OutputsHeard, Fits, toggle_hdr
<1> QED BY <1>2, <1>3, <1>4 DEF IInv

LEMMA ConnectKeeps ==
  ASSUME IInv, NEW h \in Head, connector_connected(h)
  PROVE  IInv'
<1>1. PICK output_hdr \in BOOLEAN :
        /\ hdr_capable' = IF output_hdr THEN hdr_capable \cup {h} ELSE hdr_capable \ {h}
        /\ hdr' = IF output_hdr THEN hdr \cup {h} ELSE hdr \ {h}
        /\ hdr_outputs' = IF output_hdr THEN hdr_outputs \cup {h} ELSE hdr_outputs \ {h}
        /\ staged' = [staged EXCEPT ![h] = IF output_hdr THEN set_hdr_output_properties(h) ELSE @]
  BY DEF connector_connected
<1>2. /\ h \notin connected /\ connected' = connected \cup {h}
      /\ hdr_last_nits' = [hdr_last_nits EXCEPT ![h] = Nothing]
      /\ applied' = [applied EXCEPT ![h] = Nothing]
      /\ tracker' = tracker \ {h}
      /\ UNCHANGED <<power_off, fullscreen, hdr_content, sdr_white_nits, drm, screen, heard, on, preferred>>
  BY DEF connector_connected, content, feedback
<1>3. TypeOK'
  BY <1>1, <1>2 DEF IInv, TypeOK, set_hdr_output_properties
<1>4. StagedAsApplied'
  BY <1>1, <1>2, Distinct DEF IInv, TypeOK, StagedAsApplied
<1>5. CacheKept' /\ EncodingMatches'
  BY <1>1, <1>2 DEF IInv, CacheKept, EncodingMatches
<1>6. OutputsHeard'
  BY <1>1, <1>2 DEF IInv, TypeOK, CacheKept, OutputsHeard, Fits
<1> QED BY <1>3, <1>4, <1>5, <1>6 DEF IInv

\* A head that goes dark, with its planes cleared.
LEMMA Darkened ==
  ASSUME IInv, NEW h \in Head,
         screen' = [screen EXCEPT ![h] = Dark], drm' = [drm EXCEPT ![h] = "none"]
  PROVE  /\ screen' \in [Head -> Frame] /\ drm' \in [Head -> {"none", "raw", "encode"}]
         /\ \A g \in Head : screen'[g].pixels = "dark" => drm'[g] = "none" /\ ~screen'[g].current
         /\ screen'[h].pixels = "dark"
         /\ \A g \in Head \ {h} : screen'[g] = screen[g]
         /\ EncodingMatches'
<1>1. Dark \in Frame /\ Dark.pixels = "dark" /\ ~Dark.current
  BY DEF Dark, Frame
<1>2. screen'[h] = Dark /\ drm'[h] = "none" /\ \A g \in Head \ {h} : screen'[g] = screen[g] /\ drm'[g] = drm[g]
  BY DEF IInv, TypeOK
<1> QED BY <1>1, <1>2, Distinct DEF IInv, TypeOK, EncodingMatches

LEMMA DisconnectKeeps ==
  ASSUME IInv, NEW h \in Head, connector_disconnected(h)
  PROVE  IInv'
<1>1. /\ connected' = connected \ {h} /\ hdr_capable' = hdr_capable \ {h} /\ hdr' = hdr \ {h}
      /\ hdr_outputs' = hdr_outputs \ {h} /\ power_off' = power_off \ {h}
      /\ staged' = [staged EXCEPT ![h] = "sdr"] /\ heard' = [heard EXCEPT ![h] = Nothing]
      /\ on' = [w \in Window |-> IF on[w] = h THEN Nothing ELSE on[w]]
      /\ UNCHANGED <<fullscreen, hdr_content, sdr_white_nits, hdr_last_nits, applied, tracker,
                     preferred>>
  BY DEF connector_disconnected, content
<1>2. screen' = [screen EXCEPT ![h] = Dark] /\ drm' = [drm EXCEPT ![h] = "none"]
  BY DEF connector_disconnected
<1>3. TypeOK' /\ EncodingMatches'
  BY <1>1, <1>2, Darkened DEF IInv, TypeOK
<1>4. StagedAsApplied'
  BY <1>1, Distinct DEF IInv, TypeOK, StagedAsApplied
<1>5. CacheKept' /\ OutputsHeard'
  BY <1>1 DEF IInv, TypeOK, CacheKept, OutputsHeard, Fits
<1> QED BY <1>3, <1>4, <1>5 DEF IInv

LEMMA PowerOffKeeps ==
  ASSUME IInv, NEW h \in Head, PowerOff(h)
  PROVE  IInv'
<1>1. /\ h \in connected \ power_off /\ power_off' = power_off \cup {h}
      /\ UNCHANGED <<connected, hdr_capable, hdr, hdr_outputs, fullscreen, hdr_content,
                     sdr_white_nits, hdr_last_nits, applied, staged, tracker, heard, on, preferred>>
  BY DEF PowerOff, Lit, content, feedback
<1>2. screen' = [screen EXCEPT ![h] = Dark] /\ drm' = [drm EXCEPT ![h] = "none"]
  BY DEF PowerOff
<1>3. TypeOK' /\ EncodingMatches'
  <2>1. \A g \in Head : ~(g \in connected' \ power_off') => screen'[g].pixels = "dark"
    BY <1>1, <1>2, Darkened DEF IInv, TypeOK
  <2> QED BY <1>1, <1>2, <2>1, Darkened DEF IInv, TypeOK
<1>4. StagedAsApplied' /\ CacheKept' /\ OutputsHeard'
  BY <1>1 DEF IInv, StagedAsApplied, CacheKept, OutputsHeard, Fits
<1> QED BY <1>3, <1>4 DEF IInv

LEMMA PowerOnKeeps ==
  ASSUME IInv, NEW h \in Head, PowerOn(h)
  PROVE  IInv'
<1>1. /\ power_off' = power_off \ {h} /\ applied' = [applied EXCEPT ![h] = Nothing]
      /\ tracker' = tracker \ {h}
      /\ UNCHANGED <<connected, hdr_capable, hdr, hdr_outputs, fullscreen, hdr_content,
                     sdr_white_nits, hdr_last_nits, staged, drm, screen, heard, on, preferred>>
  BY DEF PowerOn, content, feedback
<1>2. TypeOK' /\ EncodingMatches' /\ CacheKept' /\ OutputsHeard'
  BY <1>1 DEF IInv, TypeOK, EncodingMatches, CacheKept, OutputsHeard, Fits
<1>3. StagedAsApplied'
  BY <1>1, Distinct DEF IInv, TypeOK, StagedAsApplied
<1> QED BY <1>2, <1>3 DEF IInv

-----------------------------------------------------------------------------
(* The theorems.                                                           *)

LEMMA Starts == Init => IInv
<1> SUFFICES ASSUME Init PROVE IInv
  OBVIOUS
<1>1. Dark \in Frame /\ Dark.pixels = "dark" /\ ~Dark.current
  BY DEF Dark, Frame
<1>2. TypeOK
  BY <1>1, Distinct DEF Init, TypeOK
<1> QED BY <1>1, <1>2, Distinct
  DEF Init, IInv, StagedAsApplied, CacheKept, EncodingMatches, OutputsHeard

LEMMA Keeps == IInv /\ [Next]_vars => IInv'
<1> SUFFICES ASSUME IInv, [Next]_vars PROVE IInv'
  OBVIOUS
<1>1. CASE UNCHANGED vars
  BY <1>1 DEF IInv, TypeOK, StagedAsApplied, CacheKept, EncodingMatches, OutputsHeard, Fits,
              vars, surface, content, frames, feedback
<1>2. ASSUME NEW h \in Head,
             \/ render_surface(h) \/ Commit(h) \/ GetImageDescription(h)
             \/ connector_connected(h) \/ connector_disconnected(h)
             \/ PowerOff(h) \/ PowerOn(h)
      PROVE  IInv'
  BY <1>2, RenderKeeps, CommitKeeps, GetImageDescriptionKeeps, ConnectKeeps, DisconnectKeeps,
     PowerOffKeeps, PowerOnKeeps
<1>3. ASSUME NEW w \in Window, preferred_description_for_surface(w) \/ Moves(w)
      PROVE  IInv'
  BY <1>3, FeedbackKeeps
<1> QED BY <1>1, <1>2, <1>3, SetSdrWhiteKeeps, ToggleKeeps DEF Next

LEMMA Invariance == Spec => []IInv
BY Starts, Keeps, PTL DEF Spec

\* The state is well formed, for all connectors and settings of white: heads
\* without a surface keep nothing, and only those made for HDR run it.
THEOREM TypeCorrect == Spec => []TypeOK
<1>1. IInv => TypeOK
  BY DEF IInv
<1> QED BY <1>1, Invariance, PTL

\* Every frame of render_surface goes out in the encoding its connector was told
\* to expect, on every connector that takes the HDR state.
THEOREM EncodingAlwaysMatches == Spec => []EncodingMatches
<1>1. IInv => EncodingMatches
  BY DEF IInv
<1> QED BY <1>1, Invariance, PTL

\* A window keeps its head unless it moves or the head goes, and an answer unless it
\* is given another.
LEMMA MisledBy ==
  ASSUME IInv, [Next]_vars, NEW w \in Window, Misled(w)'
  PROVE  \/ Misled(w) /\ ~preferred_description_for_surface(w)
         \/ Moves(w) \/ toggle_hdr
<1> SUFFICES ASSUME ~Moves(w), ~toggle_hdr
             PROVE  Misled(w) /\ ~preferred_description_for_surface(w)
  OBVIOUS
<1>1. on' \in [Window -> connected' \cup {Nothing}] /\ on \in [Window -> connected \cup {Nothing}]
      /\ preferred \in [Window -> {"srgb", "pq", Nothing}] /\ hdr_outputs = hdr
      /\ Nothing \notin Head /\ connected \subseteq Head
  BY Keeps, Distinct DEF IInv, TypeOK, CacheKept
<1>2. ~preferred_description_for_surface(w)
  <2> SUFFICES ASSUME preferred_description_for_surface(w) PROVE FALSE
    OBVIOUS
  <2>1. UNCHANGED <<hdr, on>>
    BY DEF preferred_description_for_surface, surface
  <2>2. on[w] # Nothing
    BY <2>1 DEF Misled
  <2>3. preferred'[w] = Fits(on[w])
    BY <1>1, <2>2 DEF preferred_description_for_surface, description_for_output, Fits
  <2>4. Fits(on[w])' = Fits(on[w])
    BY <2>1 DEF Fits
  <2> QED BY <2>3, <2>4 DEF Misled
<1>3. on[w] = on'[w] /\ preferred[w] = preferred'[w] /\ (on[w] \in hdr <=> on[w] \in hdr')
  <2>1. CASE UNCHANGED vars
    BY <2>1 DEF vars, surface, feedback
  <2>2. ASSUME NEW h \in Head, render_surface(h) \/ Commit(h) \/ GetImageDescription(h)
                               \/ PowerOff(h) \/ PowerOn(h)
        PROVE  UNCHANGED <<hdr, on, preferred>>
    BY <2>2 DEF render_surface, Commit, GetImageDescription, PowerOff, PowerOn, surface, feedback
  <2>3. ASSUME NEW h \in Head, connector_connected(h)
        PROVE  on[w] = on'[w] /\ preferred[w] = preferred'[w] /\ (on[w] \in hdr <=> on[w] \in hdr')
    <3>1. UNCHANGED <<on, preferred>> /\ h \notin connected
          /\ \A g \in connected : g \in hdr <=> g \in hdr'
      BY <2>3 DEF connector_connected, feedback
    <3>2. on[w] \in connected
      BY <1>1, <3>1 DEF Misled
    <3> QED BY <3>1, <3>2
  <2>4. ASSUME NEW h \in Head, connector_disconnected(h)
        PROVE  on[w] = on'[w] /\ preferred[w] = preferred'[w] /\ (on[w] \in hdr <=> on[w] \in hdr')
    <3>1. /\ on' = [x \in Window |-> IF on[x] = h THEN Nothing ELSE on[x]]
          /\ hdr' = hdr \ {h} /\ UNCHANGED preferred
      BY <2>4 DEF connector_disconnected
    <3> QED BY <3>1 DEF Misled
  <2>5. ASSUME NEW x \in Window, x # w, preferred_description_for_surface(x) \/ Moves(x)
        PROVE  on[w] = on'[w] /\ preferred[w] = preferred'[w] /\ UNCHANGED hdr
    BY <1>1, <2>5 DEF preferred_description_for_surface, Moves, surface
  <2>6. CASE SetSdrWhite
    BY <2>6 DEF SetSdrWhite, surface, feedback
  <2> QED BY <1>2, <2>1, <2>2, <2>3, <2>4, <2>5, <2>6 DEF Next
<1>4. Fits(on[w])' = Fits(on[w])
  BY <1>3 DEF Fits
<1> QED BY <1>2, <1>3, <1>4 DEF Misled

\* No client is misled by an answer, for any number of heads and windows: who bound an
\* output is told of every change, and who asked for a surface is misled only by a move
\* of its window or a toggle, and only until it asks again.
THEOREM HeardAlwaysTrue == Spec => HeardIsTrue
<1>1. IInv' => OutputsHeard'
  BY DEF IInv
<1>2. IInv /\ IInv' /\ [Next]_vars
        => [/\ OutputsHeard'
            /\ \A w \in Window : Misled(w)' => \/ Misled(w) /\ ~preferred_description_for_surface(w)
                                               \/ Moves(w) \/ toggle_hdr]_vars
  BY <1>1, MisledBy
<1> QED BY <1>2, Invariance, PTL DEF Spec, HeardIsTrue

-----------------------------------------------------------------------------
(* The picture.  Each tracker says "nothing new" only of what is on the    *)
(* screen: the DrmCompositor's of the plain frame it let through, the HDR  *)
(* path's of the frame it composited at hdr_last_nits, or of a plain one   *)
(* that stood in for it and saw as much.                                   *)

\* What the two trackers claim to have seen of head h is on its screen.
Seen(h) ==
  /\ drm[h] = "raw"
       => screen[h].current /\ (screen[h].pixels = "pq" => fullscreen[h] = "HdrPq")
  /\ h \in tracker /\ Lit(h)
       => /\ screen[h].current
          /\ \/ drm[h] = "raw"
             \/ drm[h] = "encode" /\ screen[h].white = hdr_last_nits[h]

SeenIsShown == \A h \in Head : Seen(h)

\* A render leaves the head it draws as both trackers then claim it, and what
\* there is to show on its screen.
LEMMA RenderShows ==
  ASSUME IInv, SeenIsShown, NEW h \in Head, render_surface(h)
  PROVE  Seen(h)' /\ Shown(h)'
<1>1. /\ Seen(h) /\ Lit(h) /\ Lit(h)'
      /\ UNCHANGED <<sdr_white_nits, fullscreen>> /\ TakesHdrPath(h)' = TakesHdrPath(h)
  BY DEF SeenIsShown, render_surface, Lit, TakesHdrPath, surface, content
<1>2. /\ screen \in [Head -> Frame] /\ drm \in [Head -> {"none", "raw", "encode"}]
      /\ fullscreen[h] \in {"Sdr", "HdrPq", "WindowsScrgb", Nothing}
      /\ hdr_last_nits \in [Head -> Nits \cup {Nothing}]
  BY DEF IInv, TypeOK, DecodeKind
<1>3. ASSUME NEW fallback \in BOOLEAN, PlainFrame(h, fallback)
      PROVE  /\ drm'[h] = "raw" /\ screen'[h].current
             /\ screen'[h].pixels = "pq" => fullscreen[h] = "HdrPq"
  <2>1. CASE drm[h] = "raw"
    BY <1>1, <1>3, <2>1 DEF PlainFrame, Seen
  <2>2. CASE drm[h] # "raw"
    <3>1. drm'[h] = "raw" /\ screen'[h].current /\ screen'[h].pixels = PlainPixels(h)
      BY <1>2, <1>3, <2>2 DEF PlainFrame, Shows
    <3>2. PlainPixels(h) = "pq" => fullscreen[h] = "HdrPq"
      BY <1>2 DEF PlainPixels, Encoding
    <3> QED BY <3>1, <3>2
  <2> QED BY <2>1, <2>2
<1>4. CASE ~TakesHdrPath(h)
  <2>1. PlainFrame(h, FALSE)
    BY <1>4 DEF render_surface
  <2> QED BY <1>1, <1>3, <1>4, <2>1 DEF Seen, Shown
<1>5. CASE TakesHdrPath(h)
  <2>1. fullscreen[h] # "HdrPq"
    BY <1>5, Distinct DEF TakesHdrPath
  <2>2. CASE HdrDamage(h)
    <3>1. /\ hdr_last_nits'[h] = sdr_white_nits
          /\ HdrFrame(h) \/ PlainFrame(h, TRUE)
      BY <1>2, <1>5, <2>2 DEF render_surface
    <3>2. CASE HdrFrame(h)
      <4>1. drm'[h] = "encode" /\ screen'[h].current /\ screen'[h].white = sdr_white_nits
        BY <1>2, <3>2 DEF HdrFrame, Shows
      <4> QED BY <1>1, <3>1, <4>1 DEF Seen, Shown
    <3>3. CASE PlainFrame(h, TRUE)
      BY <1>1, <1>3, <2>1, <3>3 DEF Seen, Shown
    <3> QED BY <3>1, <3>2, <3>3
  <2>3. CASE ~HdrDamage(h)
    <3>1. /\ UNCHANGED <<hdr_last_nits, drm, screen>> /\ h \in tracker
          /\ hdr_last_nits[h] = sdr_white_nits
      BY <1>5, <2>3 DEF render_surface, HdrDamage
    <3> QED BY <1>1, <2>1, <3>1 DEF Seen, Shown
  <2> QED BY <2>2, <2>3
<1> QED BY <1>4, <1>5

\* On the heads a step does not touch nothing is claimed anew.
LEMMA UntouchedSeen ==
  ASSUME SeenIsShown, NEW g \in Head,
         screen'[g] = screen[g], drm'[g] = drm[g], fullscreen'[g] = fullscreen[g],
         hdr_last_nits'[g] = hdr_last_nits[g], g \in tracker' => g \in tracker,
         g \in tracker' /\ Lit(g)' => Lit(g)
  PROVE  Seen(g)'
BY DEF SeenIsShown, Seen

LEMMA SeenKept ==
  ASSUME IInv, SeenIsShown, [Next]_vars
  PROVE  SeenIsShown'
<1>1. /\ screen \in [Head -> Frame] /\ drm \in [Head -> {"none", "raw", "encode"}]
      /\ fullscreen \in [Head -> DecodeKind \cup {Nothing}]
      /\ hdr_last_nits \in [Head -> Nits \cup {Nothing}]
      /\ tracker \subseteq Head
      /\ \A h \in Head : screen[h].pixels = "dark" => drm[h] = "none" /\ ~screen[h].current
      /\ \A h \in Head : ~Lit(h) => screen[h].pixels = "dark"
  BY DEF IInv, TypeOK, Lit
<1> SUFFICES ASSUME NEW g \in Head PROVE Seen(g)'
  BY DEF SeenIsShown
<1>2. CASE UNCHANGED vars
  BY <1>2, UntouchedSeen DEF vars, surface, content, frames, Lit
<1>3. ASSUME NEW h \in Head, render_surface(h)
      PROVE  Seen(g)'
  <2>1. CASE g = h
    BY <1>3, <2>1, RenderShows
  <2>2. CASE g # h
    <3>1. screen'[g] = screen[g] /\ drm'[g] = drm[g]
      BY <1>1, <1>3, <2>2 DEF render_surface, PlainFrame, HdrFrame, Shows
    <3>2. /\ hdr_last_nits'[g] = hdr_last_nits[g] /\ (g \in tracker' => g \in tracker)
          /\ UNCHANGED <<fullscreen, connected, power_off>>
      BY <1>1, <1>3, <2>2 DEF render_surface, surface, content
    <3> QED BY <3>1, <3>2, UntouchedSeen DEF Lit
  <2> QED BY <2>1, <2>2
<1>4. ASSUME NEW h \in Head, Commit(h)
      PROVE  Seen(g)'
  <2>1. UNCHANGED <<connected, power_off, hdr_last_nits>>
    BY <1>4 DEF Commit, surface
  <2>2. CASE g = h
    BY <1>1, <1>4, <2>2 DEF Commit, Damaged, Seen
  <2>3. CASE g # h
    <3>1. screen'[g] = screen[g] /\ drm'[g] = drm[g] /\ (g \in tracker' => g \in tracker)
      BY <1>1, <1>4, <2>3 DEF Commit, Damaged
    <3>2. fullscreen'[g] = fullscreen[g]
      BY <1>1, <1>4, <2>3 DEF Commit
    <3> QED BY <2>1, <3>1, <3>2, UntouchedSeen DEF Lit
  <2> QED BY <2>2, <2>3
<1>5. ASSUME NEW h \in Head, GetImageDescription(h)
      PROVE  Seen(g)'
  BY <1>5, UntouchedSeen DEF GetImageDescription, surface, content, frames, Lit
<1>6. ASSUME NEW h \in Head, connector_connected(h)
      PROVE  Seen(g)'
  <2>1. /\ h \notin connected /\ connected' = connected \cup {h} /\ tracker' = tracker \ {h}
        /\ hdr_last_nits' = [hdr_last_nits EXCEPT ![h] = Nothing]
        /\ UNCHANGED <<power_off, fullscreen, drm, screen>>
    BY <1>6 DEF connector_connected, content, feedback
  <2>2. CASE g = h
    BY <1>1, <2>1, <2>2 DEF Seen, Lit
  <2>3. CASE g # h
    BY <1>1, <2>1, <2>3, UntouchedSeen DEF Lit
  <2> QED BY <2>2, <2>3
<1>7. ASSUME NEW h \in Head, connector_disconnected(h) \/ PowerOff(h)
      PROVE  Seen(g)'
  <2>1. /\ ~Lit(h)' /\ (g # h /\ Lit(g)' => Lit(g))
        /\ screen' = [screen EXCEPT ![h] = Dark] /\ drm' = [drm EXCEPT ![h] = "none"]
        /\ UNCHANGED <<fullscreen, hdr_last_nits, tracker>>
    BY <1>7 DEF connector_disconnected, PowerOff, content, Lit
  <2>2. CASE g = h
    BY <1>1, <2>1, <2>2 DEF Seen
  <2>3. CASE g # h
    BY <1>1, <2>1, <2>3, UntouchedSeen
  <2> QED BY <2>2, <2>3
<1>8. ASSUME NEW h \in Head, PowerOn(h)
      PROVE  Seen(g)'
  <2>1. /\ power_off' = power_off \ {h} /\ tracker' = tracker \ {h}
        /\ UNCHANGED <<connected, fullscreen, hdr_last_nits, drm, screen>>
    BY <1>8 DEF PowerOn, content
  <2> QED BY <2>1, UntouchedSeen DEF Lit
<1>11. ASSUME NEW w \in Window, preferred_description_for_surface(w) \/ Moves(w)
       PROVE  Seen(g)'
  BY <1>11, UntouchedSeen DEF preferred_description_for_surface, Moves, surface, content, frames, Lit
<1>9. CASE SetSdrWhite
  BY <1>9, UntouchedSeen DEF SetSdrWhite, surface, frames, Lit
<1>10. CASE toggle_hdr
  BY <1>10, UntouchedSeen DEF toggle_hdr, content, frames, Lit
<1> QED BY <1>2, <1>3, <1>4, <1>5, <1>6, <1>7, <1>8, <1>9, <1>10, <1>11 DEF Next

\* Where the screen is behind, a render finds so.
LEMMA BehindIsStale ==
  ASSUME SeenIsShown, NEW h \in Head, Lit(h), ~Shown(h)
  PROVE  Stale(h)
<1>1. Seen(h)
  BY DEF SeenIsShown
<1>2. CASE TakesHdrPath(h)
  <2> SUFFICES ASSUME ~HdrDamage(h) PROVE FALSE
    BY <1>2 DEF Stale
  <2>1. h \in tracker /\ hdr_last_nits[h] = sdr_white_nits
    BY DEF HdrDamage
  <2>2. fullscreen[h] # "HdrPq"
    BY <1>2, Distinct DEF TakesHdrPath
  <2> QED BY <1>1, <2>1, <2>2 DEF Seen, Shown
<1>3. CASE ~TakesHdrPath(h)
  BY <1>1, <1>3 DEF Stale, Seen, Shown
<1> QED BY <1>2, <1>3

\* Whatever is committed or set comes to be shown on every lit head, whichever
\* tracker saw what and whatever else happens: to the head, to others or to SDR white.
THEOREM PictureAlwaysShown == Spec => PictureShown
<1> SUFFICES ASSUME NEW h \in Head
             PROVE  Spec => ((Lit(h) /\ ~Shown(h)) ~> (~Lit(h) \/ Shown(h)))
  BY DEF PictureShown
<1>1. Spec => Init /\ [][Next]_vars /\ Fairness(h)
  BY DEF Spec
<1>2. Init => SeenIsShown
  BY Distinct DEF Init, SeenIsShown, Seen
<1>3. IInv /\ SeenIsShown /\ [Next]_vars => SeenIsShown'
  BY SeenKept
<1>4. SeenIsShown /\ Lit(h) /\ ~Shown(h) => Lit(h) /\ Stale(h)
  BY BehindIsStale
<1>5. IInv /\ SeenIsShown /\ <<render_surface(h)>>_vars => Shown(h)'
  BY RenderShows
<1>6. Spec => []IInv
  BY Invariance
<1> QED BY <1>1, <1>2, <1>3, <1>4, <1>5, <1>6, PTL DEF Fairness
=============================================================================
