------------------------------ MODULE Wallpaper ------------------------------
(***************************************************************************)
(* WallpaperManager (src/wallpaper.rs): what the outputs show, the images  *)
(* decoded for it, the slideshow of a folder with its one prefetched       *)
(* image, the worker threads that decode for it, and the palette and theme *)
(* taken from what is shown.                                               *)
(*                                                                         *)
(* Its methods, as functions of the manager's state w; a handler of the    *)
(* loop calls several in a row (Appearance).  Time is left out: a deadline *)
(* is a timer that is armed.  The gain and the blur radius are one         *)
(* setting, scale: either is baked into the pixels.                        *)
(***************************************************************************)
EXTENDS Naturals, FiniteSets, SequencesExt

CONSTANTS Image,      \* image files, by number: a folder lists them in order
          Broken,     \* those that will not decode
          Output,     \* the outputs a wallpaper may be assigned to
          Scale,      \* settings images are decoded with
          Folder,     \* the configured path, when it is the folder
          Nothing     \* no path, no image

ASSUME WallpaperAssumption ==
  /\ Image \subseteq Nat /\ IsFiniteSet(Image) /\ Broken \subseteq Image
  /\ Folder \notin Image /\ Nothing \notin Image /\ Folder # Nothing

\* [wallpaper], the [[output]] tables, and [theme] enable.
Config == [path: Image \cup {Folder, Nothing}, scale: Scale, theme: BOOLEAN,
           output: Seq([name: Output, wallpaper: Image \cup {Nothing}])]

\* What a worker thread was asked for: it carries the settings of that moment.
Request == [path: Image, scale: Scale, theme: BOOLEAN]

\* loaded maps an image to the settings it was decoded with.  entries is empty
\* when there is no slideshow.  decoding is the bag of what the workers will send.
IsManager(w) ==
  /\ DOMAIN w.loaded \subseteq Image /\ \A p \in DOMAIN w.loaded : w.loaded[p] \in Scale
  /\ w.assignments \in [Output -> Image \cup {Nothing}]
  /\ w.default_path \in Image \cup {Nothing}
  /\ w.scale \in Scale
  /\ w.entries \in Seq(Image)
  /\ w.index \in Nat /\ (w.entries # <<>> => w.index < Len(w.entries))
  /\ w.prefetch \in [path: Image, scale: Scale] \cup {Nothing}
  /\ w.inflight \in Image \cup {Nothing}
  /\ DOMAIN w.decoding \subseteq Request
  /\ w.palettes \subseteq Image
  /\ w.theme_params \in BOOLEAN
  /\ w.current_theme \in Image \cup {Nothing}
  /\ w.theme_dirty \in BOOLEAN

\* WallpaperManager::default.
NewManager(scale) ==
  [loaded |-> <<>>, assignments |-> [o \in Output |-> Nothing], default_path |-> Nothing,
   scale |-> scale, entries |-> <<>>, index |-> 0, prefetch |-> Nothing, inflight |-> Nothing,
   decoding |-> EmptyBag, palettes |-> {}, theme_params |-> FALSE, current_theme |-> Nothing,
   theme_dirty |-> FALSE]

-----------------------------------------------------------------------------
Decodes(p) == p \notin Broken

\* Every image of the folder, sorted; a folder without images is an error.
scan_directory(folder) ==
  CHOOSE s \in [1..Cardinality(folder) -> folder] :
    \A i, j \in DOMAIN s : i < j => s[i] < s[j]

Referenced(w) ==
  ({w.default_path} \cup {w.assignments[o] : o \in Output}) \ {Nothing}

\* The entry shown, and the one after it, which may be the same.
Showing(w) == w.entries[w.index + 1]
peek_next(w) == w.entries[((w.index + 1) % Len(w.entries)) + 1]

\* The theme solved last stays where there is none to solve from.
recompute_theme(w) ==
  IF w.theme_params /\ w.default_path \in w.palettes
  THEN [w EXCEPT !.current_theme = w.default_path, !.theme_dirty = TRUE]
  ELSE w

set_theme_params(w, on) == recompute_theme([w EXCEPT !.theme_params = on])

\* One worker at a time, unless what comes next has changed since it began.
prime_prefetch(w) ==
  IF \/ Len(w.entries) < 2
     \/ w.inflight = peek_next(w)
     \/ w.prefetch # Nothing /\ w.prefetch.path = peek_next(w)
  THEN w
  ELSE [w EXCEPT !.inflight = peek_next(w),
                 !.decoding = @ (+) SetToBag({[path |-> peek_next(w), scale |-> w.scale,
                                                    theme |-> w.theme_params]})]

Keep(f, S) == [p \in DOMAIN f \cap S |-> f[p]]

evict_unreferenced(w) ==
  LET kept == Keep(w.loaded, Referenced(w))
  IN  [w EXCEPT !.loaded = kept, !.palettes = @ \cap DOMAIN kept]

\* An entry that would not decode leaves the slideshow, unless it is the last.
skip_unreadable(w, p) ==
  IF Len(w.entries) < 2 THEN w
  ELSE IF \A i \in DOMAIN w.entries : w.entries[i] # p THEN prime_prefetch(w)
  ELSE LET position == (CHOOSE i \in DOMAIN w.entries : w.entries[i] = p) - 1
           rest == RemoveAt(w.entries, position + 1)
           index == IF position <= w.index /\ w.index > 0 THEN w.index - 1 ELSE w.index
       IN  prime_prefetch([w EXCEPT !.entries = rest, !.index = index % Len(rest)])

\* Mutant of Delivered: the image is no longer in flight only when it is used.
DeliveredStillInFlight(w, r) ==
  LET d == [w EXCEPT !.decoding = @ (-) SetToBag({r})]
  IN  IF r.scale # d.scale THEN prime_prefetch(d)
      ELSE IF Decodes(r.path)
           THEN [d EXCEPT !.prefetch = [path |-> r.path, scale |-> r.scale],
                          !.inflight = IF @ = r.path THEN Nothing ELSE @,
                          !.palettes = IF r.theme THEN @ \cup {r.path} ELSE @]
           ELSE skip_unreadable([d EXCEPT !.inflight = IF @ = r.path THEN Nothing ELSE @], r.path)

\* Mutant of Delivered: it does not ask what the image was decoded with.
DeliveredAnyScale(w, r) ==
  LET d == [w EXCEPT !.decoding = @ (-) SetToBag({r}),
                     !.inflight = IF @ = r.path THEN Nothing ELSE @]
  IN  IF Decodes(r.path)
      THEN [d EXCEPT !.prefetch = [path |-> r.path, scale |-> r.scale],
                     !.palettes = IF r.theme THEN @ \cup {r.path} ELSE @]
      ELSE skip_unreadable(d, r.path)

\* receive_prefetch of what a worker made of request r.
Delivered(w, r) ==
  LET d == [w EXCEPT !.decoding = @ (-) SetToBag({r}),
                     !.inflight = IF @ = r.path THEN Nothing ELSE @]
  IN  IF r.scale # d.scale THEN prime_prefetch(d)
      ELSE IF Decodes(r.path)
           THEN [d EXCEPT !.prefetch = [path |-> r.path, scale |-> r.scale],
                          !.palettes = IF r.theme THEN @ \cup {r.path} ELSE @]
           ELSE skip_unreadable(d, r.path)

\* Whether the swap that is due can be made.
SwapReady(w) == w.prefetch # Nothing /\ w.prefetch.path = peek_next(w)

\* advance_slideshow when the swap is due.  The prefetched image is taken either
\* way; one that is not the next is dropped.
AdvanceSlideshow(w) ==
  IF w.entries = <<>> THEN w
  ELSE IF ~SwapReady(w) THEN prime_prefetch([w EXCEPT !.prefetch = Nothing])
  ELSE LET next == w.prefetch
           swapped == [w EXCEPT
                         !.prefetch = Nothing,
                         !.index = (@ + 1) % Len(w.entries),
                         !.loaded = [p \in DOMAIN @ \cup {next.path} |->
                                       IF p = next.path THEN next.scale ELSE @[p]],
                         !.default_path = next.path]
       IN  recompute_theme(prime_prefetch(evict_unreferenced(swapped)))

\* load of the images P: what does not decode is not there.  A palette is taken
\* when the theme is on.
Loaded(w, P) ==
  LET new == {p \in P \ DOMAIN w.loaded : Decodes(p)}
  IN  [w EXCEPT !.loaded = [p \in DOMAIN @ \cup new |-> IF p \in new THEN w.scale ELSE @[p]],
                !.palettes = IF w.theme_params THEN @ \cup new ELSE @]

\* set of an image for output o, or for every output when o is Nothing.
SetWallpaper(w, o, p) ==
  LET l == Loaded(w, {p})
      assigned == IF o = Nothing
                  THEN [l EXCEPT !.assignments = [x \in Output |-> Nothing], !.default_path = p]
                  ELSE [l EXCEPT !.assignments[o] = p]
  IN  IF p \in DOMAIN l.loaded THEN recompute_theme(evict_unreferenced(assigned)) ELSE w

\* Of several tables for an output the last that names an image counts.
Assigned(c) ==
  [o \in Output |->
     LET T == {i \in DOMAIN c.output : c.output[i].name = o /\ c.output[i].wallpaper # Nothing}
     IN  IF T = {} THEN Nothing
         ELSE c.output[CHOOSE i \in T : \A j \in T : j <= i].wallpaper]

\* What resolve shows before it loads anything.  The slideshow is found again by
\* the path it was showing.
Pointed(w, c, folder) ==
  LET entries == IF c.path = Folder /\ folder # {} THEN scan_directory(folder) ELSE <<>>
      found == {i \in DOMAIN entries : w.entries # <<>> /\ entries[i] = Showing(w)}
      index == IF found = {} THEN 0 ELSE (CHOOSE i \in found : TRUE) - 1
  IN  [w EXCEPT !.loaded = IF c.scale # w.scale THEN <<>> ELSE @,
                !.scale = c.scale, !.prefetch = Nothing,
                !.entries = entries, !.index = index, !.assignments = Assigned(c),
                !.default_path = IF c.path # Folder THEN c.path
                                 ELSE IF entries = <<>> THEN @ ELSE entries[index + 1]]

\* Every image a table names is wanted, whether a later table overrides it or not.
Wanted(pointed, c) ==
  (Referenced(pointed) \cup {c.output[i].wallpaper : i \in DOMAIN c.output}) \ {Nothing}

\* The problems resolve reports: the folder without images, and what does not decode.
Unreadable(w, c, folder) ==
  {p \in Wanted(Pointed(w, c, folder), c) : ~Decodes(p)}
    \cup (IF c.path = Folder /\ folder = {} THEN {Folder} ELSE {})

\* resolve: it points at what config c asks for, loads it, and drops the rest.
resolve(w, c, folder) ==
  LET pointed == Pointed(w, c, folder)
      wanted == Wanted(pointed, c)
      l == Loaded(pointed, wanted)
  IN  recompute_theme(prime_prefetch(
        [l EXCEPT !.loaded = Keep(@, wanted), !.palettes = @ \cap wanted]))
=============================================================================
