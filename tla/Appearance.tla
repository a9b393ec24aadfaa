------------------------------ MODULE Appearance ------------------------------
(***************************************************************************)
(* How the desktop comes to look as the files say: the config directory    *)
(* and its watcher, the debounced reload, the wallpaper manager with its   *)
(* timer and its workers, the status socket's set_wallpaper, and the theme *)
(* that is handed on after every cycle of the loop (src/main.rs,           *)
(* src/state.rs, src/ipc.rs).                                              *)
(*                                                                         *)
(* The user edits the config's files one by one, adds images to the folder *)
(* and talks to the socket; Acts bounds how often.                         *)
(***************************************************************************)
EXTENDS ConfigLoader

CONSTANTS Contents,   \* the tables the user may write into each file
          Acts        \* how often the user may act

\* A table that deserializes: what it sets is of the kind its key asks for.  The
\* files with another are among the malformed ones.
IsTable(t) ==
  /\ "path" \in DOMAIN t => t["path"] \in Image \cup {Folder}
  /\ "scale" \in DOMAIN t => t["scale"] \in Scale
  /\ "theme" \in DOMAIN t => t["theme"] \in BOOLEAN
  /\ "output" \in DOMAIN t => t["output"] \in Seq([name: Output, wallpaper: Image \cup {Nothing}])

ASSUME AppearanceAssumption ==
  /\ DOMAIN Contents = 1..Files /\ Acts \in Nat
  /\ \A f \in 1..Files : /\ {Absent, Malformed} \cap Contents[f] = {}
                        /\ \A t \in Contents[f] : IsTable(t)

\* What the config directory may hold.
Directories ==
  {d \in [1..Files -> (UNION {Contents[f] : f \in 1..Files}) \cup {Absent, Malformed}] :
     \A f \in 1..Files : d[f] \in Contents[f] \cup {Absent, Malformed}}

VARIABLES
  disk,             \* what is at each path of the config directory
  noticed,          \* whether the watcher has events for the loop
  reload_timer,     \* config_reload_timer
  config,           \* the config in force
  reported,         \* the problems the last load or reload reported to the user
  manager,          \* RubixState::wallpaper
  wallpaper_timer,  \* whether it is armed
  folder,           \* the images in the folder
  theme,            \* RubixState::theme, as the image it was solved from
  acts              \* how often the user may still act

vars == <<disk, noticed, reload_timer, config, reported, manager, wallpaper_timer, folder, theme, acts>>

\* Proved, for every value of the constants.
TypeOK ==
  /\ disk \in Directories
  /\ noticed \in BOOLEAN
  /\ reload_timer \in BOOLEAN
  /\ config \in Config
  /\ reported.loader.refused \in BOOLEAN /\ reported.unreadable \subseteq Image \cup {Folder}
  /\ IsManager(manager)
  /\ wallpaper_timer = (manager.entries # <<>>)
  /\ folder \subseteq Image
  /\ theme \in Image \cup {Nothing}
  /\ acts \in 0..Acts

\* take_theme_update hands a solved theme on once, and apply_theme_update makes
\* it the one in force, with the file, environment and border colours taken from it.
apply_theme_update(w) == theme' = IF w.theme_dirty THEN w.current_theme ELSE theme

\* The end of a cycle of the loop.
EndOfCycle(w) == apply_theme_update(w) /\ manager' = [w EXCEPT !.theme_dirty = FALSE]

\* The timer is armed where there is a slideshow.
rearm_wallpaper_timer(w) == wallpaper_timer' = (w.entries # <<>>)

\* What the loader noted, and what resolve found.
report_config_diagnostics(unreadable) ==
  reported' = [loader |-> Diagnostics(disk), unreadable |-> unreadable]

Init ==
  /\ disk \in Directories
  /\ config = Loadable(disk)
  /\ folder \in SUBSET Image
  /\ LET new == set_theme_params(NewManager(config.scale), config.theme)
         w == resolve(new, config, folder)
     IN  /\ reported = [loader |-> Diagnostics(disk),
                         unreadable |-> Unreadable(new, config, folder)]
         /\ manager = [w EXCEPT !.theme_dirty = FALSE]
         /\ theme = w.current_theme
         /\ wallpaper_timer = (w.entries # <<>>)
  /\ noticed = FALSE /\ reload_timer = FALSE
  /\ acts = Acts

-----------------------------------------------------------------------------
(* The user.                                                               *)

UserActs == acts > 0 /\ acts' = acts - 1

\* A save truncates the file first, unless it replaces it; a file may also go, and
\* a key that moves to another file takes two saves.  Each is an event of its own.
Save(f) ==
  /\ UserActs
  /\ \E t \in (Contents[f] \cup {Absent, Malformed}) \ {disk[f]} : disk' = [disk EXCEPT ![f] = t]
  /\ noticed' = TRUE
  /\ UNCHANGED <<reload_timer, config, reported, manager, wallpaper_timer, folder, theme>>

AddImage ==
  /\ UserActs
  /\ \E p \in Image \ folder : folder' = folder \cup {p}
  /\ UNCHANGED <<disk, noticed, reload_timer, config, reported, manager, wallpaper_timer, theme>>

set_wallpaper ==
  /\ UserActs
  /\ \E o \in Output \cup {Nothing}, p \in Image : EndOfCycle(SetWallpaper(manager, o, p))
  /\ UNCHANGED <<disk, noticed, reload_timer, config, reported, wallpaper_timer, folder>>

-----------------------------------------------------------------------------
(* The loop.                                                               *)

\* Mutant of schedule_config_reload: it takes the timer down, and sets one only
\* where there was none.
schedule_config_reload_once ==
  /\ noticed
  /\ noticed' = FALSE
  /\ reload_timer' = ~reload_timer
  /\ UNCHANGED <<disk, config, reported, manager, wallpaper_timer, folder, theme, acts>>

\* Every event starts the debounce anew.
schedule_config_reload ==
  /\ noticed
  /\ noticed' = FALSE
  /\ reload_timer' = TRUE
  /\ UNCHANGED <<disk, config, reported, manager, wallpaper_timer, folder, theme, acts>>

\* Mutant of reload_config: the timer is left as it was.
reload_config_unarmed ==
  /\ reload_timer
  /\ reload_timer' = FALSE
  /\ LET c == Reloaded(disk)
         w == resolve(set_theme_params(manager, c.theme), c, folder)
     IN  IF c = Refused THEN report_config_diagnostics({}) /\ UNCHANGED <<config, manager, theme>>
         ELSE /\ config' = c /\ EndOfCycle(w)
              /\ report_config_diagnostics(Unreadable(manager, c, folder))
  /\ UNCHANGED <<disk, noticed, wallpaper_timer, folder, acts>>

\* A directory that is refused leaves the config in force.
reload_config ==
  /\ reload_timer
  /\ reload_timer' = FALSE
  /\ LET c == Reloaded(disk)
         w == resolve(set_theme_params(manager, c.theme), c, folder)
     IN  IF c = Refused
         THEN /\ report_config_diagnostics({})
              /\ UNCHANGED <<config, manager, wallpaper_timer, theme>>
         ELSE /\ config' = c /\ EndOfCycle(w) /\ rearm_wallpaper_timer(w)
              /\ report_config_diagnostics(Unreadable(manager, c, folder))
  /\ UNCHANGED <<disk, noticed, folder, acts>>

\* A worker has decoded, or failed to.
receive_prefetch(p) ==
  /\ \E r \in DOMAIN manager.decoding : r.path = p /\ EndOfCycle(Delivered(manager, r))
  /\ UNCHANGED <<disk, noticed, reload_timer, config, reported, wallpaper_timer, folder, acts>>

SlideshowDue ==
  /\ wallpaper_timer
  /\ LET w == AdvanceSlideshow(manager)
     IN  EndOfCycle(w) /\ rearm_wallpaper_timer(w)
  /\ UNCHANGED <<disk, noticed, reload_timer, config, reported, folder, acts>>

Next ==
  \/ \E f \in 1..Files : Save(f)
  \/ AddImage \/ set_wallpaper
  \/ schedule_config_reload \/ reload_config \/ SlideshowDue
  \/ \E p \in Image : receive_prefetch(p)

\* The loop's timers fire, events and results are delivered, and every worker
\* comes to an end: weak fairness of the loop's actions, with their ENABLED
\* spelled out, which TLC is slow to find through the manager's operators.
Fairness ==
  /\ []<>~noticed
  /\ []<>~reload_timer
  /\ \/ []<>(~wallpaper_timer \/ AdvanceSlideshow(manager) = manager)
     \/ []<><<SlideshowDue>>_vars
  /\ \A p \in Image :
       \/ []<>(\A r \in DOMAIN manager.decoding : r.path # p)
       \/ []<><<receive_prefetch(p)>>_vars

Spec == Init /\ [][Next]_vars /\ Fairness

-----------------------------------------------------------------------------
\* No two tables name an image for the same output.
OneTable(c) ==
  \A i, j \in DOMAIN c.output :
    /\ c.output[i].name = c.output[j].name
    /\ Nothing \notin {c.output[i].wallpaper, c.output[j].wallpaper}
    => i = j

OneTablePerOutput == \A d \in Directories : OneTable(Loadable(d))

\* The cache is what is shown, decoded with the settings in force, and nothing
\* else: no output is left black by an eviction, by an image that came from a
\* worker, or by another output's wallpaper, and no 4K image is kept for nobody.
CacheIsExact ==
  manager.loaded = [p \in {q \in Referenced(manager) : Decodes(q)} |-> manager.scale]

\* A slideshow that is left alone comes back to each of its images again and
\* again, whatever edits, broken files and late workers came before.
Rotates ==
  \A p \in Image \ Broken :
    <>[](/\ \E i \in DOMAIN manager.entries : manager.entries[i] = p
         /\ \E i \in DOMAIN manager.entries : manager.entries[i] \notin Broken \cup {p})
      => []<>(manager.default_path = p)

\* What is saved comes into force and reaches the wallpapers, however the events
\* of its saves, to whichever files, are merged with the reload they cause: a
\* directory that is left as it is comes to be the config, and one that cannot be
\* is reported.  What is refused on the way (a half-written file, a key set twice
\* while it moves) does no harm.
ConfigTakesEffect ==
  /\ <>[](Reloaded(disk) # Refused) =>
       <>[](config = Reloaded(disk) /\ manager.scale = Reloaded(disk).scale)
  /\ <>[](Reloaded(disk) = Refused) => <>[]reported.loader.refused
=============================================================================
