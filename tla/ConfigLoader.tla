------------------------------ MODULE ConfigLoader ------------------------------
(***************************************************************************)
(* The config directory as one config (src/config_loader.rs, and load and  *)
(* reload of src/config.rs): its files are merged in the order of their    *)
(* paths, and the merged table is read as a whole.                         *)
(*                                                                         *)
(* A table is a function of the keys it sets.  Of the schema, the keys the *)
(* appearance hangs on are kept, and layout for those a config must have.  *)
(***************************************************************************)
EXTENDS Wallpaper

CONSTANTS Files,         \* how many paths there are, by number in their order
          Absent,        \* no file there
          Malformed,     \* a file that does not parse, or is half written
          Refused,       \* LoadError
          DefaultScale   \* default_luminance_scale

ASSUME LoaderAssumption ==
  /\ Files \in Nat \ {0} /\ DefaultScale \in Scale
  /\ Cardinality({Absent, Malformed, Refused}) = 3

\* Arrays of tables concatenate; any other key only one file may set.
Arrays == {"output"}

\* The keys of ROOT_SCHEMA that are kept here.
ROOT_SCHEMA == Arrays \cup {"layout", "path", "scale", "theme"}

\* The files that are there.
discover_config_files(disk) == {f \in 1..Files : disk[f] # Absent}

\* merge_into of each file in turn, all of which parse.
merge_into(disk, files) ==
  LET Keys == UNION {DOMAIN disk[f] : f \in files}
      Setting(k) == {f \in files : k \in DOMAIN disk[f]}
      Array(k) == FlattenSeq([f \in 1..Files |-> IF f \in Setting(k) THEN disk[f][k] ELSE <<>>])
  IN  IF \E k \in Keys \ Arrays : Cardinality(Setting(k)) > 1 THEN Refused
      ELSE [k \in Keys |->
              IF k \in Arrays THEN Array(k) ELSE disk[CHOOSE f \in Setting(k) : TRUE][k]]

merge_all(disk) ==
  LET files == discover_config_files(disk)
  IN  IF files = {} \/ \E f \in files : disk[f] = Malformed THEN Refused
      ELSE merge_into(disk, files)

\* RawConfig: what a section that is left out says.
RawDefault == [output |-> <<>>, path |-> Nothing, scale |-> DefaultScale, theme |-> FALSE]

\* A key the schema requires is missing, or it is all there; unknown keys drop out.
deserialize_merged(table) ==
  IF table = Refused THEN Refused
  ELSE IF "layout" \notin DOMAIN table THEN Refused
  ELSE [k \in DOMAIN RawDefault |-> IF k \in DOMAIN table THEN table[k] ELSE RawDefault[k]]

\* check_unknown_keys: a key that is in no schema is named, and otherwise ignored.
check_unknown_keys(table) == DOMAIN table \ ROOT_SCHEMA

\* What load and reload note of the directory for the user, for take_config_diagnostics.
Diagnostics(disk) ==
  LET table == merge_all(disk)
  IN  [unknown |-> IF table = Refused THEN {} ELSE check_unknown_keys(table),
       refused |-> deserialize_merged(table) = Refused]

\* Config::reload: Refused keeps the config in force.
Reloaded(disk) == deserialize_merged(merge_all(disk))

\* Config::load, at startup: the built-in defaults set none of these keys but layout.
Loadable(disk) == IF Reloaded(disk) = Refused THEN RawDefault ELSE Reloaded(disk)
=================================================================================
