------------------------------- MODULE Config -------------------------------
(***************************************************************************)
(* pymin/config.py and the start of pymind: load_config reads the options  *)
(* twice, first to know which services to load, then with the options of   *)
(* the services; the root handler is built from both.                      *)
(*                                                                         *)
(* There are three options: services, a list; bind_port, with a default    *)
(* and a validator; and pickle_dir, which every service has and which has  *)
(* no default.  A value is the name of where it was written, or "bad".     *)
(***************************************************************************)
EXTENDS Containers

CONSTANTS Service,   \* the services that are installed
          Unknown,   \* the name of one that is not
          VOID,      \* an option that is not written
          Missing, Garbled,  \* a file that is not there, or can not be parsed
          MaxEdits   \* of the configuration files while they are read

\* VOID is an object of its own, and nothing that can be written.
ASSUME ConfigAssumption == /\ Unknown \notin Service /\ MaxEdits \in Nat
                           /\ VOID \notin {{}, "9999"}

File == {"default", "extra"}
Option == {"services", "bind_port", "pickle_dir"}

\* What someone may write for the options: src is a file or the command line.
Written(src, lists) ==
    [services : {VOID} \cup lists, bind_port : {VOID, "bad"}, pickle_dir : {VOID, src}]
Content(f) == {Missing, Garbled} \cup Written(f, {{}} \cup {{s} : s \in Service})

VARIABLES
    file,    \* the configuration files
    cmd,     \* the command line; how it names the extra file is in use
    use,     \* "no", "append" or "replace"
    paths,   \* config_file_paths
    pass,    \* "lenient", "plugins", "strict", "built", "serving" or "dead"
    config,  \* what load_conf returned
    loaded,  \* Services.services
    edits

config_vars == <<file, cmd, use, paths, pass, config, loaded, edits>>

NoConfig == [o \in Option |-> VOID]

ConfigInit ==
    /\ \E d \in Content("default"), e \in Content("extra") :
          file = [f \in File |-> IF f = "default" THEN d ELSE e]
    /\ cmd \in Written("cmd", {{n} : n \in Service \cup {Unknown}})
    /\ use \in {"no", "append", "replace"}
    /\ paths = <<"default">> /\ pass = "lenient" /\ config = NoConfig
    /\ loaded = {} /\ edits = 0

-----------------------------------------------------------------------------
\* config_file_paths.extend: the list itself changes, at each pass.
PathsExtended(ps) == IF use = "append" THEN Append(ps, "extra") ELSE ps
PathsToRead(ps) == IF use = "replace" THEN <<"extra">> ELSE PathsExtended(ps)

\* confparser.read: a file that can not be opened is passed over, an option that
\* it does not write is left alone.
ReadFile(f, values) ==
    IF file[f] \in {Missing, Garbled} THEN values
    ELSE [o \in Option |-> IF file[f][o] = VOID THEN values[o] ELSE file[f][o]]
Merged(ps) ==
    LET merge[n \in 0..Len(ps)] ==
          IF n = 0 THEN NoConfig ELSE ReadFile(ps[n], merge[n - 1])
    IN  merge[Len(ps)]

\* Option.set_value, then Option.value: the command line goes into the parser
\* over the files, and what nobody wrote has its default.  The options of a
\* service are known once it is loaded.
Default == [services |-> {}, bind_port |-> "9999", pickle_dir |-> VOID]
Known == {"services", "bind_port"} \cup (IF loaded = {} THEN {} ELSE {"pickle_dir"})
Values(ps) ==
    [o \in Option |-> IF o \notin Known THEN VOID
                      ELSE IF cmd[o] # VOID THEN cmd[o]
                      ELSE IF Merged(ps)[o] # VOID THEN Merged(ps)[o] ELSE Default[o]]

\* load_conf fails: by a file that can not be parsed, by an option of the
\* command line that is not known, by a mandatory option that is not there
\* (both pass unseen when errors are ignored), or by a validator.
Fails(ignore_errors) ==
    LET ps == PathsToRead(paths) IN
    \/ \E n \in DOMAIN ps : file[ps[n]] = Garbled
    \/ ~ignore_errors /\ \E o \in Option \ Known : cmd[o] # VOID
    \/ ~ignore_errors /\ \E o \in Known : Values(ps)[o] = VOID
    \/ Values(ps)["bind_port"] = "bad"

LoadConf(ignore_errors, next) ==
    /\ paths' = PathsExtended(paths)
    /\ IF Fails(ignore_errors)
       THEN pass' = "dead" /\ UNCHANGED config
       ELSE pass' = next /\ config' = Values(PathsToRead(paths))
    /\ UNCHANGED <<file, cmd, use, loaded, edits>>

LoadConfLenient == pass = "lenient" /\ LoadConf(TRUE, "plugins")
LoadConfStrict == pass = "strict" /\ LoadConf(FALSE, "built")

\* Services.add_config_options: load_service, setup_service.
AddConfigOptions ==
    /\ pass = "plugins"
    /\ IF config.services \subseteq Service
       THEN pass' = "strict" /\ loaded' = config.services
       ELSE pass' = "dead" /\ UNCHANGED loaded
    /\ UNCHANGED <<file, cmd, use, paths, config, edits>>

\* Someone writes a configuration file between the two passes.
EditFile(f) ==
    /\ pass \in {"plugins", "strict"} /\ edits < MaxEdits
    /\ \E c \in Content(f) : c # file[f] /\ file' = [file EXCEPT ![f] = c]
    /\ edits' = edits + 1
    /\ UNCHANGED <<cmd, use, paths, pass, config, loaded>>
=============================================================================
