---------------------------- MODULE PymindProofs ----------------------------
(***************************************************************************)
(* The configuration of pymind and the answers to its commands: for any    *)
(* services, any contents of the files and commands of any length.         *)
(* First the start (StartInductive, ConfigIsAlwaysServed); then what the    *)
(* dispatcher makes of the words of a command (DispatchAnswers); and what   *)
(* the automaton makes of its text (CommandsAreAnswered).                   *)
(***************************************************************************)
EXTENDS Pymind, SequenceTheorems, FiniteSetTheorems, WellFoundedInduction, TLAPS

\* Which files were in config_file_paths: append puts its own there, again at
\* each reading.
Paths == IF pass = "lenient" THEN <<"default">>
         ELSE IF use = "append" THEN <<"default", "extra">> ELSE <<"default">>

GoodInUse == \A f \in InUse : file[f] # Garbled

\* What is known after each step of the start, as long as nobody has changed a
\* file, and what is known in any case when the options are complete.
Start == /\ pass \in {"lenient", "plugins", "strict", "built", "serving", "dead"}
         /\ use \in {"no", "append", "replace"}
         /\ edits \in Nat
         /\ pass = "lenient" => edits = 0
         /\ pass \in {"lenient", "plugins", "strict"} => paths = Paths
         /\ pass \in {"lenient", "plugins"} => loaded = {}
         /\ pass \in {"strict", "built"} => loaded \subseteq Service
         /\ pass = "plugins" /\ edits = 0 => config["services"] = Asked("services")
         /\ pass = "strict" /\ edits = 0 => loaded = Asked("services")

Complete == pass = "built" =>
    /\ edits = 0 => Valid /\ loaded = Asked("services")
    /\ config["bind_port"] = Asked("bind_port") /\ config["bind_port"] # "bad"
    /\ loaded # {} => /\ config["pickle_dir"] = Asked("pickle_dir")
                      /\ config["pickle_dir"] # VOID

\* Nobody is answered before the daemon serves.
Quiet == pass # "serving" => reply = NoAnswer

CInv == Start /\ Complete /\ Quiet

-----------------------------------------------------------------------------
\* There are three files at most.
LEMMA UpToThree ==
    ASSUME NEW m \in 1..3, NEW n \in 1..m PROVE n \in 1..3 /\ n - 1 \in 0..m
OBVIOUS

\* What is read of up to three files: the last one that has an option counts.
LEMMA MergedFew ==
    ASSUME NEW ps, Len(ps) \in 1..3
    PROVE  LET one == ReadFile(ps[1], NoConfig)
               two == ReadFile(ps[2], one)
           IN  Merged(ps) = IF Len(ps) = 1 THEN one
                            ELSE IF Len(ps) = 2 THEN two ELSE ReadFile(ps[3], two)
  <1> DEFINE one == ReadFile(ps[1], NoConfig)
             two == ReadFile(ps[2], one)
             three == ReadFile(ps[3], two)
             Is(t) == t = [n \in 0..Len(ps) |-> IF n = 0 THEN NoConfig
                                               ELSE ReadFile(ps[n], t[n - 1])]
             f == [n \in 0..Len(ps) |-> IF n = 0 THEN NoConfig ELSE IF n = 1 THEN one
                                        ELSE IF n = 2 THEN two ELSE three]
  <1>1. Is(f)
    <2>1. ASSUME NEW n \in 1..Len(ps) PROVE f[n] = ReadFile(ps[n], f[n - 1])
      <3>1. n \in 1..3 /\ n - 1 \in 0..Len(ps)
        BY UpToThree
      <3>2. CASE n = 1
        <4>1. f[1] = one /\ f[0] = NoConfig /\ n - 1 = 0
          BY <3>2
        <4>2. QED
          BY <3>2, <4>1
      <3>3. CASE n = 2
        BY <3>3
      <3>4. CASE n = 3
        BY <3>4
      <3>5. QED
        BY <3>1, <3>2, <3>3, <3>4
    <2>2. f[0] = NoConfig
      OBVIOUS
    <2>3. QED
      BY <2>1, <2>2
  <1>2. PICK merge : Is(merge) /\ Merged(ps) = merge[Len(ps)]
    <2> DEFINE t == CHOOSE t : Is(t)
    <2>1. Is(t)
      BY <1>1
    <2>2. Merged(ps) = t[Len(ps)]
      BY DEF Merged
    <2>3. QED
      BY <2>1, <2>2
  <1>3. \A n \in 0..Len(ps) : merge[n] = IF n = 0 THEN NoConfig
                                        ELSE ReadFile(ps[n], merge[n - 1])
    BY <1>2
  <1>4. merge[0] = NoConfig /\ merge[1] = one
    BY <1>3
  <1>5. Len(ps) >= 2 => merge[2] = two
    BY <1>3, <1>4
  <1>6. Len(ps) = 3 => merge[3] = three
    BY <1>3, <1>5
  <1>7. QED
    BY <1>2, <1>4, <1>5, <1>6

\* What is read, at any reading, has the values that the files ask for.
LEMMA ValuesAsked ==
    ASSUME use \in {"no", "append", "replace"},
           paths \in {<<"default">>, <<"default", "extra">>},
           paths = <<"default", "extra">> => use = "append",
           NEW o \in Known
    PROVE  Values(PathsToRead(paths))[o] = Asked(o)
  <1> DEFINE ps == PathsToRead(paths)
             Says(f) == file[f] \notin {Missing, Garbled} /\ file[f][o] # VOID
             Of(f, rest) == IF Says(f) THEN file[f][o] ELSE rest
  <1>1. o \in Option
    BY DEF Known, Option
  <1>2. \A f, values : ReadFile(f, values)[o] = Of(f, values[o])
    BY <1>1 DEF ReadFile
  <1>3. NoConfig[o] = VOID
    BY <1>1 DEF NoConfig
  <1>4. Merged(ps)[o] = IF use = "no" THEN Of("default", VOID)
                        ELSE IF use = "append" THEN Of("extra", Of("default", VOID))
                        ELSE Of("extra", VOID)
    <2>1. CASE use = "no"
      <3>1. ps = <<"default">>
        BY <2>1 DEF PathsToRead, PathsExtended
      <3>2. Merged(ps) = ReadFile("default", NoConfig)
        BY <3>1, MergedFew
      <3>3. QED
        BY <1>2, <1>3, <2>1, <3>2
    <2>2. CASE use = "replace"
      <3>1. ps = <<"extra">>
        BY <2>2 DEF PathsToRead, PathsExtended
      <3>2. Merged(ps) = ReadFile("extra", NoConfig)
        BY <3>1, MergedFew
      <3>3. QED
        BY <1>2, <1>3, <2>2, <3>2
    <2>3. CASE use = "append"
      <3> DEFINE both == ReadFile("extra", ReadFile("default", NoConfig))
      <3>1. ps = Append(paths, "extra")
        BY <2>3 DEF PathsToRead, PathsExtended
      <3>2. both[o] = Of("extra", Of("default", VOID))
        BY <1>2, <1>3
      <3>3. CASE paths = <<"default">>
        <4>1. Len(ps) = 2 /\ ps[1] = "default" /\ ps[2] = "extra"
          BY <3>1, <3>3
        <4>2. Merged(ps) = both
          BY <4>1, MergedFew
        <4>3. QED
          BY <2>3, <3>2, <4>2
      <3>4. CASE paths = <<"default", "extra">>
        <4>1. Len(ps) = 3 /\ ps[1] = "default" /\ ps[2] = "extra" /\ ps[3] = "extra"
          BY <3>1, <3>4
        <4>2. Merged(ps) = ReadFile("extra", both)
          BY <4>1, MergedFew
        <4>3. ReadFile("extra", both)[o] = Of("extra", both[o])
          BY <1>2
        <4>4. QED
          BY <2>3, <3>2, <4>2, <4>3
      <3>5. QED
        BY <3>3, <3>4
    <2>4. QED
      BY <2>1, <2>2, <2>3
  <1>5. Values(ps)[o] = IF cmd[o] # VOID THEN cmd[o]
                        ELSE IF Merged(ps)[o] # VOID THEN Merged(ps)[o] ELSE Default[o]
    BY <1>1 DEF Values
  <1>6. QED
    BY <1>4, <1>5 DEF Asked

\* The files that are read are those in use.
LEMMA ReadInUse ==
    ASSUME use \in {"no", "append", "replace"},
           paths \in {<<"default">>, <<"default", "extra">>},
           paths = <<"default", "extra">> => use = "append"
    PROVE  (\E n \in DOMAIN PathsToRead(paths) : file[PathsToRead(paths)[n]] = Garbled)
           <=> ~GoodInUse
  <1> DEFINE ps == PathsToRead(paths)
  <1>1. {ps[n] : n \in DOMAIN ps} = InUse
    <2>1. CASE use = "no"
      BY <2>1 DEF PathsToRead, PathsExtended, InUse, File
    <2>2. CASE use = "replace"
      BY <2>2 DEF PathsToRead, PathsExtended, InUse, File
    <2>3. CASE use = "append"
      <3>1. ps = Append(paths, "extra")
        BY <2>3 DEF PathsToRead, PathsExtended
      <3>2. CASE paths = <<"default">>
        <4>1. DOMAIN ps = {1, 2} /\ ps[1] = "default" /\ ps[2] = "extra"
          BY <3>1, <3>2
        <4>2. QED
          BY <2>3, <4>1 DEF InUse, File
      <3>3. CASE paths = <<"default", "extra">>
        <4>1. DOMAIN ps = {1, 2, 3}
              /\ ps[1] = "default" /\ ps[2] = "extra" /\ ps[3] = "extra"
          BY <3>1, <3>3
        <4>2. QED
          BY <2>3, <4>1 DEF InUse, File
      <3>4. QED
        BY <3>2, <3>3
    <2>4. QED
      BY <2>1, <2>2, <2>3
  <1>2. QED
    BY <1>1 DEF GoodInUse

\* What load_conf has to read is there, at both readings.
LEMMA ReadingPaths ==
    ASSUME Start, pass \in {"lenient", "plugins", "strict"}
    PROVE  /\ use \in {"no", "append", "replace"}
           /\ paths \in {<<"default">>, <<"default", "extra">>}
           /\ paths = <<"default", "extra">> => use = "append"
           /\ pass = "lenient" => PathsExtended(paths) =
                 IF use = "append" THEN <<"default", "extra">> ELSE <<"default">>
  <1>1. use \in {"no", "append", "replace"} /\ paths = Paths
    BY DEF Start
  <1>2. <<"default">> # <<"default", "extra">>
    BY Len(<<"default">>) = 1, Len(<<"default", "extra">>) = 2
  <1>3. Append(<<"default">>, "extra") = <<"default", "extra">>
    <2> DEFINE s == Append(<<"default">>, "extra")
               t == <<"default", "extra">>
    <2>1. <<"default">> \in Seq(File) /\ Len(<<"default">>) = 1 /\ "extra" \in File
          /\ <<"default">>[1] = "default"
      BY DEF File
    <2>2. s \in Seq(File) /\ Len(s) = 2 /\ s[1] = "default" /\ s[2] = "extra"
      BY <2>1, AppendProperties
    <2>6. t \in Seq(File)
      BY DEF File
    <2>3. \A i \in 1..2 : s[i] = t[i]
      BY <2>2
    <2>4. s = t
      <3>1. Len(t) = 2
        OBVIOUS
      <3> HIDE DEF s, t
      <3>2. QED
        BY <2>2, <2>3, <2>6, <3>1, SeqEqual
    <2>5. QED
      BY <2>4 DEF s, t
  <1>4. QED
    BY <1>1, <1>2, <1>3 DEF Paths, PathsExtended

\* A reading fails exactly when the files and the command line are wrong in what
\* is known of the options.
LEMMA FailsAsked ==
    ASSUME Start, pass \in {"lenient", "strict"}, NEW ignore_errors \in BOOLEAN
    PROVE  Fails(ignore_errors) <=>
              \/ ~GoodInUse
              \/ ~ignore_errors /\ \E o \in Option \ Known : cmd[o] # VOID
              \/ ~ignore_errors /\ \E o \in Known : Asked(o) = VOID
              \/ Asked("bind_port") = "bad"
  <1>1. \A o \in Known : Values(PathsToRead(paths))[o] = Asked(o)
    BY ReadingPaths, ValuesAsked
  <1>2. "bind_port" \in Known
    BY DEF Known
  <1>3. (\E n \in DOMAIN PathsToRead(paths) : file[PathsToRead(paths)[n]] = Garbled)
        <=> ~GoodInUse
    BY ReadingPaths, ReadInUse
  <1>4. QED
    BY <1>1, <1>2, <1>3 DEF Fails

\* The options that have a default are always there.
LEMMA DefaultsThere ==
    /\ Asked("services") # VOID
    /\ Asked("bind_port") # VOID
  <1>1. Default["services"] # VOID /\ Default["bind_port"] # VOID
    BY ConfigAssumption DEF Default
  <1>2. QED
    BY <1>1 DEF Asked

\* The second reading fails exactly when something is wrong, if the services that
\* were loaded are those that are asked for.
LEMMA StrictIsValid ==
    ASSUME Start, pass = "strict", loaded = Asked("services")
    PROVE  Fails(FALSE) <=> ~Valid
  <1>1. Asked("services") \subseteq Service
    BY DEF Start
  <1>2. Fails(FALSE) <=> \/ ~GoodInUse
                         \/ \E o \in Option \ Known : cmd[o] # VOID
                         \/ \E o \in Known : Asked(o) = VOID
                         \/ Asked("bind_port") = "bad"
    BY FailsAsked
  <1>3. CASE loaded = {}
    <2>1. Option \ Known = {"pickle_dir"} /\ Known = {"services", "bind_port"}
      BY <1>3 DEF Option, Known
    <2>2. QED
      BY <1>1, <1>2, <1>3, <2>1, DefaultsThere DEF Valid, GoodInUse
  <1>4. CASE loaded # {}
    <2>1. Option \ Known = {} /\ Known = {"services", "bind_port", "pickle_dir"}
      BY <1>4 DEF Option, Known
    <2>2. QED
      BY <1>1, <1>2, <1>4, <2>1, DefaultsThere DEF Valid, GoodInUse
  <1>5. QED
    BY <1>3, <1>4

\* What is asked for does not change while the files, and the command line, do not.
LEMMA AskedKept ==
    ASSUME UNCHANGED <<file, cmd, use>>
    PROVE  (\A o : Asked(o)' = Asked(o)) /\ Valid' = Valid /\ InUse' = InUse
  <1>1. \A o : Asked(o)' = Asked(o)
    BY DEF Asked
  <1>2. InUse' = InUse
    BY DEF InUse
  <1>3. QED
    BY <1>1, <1>2 DEF Valid

-----------------------------------------------------------------------------
\* Before the first reading.
LEMMA CInit == Init => CInv
  <1>1. Init => Start
    BY DEF Init, ConfigInit, Start, Paths
  <1>2. Init => Complete /\ Quiet
    BY DEF Init, ConfigInit, Complete, Quiet
  <1>3. QED
    BY <1>1, <1>2 DEF CInv

\* The first reading.
LEMMA LenientKeeps ==
    ASSUME CInv, LoadConfLenient, UNCHANGED <<parser, dispatcher>>
    PROVE  CInv' /\ (pass' = "dead" => ~Valid)
  <1>1. Start /\ Quiet /\ pass = "lenient" /\ UNCHANGED <<file, cmd, use, loaded, edits>>
        /\ paths' = PathsExtended(paths) /\ UNCHANGED <<reply>>
    BY DEF CInv, LoadConfLenient, LoadConf, dispatcher
  <1>2. CASE Fails(TRUE)
    <2>1. pass' = "dead"
      BY <1>2 DEF LoadConfLenient, LoadConf
    <2>2. ~Valid
      BY <1>1, <1>2, FailsAsked DEF Valid, GoodInUse
    <2>3. QED
      BY <1>1, <2>1, <2>2 DEF CInv, Start, Complete, Quiet
  <1>3. CASE ~Fails(TRUE)
    <2>1. pass' = "plugins" /\ config' = Values(PathsToRead(paths))
      BY <1>3 DEF LoadConfLenient, LoadConf
    <2>2. config'["services"] = Asked("services")
      <3>1. "services" \in Known
        BY DEF Known
      <3>2. QED
        BY <1>1, <2>1, <3>1, ReadingPaths, ValuesAsked
    <2>3. paths' = Paths'
      BY <1>1, <2>1, ReadingPaths DEF Paths
    <2>4. Asked("services")' = Asked("services")
      BY <1>1, AskedKept
    <2>5. Start'
      BY <1>1, <2>1, <2>2, <2>3, <2>4 DEF Start
    <2>6. QED
      BY <1>1, <2>1, <2>5 DEF CInv, Complete, Quiet
  <1>4. QED
    BY <1>2, <1>3

\* The services are loaded.
LEMMA PluginsKeep ==
    ASSUME CInv, AddConfigOptions, UNCHANGED <<parser, dispatcher>>
    PROVE  CInv' /\ (pass' = "dead" => edits > 0 \/ ~Valid)
  <1>1. Start /\ Quiet /\ pass = "plugins" /\ UNCHANGED <<file, cmd, use, paths, config, edits>>
        /\ UNCHANGED reply
    BY DEF CInv, AddConfigOptions, dispatcher
  <1>2. edits = 0 => config["services"] = Asked("services")
    BY <1>1 DEF Start
  <1>3. CASE config.services \subseteq Service
    <2>1. pass' = "strict" /\ loaded' = config["services"]
      BY <1>3 DEF AddConfigOptions
    <2>2. Asked("services")' = Asked("services")
      BY <1>1, AskedKept
    <2>3. paths' = Paths'
      BY <1>1, <2>1 DEF Start, Paths
    <2>4. Start'
      BY <1>1, <1>2, <1>3, <2>1, <2>2, <2>3 DEF Start
    <2>5. QED
      BY <1>1, <2>1, <2>4 DEF CInv, Complete, Quiet
  <1>4. CASE ~(config.services \subseteq Service)
    <2>1. pass' = "dead"
      BY <1>4 DEF AddConfigOptions
    <2>2. edits = 0 => ~Valid
      BY <1>2, <1>4 DEF Valid
    <2>3. edits > 0 \/ edits = 0
      BY <1>1 DEF Start
    <2>4. QED
      BY <1>1, <2>1, <2>2, <2>3 DEF CInv, Start, Complete, Quiet
  <1>5. QED
    BY <1>3, <1>4

\* The second reading.
LEMMA StrictKeeps ==
    ASSUME CInv, LoadConfStrict, UNCHANGED <<parser, dispatcher>>
    PROVE  CInv' /\ (pass' = "dead" => edits > 0 \/ ~Valid)
  <1>1. Start /\ Quiet /\ pass = "strict" /\ UNCHANGED <<file, cmd, use, loaded, edits>>
        /\ UNCHANGED reply
    BY DEF CInv, LoadConfStrict, LoadConf, dispatcher
  <1>2. edits > 0 \/ edits = 0
    BY <1>1 DEF Start
  <1>3. edits = 0 => loaded = Asked("services")
    BY <1>1 DEF Start
  <1>4. CASE Fails(FALSE)
    <2>1. pass' = "dead"
      BY <1>4 DEF LoadConfStrict, LoadConf
    <2>2. edits = 0 => ~Valid
      BY <1>1, <1>3, <1>4, StrictIsValid
    <2>3. QED
      BY <1>1, <1>2, <2>1, <2>2 DEF CInv, Start, Complete, Quiet
  <1>5. CASE ~Fails(FALSE)
    <2>1. pass' = "built" /\ config' = Values(PathsToRead(paths))
      BY <1>5 DEF LoadConfStrict, LoadConf
    <2>2. \A o \in Known : config'[o] = Asked(o) /\ Asked(o) # VOID
      BY <1>1, <1>5, <2>1, ReadingPaths, ValuesAsked, FailsAsked
    <2>3. Asked("bind_port") # "bad"
      BY <1>1, <1>5, FailsAsked
    <2>4. "bind_port" \in Known /\ (loaded # {} => "pickle_dir" \in Known)
      BY DEF Known
    <2>5. edits = 0 => Valid
      BY <1>1, <1>3, <1>5, StrictIsValid
    <2>6. (\A o : Asked(o)' = Asked(o)) /\ Valid' = Valid
      BY <1>1, AskedKept
    <2>7. Complete'
      BY <1>1, <1>3, <2>2, <2>3, <2>4, <2>5, <2>6 DEF Complete
    <2>8. Start'
      BY <1>1, <2>1 DEF Start
    <2>9. QED
      BY <1>1, <2>1, <2>7, <2>8 DEF CInv, Quiet
  <1>6. QED
    BY <1>4, <1>5

\* Somebody changes a file between two readings: no more is known of the files.
LEMMA EditKeeps ==
    ASSUME CInv, NEW f \in File, EditFile(f), UNCHANGED <<parser, dispatcher>>
    PROVE  CInv' /\ pass' # "dead"
  <1>1. /\ pass \in {"plugins", "strict"} /\ edits \in Nat /\ edits' = edits + 1
        /\ UNCHANGED <<cmd, use, paths, pass, config, loaded, reply>>
    BY DEF CInv, Start, EditFile, dispatcher
  <1>2. edits' \in Nat /\ edits' # 0
    BY <1>1
  <1>3. paths' = Paths'
    BY <1>1 DEF CInv, Start, Paths
  <1>4. Start'
    BY <1>1, <1>2, <1>3 DEF CInv, Start
  <1>5. QED
    BY <1>1, <1>4 DEF CInv, Complete, Quiet

\* A daemon that serves has nothing to do with its configuration any more.
LEMMA ServingKeeps ==
    ASSUME CInv, pass' = "serving", use' \in {"no", "append", "replace"}, edits' \in Nat
    PROVE  CInv'
BY DEF CInv, Start, Complete, Quiet

\* So every step keeps what is known of the start.
LEMMA CNext == CInv /\ [Next]_vars => CInv'
  <1> SUFFICES ASSUME CInv, [Next]_vars PROVE CInv'
    OBVIOUS
  <1>1. CASE ReadConfig
    BY <1>1, LenientKeeps, PluginsKeep, StrictKeeps, EditKeeps DEF ReadConfig
  <1>2. CASE BuildRoot
    BY <1>2, ServingKeeps DEF BuildRoot
  <1>3. CASE Receive \/ Handle \/ Respond
    <2>1. pass = "serving" /\ UNCHANGED config_vars
      BY <1>3 DEF Receive, Handle, Respond, CInv, Quiet
    <2>2. QED
      BY <2>1, ServingKeeps DEF config_vars, CInv, Start
  <1>4. CASE UNCHANGED vars
    <2>1. (\A o : Asked(o)' = Asked(o)) /\ Valid' = Valid
      BY <1>4, AskedKept DEF vars, config_vars
    <2>2. QED
      BY <1>4, <2>1 DEF vars, config_vars, dispatcher, CInv, Start, Complete, Quiet, Paths
  <1>5. QED
    BY <1>1, <1>2, <1>3, <1>4 DEF Next

\* What is known of the start of pymind, in every reachable state.
THEOREM StartInductive == Spec => []CInv
  <1>1. QED
    BY CInit, CNext, PTL DEF Spec

\* pymind serves what its files and its command line ask for, and ends before it
\* serves exactly when something in them is wrong, for any services and any
\* contents of the files (ConfigIsServed of Pymind).
THEOREM ConfigIsAlwaysServed == Spec => ConfigIsServed
  <1> DEFINE Served ==
        /\ pass' = "dead" => edits > 0 \/ ~Valid
        /\ pass = "built" =>
            /\ edits = 0 => Valid /\ root' = Asked("services")
            /\ config.bind_port = Asked("bind_port") /\ config.bind_port # "bad"
            /\ root' # {} => config.pickle_dir = Asked("pickle_dir")
                             /\ config.pickle_dir # VOID
  <1>1. ASSUME CInv, Next, vars' # vars PROVE Served
    <2>1. CASE ReadConfig
      <3>1. pass # "built"
        BY <2>1 DEF ReadConfig, LoadConfLenient, LoadConfStrict, AddConfigOptions, EditFile
      <3>2. pass' = "dead" => edits > 0 \/ ~Valid
        BY <1>1, <2>1, LenientKeeps, PluginsKeep, StrictKeeps, EditKeeps DEF ReadConfig
      <3>3. QED
        BY <3>1, <3>2
    <2>2. CASE BuildRoot
      BY <1>1, <2>2 DEF CInv, Complete, BuildRoot, Root
    <2>3. CASE Receive \/ Handle \/ Respond
      <3>1. pass = "serving" /\ UNCHANGED config_vars
        BY <1>1, <2>3 DEF Receive, Handle, Respond, CInv, Quiet
      <3>2. QED
        BY <3>1 DEF config_vars
    <2>4. QED
      BY <1>1, <2>1, <2>2, <2>3 DEF Next
  <1>2. CInv /\ [Next]_vars => [Served]_vars
    BY <1>1
  <1>3. QED
    BY <1>2, StartInductive, PTL DEF Spec, ConfigIsServed

-----------------------------------------------------------------------------
\* What follows a node depends on what the next word may lead to from there.
LEMMA WalkDepends ==
    ASSUME NEW route, NEW kwargs, NEW n \in 0..Len(route), NEW node \in Node,
           NEW u, NEW v, Len(route) \in Nat,
           \A m \in 0..Len(route), a \in DOMAIN Attributes(node) :
              u[m][Attributes(node)[a]] = v[m][Attributes(node)[a]]
    PROVE  RoutedAt(route, kwargs, n, node, u) = RoutedAt(route, kwargs, n, node, v)
  <1>1. CASE n = Len(route)
    BY <1>1 DEF RoutedAt
  <1>2. CASE n # Len(route) /\ route[n + 1] \in DOMAIN Attributes(node)
    <2>1. n + 1 \in 0..Len(route)
      BY <1>2
    <2>2. u[n + 1][Attributes(node)[route[n + 1]]] = v[n + 1][Attributes(node)[route[n + 1]]]
      BY <1>2, <2>1
    <2>3. QED
      BY <2>2 DEF RoutedAt
  <1>3. CASE n # Len(route) /\ route[n + 1] \notin DOMAIN Attributes(node)
    BY <1>3 DEF RoutedAt
  <1>4. QED
    BY <1>1, <1>2, <1>3

\* The tree is three handlers deep.
LEMMA Leads ==
    /\ DOMAIN Attributes("command") = {} /\ DOMAIN Attributes("data") = {}
    /\ \A a \in DOMAIN Attributes("service") :
          Attributes("service")[a] \in {"command", "data"}
    /\ \A a \in DOMAIN Attributes("root") :
          Attributes("root")[a] \in {"command", "service"}
  <1>1. Attributes("command") = Empty /\ Attributes("data") = Empty
    BY DEF Attributes
  <1>2. DOMAIN Empty = {}
    BY DEF Empty
  <1>3. QED
    BY <1>1, <1>2 DEF Attributes

\* The loop of dispatch comes to an end, and so there is such a walk.
LEMMA Walks ==
    ASSUME NEW route, NEW kwargs, Len(route) \in Nat
    PROVE  \E walk : /\ Routed(route, kwargs) = walk[0]["root"]
                     /\ \A n \in 0..Len(route), node \in Node :
                           walk[n][node] = RoutedAt(route, kwargs, n, node, walk)
  <1> DEFINE On(w) == [n \in 0..Len(route) |->
                          [node \in Node |-> RoutedAt(route, kwargs, n, node, w)]]
             Is(w) == w = On(w)
             one == On(Empty)
             two == On(one)
             three == On(two)
             four == On(three)
  <1> HIDE DEF On
  <1>1. ASSUME NEW w, NEW x PROVE
           \A n \in 0..Len(route), node \in {"command", "data"} : On(w)[n][node] = On(x)[n][node]
    <2>1. ASSUME NEW n \in 0..Len(route), NEW node \in {"command", "data"}
          PROVE  RoutedAt(route, kwargs, n, node, w) = RoutedAt(route, kwargs, n, node, x)
      <3>1. node \in Node /\ DOMAIN Attributes(node) = {}
        BY Leads DEF Node
      <3>2. QED
        BY <3>1, WalkDepends
    <2>2. {"command", "data"} \subseteq Node
      BY DEF Node
    <2>3. QED
      BY <2>1, <2>2 DEF On
  <1>2. ASSUME NEW w, NEW x PROVE
           \A n \in 0..Len(route) : On(On(w))[n]["service"] = On(On(x))[n]["service"]
    <2>1. ASSUME NEW n \in 0..Len(route)
          PROVE  RoutedAt(route, kwargs, n, "service", On(w))
                    = RoutedAt(route, kwargs, n, "service", On(x))
      <3>1. \A m \in 0..Len(route), a \in DOMAIN Attributes("service") :
               On(w)[m][Attributes("service")[a]] = On(x)[m][Attributes("service")[a]]
        <4>1. \A m \in 0..Len(route), b \in {"command", "data"} : On(w)[m][b] = On(x)[m][b]
          BY <1>1
        <4>2. QED
          BY <4>1, Leads, Zenon
      <3>2. "service" \in Node
        BY DEF Node
      <3>3. QED
        BY <3>1, <3>2, WalkDepends
    <2>2. "service" \in Node
      BY DEF Node
    <2>3. \A n \in 0..Len(route) :
             /\ On(On(w))[n]["service"] = RoutedAt(route, kwargs, n, "service", On(w))
             /\ On(On(x))[n]["service"] = RoutedAt(route, kwargs, n, "service", On(x))
      BY <2>2 DEF On
    <2>4. QED
      BY <2>1, <2>3
  <1>3. \A n \in 0..Len(route) : four[n]["root"] = three[n]["root"]
    <2>1. ASSUME NEW n \in 0..Len(route)
          PROVE  RoutedAt(route, kwargs, n, "root", three)
                    = RoutedAt(route, kwargs, n, "root", two)
      <3>1. \A m \in 0..Len(route), node \in {"command", "service"} :
               three[m][node] = two[m][node]
        BY <1>1, <1>2
      <3>2. \A m \in 0..Len(route), a \in DOMAIN Attributes("root") :
               three[m][Attributes("root")[a]] = two[m][Attributes("root")[a]]
        BY <3>1, Leads
      <3>3. "root" \in Node
        BY DEF Node
      <3>4. QED
        BY <3>2, <3>3, WalkDepends
    <2>2. "root" \in Node
      BY DEF Node
    <2>3. \A n \in 0..Len(route) :
             /\ four[n]["root"] = RoutedAt(route, kwargs, n, "root", three)
             /\ three[n]["root"] = RoutedAt(route, kwargs, n, "root", two)
      BY <2>2 DEF On
    <2>4. QED
      BY <2>1, <2>3
  <1>4. Is(three)
    <2>1. \A n \in 0..Len(route), node \in Node : four[n][node] = three[n][node]
      BY <1>1, <1>2, <1>3 DEF Node
    <2>2. \A n \in 0..Len(route) : four[n] = three[n]
      <3>1. \A n \in 0..Len(route) : /\ four[n] = [node \in Node |-> four[n][node]]
                                     /\ three[n] = [node \in Node |-> three[n][node]]
        BY DEF On
      <3>2. QED
        BY <2>1, <3>1
    <2>3. four = three
      <3>1. /\ four = [n \in 0..Len(route) |-> four[n]]
            /\ three = [n \in 0..Len(route) |-> three[n]]
        BY DEF On
      <3>2. QED
        BY <2>2, <3>1
    <2>4. QED
      BY <2>3
  <1>5. PICK walk : Is(walk) /\ Routed(route, kwargs) = walk[0]["root"]
    <2> DEFINE t == CHOOSE t : Is(t)
    <2>1. Is(t)
      BY <1>4
    <2>2. Routed(route, kwargs) = t[0]["root"]
      BY DEF Routed, On
    <2>3. QED
      BY <2>1, <2>2
  <1>6. \A n \in 0..Len(route), node \in Node :
           walk[n][node] = RoutedAt(route, kwargs, n, node, walk)
    <2>1. walk = On(walk)
      BY <1>5
    <2>2. \A n \in 0..Len(route), node \in Node :
             On(walk)[n][node] = RoutedAt(route, kwargs, n, node, walk)
      BY DEF On
    <2>3. QED
      BY <2>1, <2>2, Zenon
  <1>7. QED
    BY <1>5, <1>6, Zenon

\* What the handlers of the tree are called, and what they are not.
LEMMA NamesApart ==
    ASSUME root \subseteq Names
    PROVE  /\ HelpName \notin root /\ DataName \notin root /\ ParentName \notin root
           /\ HelpName # Null /\ DataName # Null /\ ParentName # Null /\ Null \notin root
           /\ HelpName # DataName /\ ParentName # HelpName /\ ParentName # DataName
BY DispatcherAssumption

\* The arguments that a call is given, by position and by name.
Given(words, kwargs) ==
    words \o [i \in 1..Cardinality(DOMAIN kwargs) |-> kwargs[Parameter]]

\* A call with what fits the signature has the one argument, or none.
LEMMA GivenFits ==
    ASSUME NEW S, NEW words \in Seq(S), NEW kwargs, DOMAIN kwargs \subseteq {Parameter},
           \A p \in DOMAIN kwargs : kwargs[p] \in S
    PROVE  /\ Len(Given(words, kwargs)) = Len(words) + Cardinality(DOMAIN kwargs)
           /\ Len(words) + Cardinality(DOMAIN kwargs) <= 1 =>
                 (IF Given(words, kwargs) = <<>> THEN Null ELSE Given(words, kwargs)[1])
                    = IF words # <<>> THEN words[1]
                      ELSE IF DOMAIN kwargs # {} THEN kwargs[Parameter] ELSE Null
  <1> DEFINE named == [i \in 1..Cardinality(DOMAIN kwargs) |-> kwargs[Parameter]]
  <1>1. Len(words) \in Nat /\ (words = <<>> <=> Len(words) = 0)
    BY EmptySeq, LenProperties
  <1>2. CASE DOMAIN kwargs = {}
    <2>1. Cardinality(DOMAIN kwargs) = 0
      BY <1>2, FS_EmptySet
    <2>2. named \in Seq(S) /\ Len(named) = 0
      BY <2>1
    <2>3. named = <<>>
      BY <2>2, EmptySeq
    <2>4. words \o named = words
      BY <2>3, ConcatEmptySeq
    <2>5. QED
      BY <1>1, <1>2, <2>1, <2>4 DEF Given
  <1>3. CASE DOMAIN kwargs = {Parameter}
    <2>1. Cardinality(DOMAIN kwargs) = 1
      BY <1>3, FS_Singleton
    <2>2. named \in Seq(S) /\ Len(named) = 1 /\ named[1] = kwargs[Parameter]
      <3>1. kwargs[Parameter] \in S
        BY <1>3
      <3>2. named = [i \in 1..1 |-> kwargs[Parameter]]
        BY <2>1
      <3>3. named \in [1..1 -> S] /\ named[1] = kwargs[Parameter]
        BY <3>1, <3>2
      <3> HIDE DEF named
      <3>4. named \in Seq(S)
        <4>1. \E n \in Nat : named \in [1..n -> S]
          BY <3>3
        <4>2. QED
          BY <4>1, SeqDef
      <3>5. QED
        BY <3>3, <3>4
    <2> HIDE DEF named
    <2>3. /\ words \o named \in Seq(S) /\ Len(words \o named) = Len(words) + 1
          /\ (words \o named)[Len(words) + 1] = named[1]
      BY <1>1, <2>2, ConcatProperties
    <2>4. words \o named # <<>>
      BY <1>1, <2>3, EmptySeq
    <2>5. Given(words, kwargs) = words \o named
      BY DEF Given, named
    <2>6. ASSUME Len(words) + 1 <= 1
          PROVE  words = <<>> /\ (words \o named)[1] = kwargs[Parameter]
      BY <1>1, <2>2, <2>3, <2>6
    <2>7. DOMAIN kwargs # {}
      BY <1>3
    <2>8. QED
      BY <2>1, <2>3, <2>4, <2>5, <2>6, <2>7
  <1>4. QED
    BY <1>2, <1>3

\* A call of help answers what the arguments ask for: a listing of the handler
\* that path leads to, the help of one of its attributes, or an error.
LEMMA CallAnswers ==
    ASSUME root \subseteq Names, NEW S, NEW words \in Seq(S), NEW kwargs,
           \A p \in DOMAIN kwargs : kwargs[p] \in S, NEW path
    PROVE  LET given == Given(words, kwargs)
               about == IF given = <<>> THEN Null ELSE given[1] IN
           Call(path, words, kwargs) =
              IF ~DOMAIN kwargs \subseteq {Parameter} \/ Len(given) > 1
              THEN Answer("WrongArguments", words)
              ELSE IF about = Null THEN Answer("Listing", path)
              ELSE IF about = HelpName \/ (path = <<>> /\ about \in root)
              THEN Answer("Help", Append(path, about))
              ELSE Answer("HelpNotFound", <<about>>)
  <1> DEFINE given == Given(words, kwargs)
             about == IF given = <<>> THEN Null ELSE given[1]
  <1>1. CASE ~DOMAIN kwargs \subseteq {Parameter}
    BY <1>1 DEF Call
  <1>2. CASE DOMAIN kwargs \subseteq {Parameter}
    <2>1. Len(given) = Len(words) + Cardinality(DOMAIN kwargs)
      BY <1>2, GivenFits
    <2>2. CASE Len(words) + Cardinality(DOMAIN kwargs) > 1
      BY <1>2, <2>1, <2>2 DEF Call
    <2>3. CASE ~(Len(words) + Cardinality(DOMAIN kwargs) > 1)
      <3>1. Len(words) + Cardinality(DOMAIN kwargs) <= 1
        <4>1. Len(words) \in Nat
          BY LenProperties
        <4>2. Cardinality(DOMAIN kwargs) \in Nat
          BY <1>2, FS_Singleton, FS_Subset, FS_CardinalityType
        <4>3. QED
          BY <2>3, <4>1, <4>2
      <3>2. about = IF words # <<>> THEN words[1]
                    ELSE IF DOMAIN kwargs # {} THEN kwargs[Parameter] ELSE Null
        BY <1>2, <3>1, GivenFits
      <3> HIDE DEF about
      <3>3. Call(path, words, kwargs) = Help(path, about)
        BY <1>2, <2>3, <3>2 DEF Call
      <3>4. Help(path, about) = IF about = Null THEN Answer("Listing", path)
               ELSE IF about = HelpName \/ (path = <<>> /\ about \in root)
               THEN Answer("Help", Append(path, about))
               ELSE Answer("HelpNotFound", <<about>>)
        <4>1. CASE path = <<>>
          BY <4>1, NamesApart DEF Help, Attributes
        <4>2. CASE path # <<>>
          BY <4>2, NamesApart DEF Help, Attributes
        <4>3. QED
          BY <4>1, <4>2
      <3>5. QED
        BY <1>2, <2>1, <2>3, <3>3, <3>4 DEF about
    <2>4. QED
      BY <2>2, <2>3
  <1>3. QED
    BY <1>1, <1>2

\* The tree leads every command to the answer that its words ask for.
LEMMA RoutedRight ==
    ASSUME root \subseteq Names, NEW S, NEW w \in Seq(S), w # <<>>, NEW kwargs,
           \A p \in DOMAIN kwargs : kwargs[p] \in S
    PROVE  Routed(w, kwargs) = Answered([error |-> FALSE, args |-> w, kwargs |-> kwargs])
  <1> DEFINE r == [error |-> FALSE, args |-> w, kwargs |-> kwargs]
             n == Len(w)
             InService == n > 0 /\ w[1] \in root
             k == IF InService THEN 2 ELSE 1
             upto(j) == SubSeq(w, 1, j)
  <1>1. n = Len(w) /\ n \in Nat /\ n > 0
    BY EmptySeq, LenProperties
  <1> HIDE DEF n
  <1>2. PICK walk : /\ Routed(w, kwargs) = walk[0]["root"]
                    /\ \A i \in 0..n, node \in Node :
                          walk[i][node] = RoutedAt(w, kwargs, i, node, walk)
    BY <1>1, Walks
  <1>10. ASSUME NEW i \in 0..n, NEW j, j = i + 1
         PROVE  /\ walk[i]["root"] =
                      IF i = n THEN Answer("CommandIsAHandler", w)
                      ELSE IF w[j] = ParentName THEN Answer("CommandNotFound", upto(j))
                      ELSE IF w[j] = Null THEN Answer("Internal", <<>>)
                      ELSE IF w[j] = HelpName THEN walk[j]["command"]
                      ELSE IF w[j] \in root THEN walk[j]["service"]
                      ELSE IF i = 0 THEN Answer("CommandNotFound", upto(j))
                      ELSE Answer("CommandNotInHandler", upto(j))
                /\ walk[i]["service"] =
                      IF i = n THEN Answer("CommandIsAHandler", w)
                      ELSE IF w[j] = ParentName THEN Answer("CommandNotFound", upto(j))
                      ELSE IF w[j] = Null THEN Answer("Internal", <<>>)
                      ELSE IF w[j] = HelpName THEN walk[j]["command"]
                      ELSE IF w[j] = DataName THEN walk[j]["data"]
                      ELSE IF i = 0 THEN Answer("CommandNotFound", upto(j))
                      ELSE Answer("CommandNotInHandler", upto(j))
                /\ walk[i]["data"] =
                      IF i = n THEN Answer("CommandNotFound", w)
                      ELSE IF w[j] # ParentName /\ w[j] = Null THEN Answer("Internal", <<>>)
                      ELSE Answer("CommandNotFound", upto(j))
                /\ walk[i]["command"] = Call(upto(i - 1), SubSeq(w, j, n), kwargs)
    <2>1. RoutedAt(w, kwargs, i, "root", walk) =
                   IF i = n THEN Answer("CommandIsAHandler", w)
                   ELSE IF w[j] = ParentName THEN Answer("CommandNotFound", upto(j))
                   ELSE IF w[j] = Null THEN Answer("Internal", <<>>)
                   ELSE IF w[j] \notin root \cup {HelpName}
                        THEN Answer(IF i > 0 THEN "CommandNotInHandler" ELSE "CommandNotFound",
                                    upto(j))
                   ELSE walk[j][Attributes("root")[w[j]]]
      <3>1. DOMAIN Attributes("root") = root \cup {HelpName}
        BY DEF Attributes
      <3>2. QED
        BY <1>1, <1>10, <3>1 DEF RoutedAt, IsHandler, IsHandlerClass
    <2>2. RoutedAt(w, kwargs, i, "service", walk) =
                   IF i = n THEN Answer("CommandIsAHandler", w)
                   ELSE IF w[j] = ParentName THEN Answer("CommandNotFound", upto(j))
                   ELSE IF w[j] = Null THEN Answer("Internal", <<>>)
                   ELSE IF w[j] \notin {HelpName, DataName, ParentName}
                        THEN Answer(IF i > 0 THEN "CommandNotInHandler" ELSE "CommandNotFound",
                                    upto(j))
                   ELSE walk[j][Attributes("service")[w[j]]]
      <3>1. DOMAIN Attributes("service") = {HelpName, DataName, ParentName}
        BY DEF Attributes
      <3>2. QED
        BY <1>1, <1>10, <3>1 DEF RoutedAt, IsHandler, IsHandlerClass
    <2>3. RoutedAt(w, kwargs, i, "data", walk) =
                   IF i = n THEN Answer("CommandNotFound", w)
                   ELSE IF w[j] = ParentName THEN Answer("CommandNotFound", upto(j))
                   ELSE IF w[j] = Null THEN Answer("Internal", <<>>)
                   ELSE Answer("CommandNotFound", upto(j))
      BY <1>1, <1>10, Leads DEF RoutedAt, IsHandler, IsHandlerClass
    <2>4. RoutedAt(w, kwargs, i, "command", walk) =
             Call(upto(i - 1), SubSeq(w, j, n), kwargs)
      BY <1>1, <1>10 DEF RoutedAt, IsHandler
    <2>5. /\ Attributes("root")[HelpName] = "command"
          /\ \A a \in root : Attributes("root")[a] = "service"
          /\ Attributes("service")[HelpName] = "command"
          /\ Attributes("service")[DataName] = "data"
      BY NamesApart DEF Attributes
    <2>6. /\ walk[i]["root"] = RoutedAt(w, kwargs, i, "root", walk)
          /\ walk[i]["service"] = RoutedAt(w, kwargs, i, "service", walk)
          /\ walk[i]["data"] = RoutedAt(w, kwargs, i, "data", walk)
          /\ walk[i]["command"] = RoutedAt(w, kwargs, i, "command", walk)
      BY <1>2 DEF Node
    <2>7. i > 0 <=> i # 0
      BY <1>1
    <2>8. QED
      BY <2>1, <2>2, <2>3, <2>4, <2>5, <2>6, <2>7, NamesApart
  <1>3. /\ r.error = FALSE /\ r.args = w /\ r.kwargs = kwargs
    OBVIOUS
  <1>4. upto(0) = <<>> /\ upto(n) = w
    <2>1. \A i \in {0, n} : upto(i) \in Seq(S) /\ Len(upto(i)) = i
                            /\ \A j \in 1..i : upto(i)[j] = w[j]
      BY <1>1, SubSeqProperties
    <2>2. upto(0) = <<>>
      BY <2>1, EmptySeq
    <2>3. upto(n) = w
      <3>1. upto(n) \in Seq(S) /\ Len(upto(n)) = Len(w) /\ \A j \in 1..Len(w) : upto(n)[j] = w[j]
        BY <1>1, <2>1
      <3> HIDE DEF upto
      <3>2. QED
        BY <3>1, SeqEqual
    <2>4. QED
      BY <2>2, <2>3
  <1>5. /\ r.error = FALSE /\ n # 0
    BY <1>1
  <1>6. ASSUME NEW j \in {1, 2}, j <= n, w[j] = HelpName, k = j
        PROVE  walk[j]["command"] = Answered(r)
    <2> DEFINE words == SubSeq(w, j + 1, n)
               given == Given(words, kwargs)
               about == IF given = <<>> THEN Null ELSE given[1]
    <2>1. j \in 0..n /\ j \in Nat
      BY <1>1, <1>6
    <2>2. walk[j]["command"] = Call(upto(j - 1), words, kwargs)
      BY <1>10, <2>1
    <2>3. words \in Seq(S)
      <3>1. \A i \in (j + 1)..n : w[i] \in S
        BY <1>1, ElementOfSeq
      <3>2. QED
        BY <1>1, <3>1, SubSeqProperties
    <2>4. upto(j - 1) = <<>> <=> j = 1
      <3>1. CASE j = 1
        BY <1>4, <3>1
      <3>2. CASE j = 2
        <4>1. \A i \in 1..1 : w[i] \in S
          BY <1>1, ElementOfSeq
        <4>2. upto(1) \in Seq(S) /\ Len(upto(1)) = 1
          BY <4>1, SubSeqProperties
        <4>3. upto(1) # <<>>
          BY <4>2, EmptySeq
        <4>4. QED
          BY <3>2, <4>3
      <3>3. QED
        BY <1>6, <3>1, <3>2
    <2>5. ~InService <=> j = 1
      BY <1>6
    <2>6. Call(upto(j - 1), words, kwargs) =
              IF ~DOMAIN kwargs \subseteq {Parameter} \/ Len(given) > 1
              THEN Answer("WrongArguments", words)
              ELSE IF about = Null THEN Answer("Listing", upto(j - 1))
              ELSE IF about = HelpName \/ (upto(j - 1) = <<>> /\ about \in root)
              THEN Answer("Help", Append(upto(j - 1), about))
              ELSE Answer("HelpNotFound", <<about>>)
      BY <2>3, CallAnswers
    <2>7. Answered(r) =
              IF ~DOMAIN kwargs \subseteq {Parameter} \/ Len(given) > 1
              THEN Answer("WrongArguments", words)
              ELSE IF about = Null THEN Answer("Listing", upto(j - 1))
              ELSE IF about = HelpName \/ (~InService /\ about \in root)
              THEN Answer("Help", Append(upto(j - 1), about))
              ELSE Answer("HelpNotFound", <<about>>)
      <3>1. ~(n < k) /\ w[k] # Null /\ ~(InService /\ w[2] = DataName)
        BY <1>1, <1>6, NamesApart
      <3>2. QED
        BY <1>1, <1>3, <1>5, <1>6, <3>1 DEF Answered, Given
    <2>8. QED
      BY <2>2, <2>4, <2>5, <2>6, <2>7
  <1>7. CASE ~InService
    <2>1. walk[0]["root"] =
             IF w[1] = ParentName THEN Answer("CommandNotFound", upto(1))
             ELSE IF w[1] = Null THEN Answer("Internal", <<>>)
             ELSE IF w[1] # HelpName THEN Answer("CommandNotFound", upto(1))
             ELSE walk[1]["command"]
      <3>1. 0 \in 0..n /\ n # 0 /\ 1 = 0 + 1
        BY <1>1
      <3>2. w[1] \notin root
        BY <1>1, <1>7
      <3>3. QED
        BY <1>1, <1>10, <3>1, <3>2
    <2>2. CASE w[1] = HelpName
      BY <1>1, <1>2, <1>6, <1>7, <2>1, <2>2, NamesApart
    <2>3. CASE w[1] # HelpName
      BY <1>1, <1>2, <1>3, <1>7, <2>1, <2>3, NamesApart DEF Answered
    <2>4. QED
      BY <2>2, <2>3
  <1>8. CASE InService
    <2>1. walk[0]["root"] = walk[1]["service"]
      <3>1. 0 \in 0..n /\ n # 0 /\ 1 = 0 + 1
        BY <1>1
      <3>2. QED
        BY <1>1, <1>8, <1>10, <3>1, NamesApart
    <2>2. CASE n = 1
      <3>1. 1 \in 0..n /\ 2 = 1 + 1
        BY <2>2
      <3>2. walk[1]["service"] = Answer("CommandIsAHandler", w)
        BY <1>1, <1>10, <2>2, <3>1
      <3>3. Answered(r) = Answer("CommandIsAHandler", w)
        <4>1. n < k /\ n # 0
          BY <1>8, <2>2
        <4>2. QED
          BY <1>1, <1>3, <1>5, <1>8, <4>1 DEF Answered
      <3>4. QED
        BY <1>2, <2>1, <3>2, <3>3
    <2>3. CASE n > 1
      <3>1. walk[1]["service"] =
               IF w[2] = ParentName THEN Answer("CommandNotFound", upto(2))
               ELSE IF w[2] = Null THEN Answer("Internal", <<>>)
               ELSE IF w[2] = HelpName THEN walk[2]["command"]
               ELSE IF w[2] = DataName THEN walk[2]["data"]
               ELSE Answer("CommandNotInHandler", upto(2))
        <4>1. 1 \in 0..n /\ n # 1 /\ 2 = 1 + 1
          BY <1>1, <2>3
        <4>2. QED
          BY <1>1, <1>10, <4>1
      <3>2. ~(n < k) /\ k = 2
        BY <1>1, <1>8, <2>3
      <3>3. CASE w[2] = HelpName
        BY <1>1, <1>2, <1>6, <1>8, <2>1, <2>3, <3>1, <3>3, NamesApart
      <3>4. CASE w[2] = DataName
        <4>1. walk[2]["data"] =
                 IF n = 2 THEN Answer("CommandNotFound", w)
                 ELSE IF w[3] = ParentName THEN Answer("CommandNotFound", upto(3))
                 ELSE IF w[3] = Null THEN Answer("Internal", <<>>)
                 ELSE Answer("CommandNotFound", upto(3))
          <5>1. 2 \in 0..n /\ 3 = 2 + 1
            BY <1>1, <2>3
          <5>2. QED
            BY <1>1, <1>10, <5>1
        <4>2. Answered(r) =
                 IF n > 2 /\ w[3] = Null THEN Answer("Internal", <<>>)
                 ELSE Answer("CommandNotFound", upto(IF n = 2 THEN 2 ELSE 3))
          BY <1>1, <1>3, <1>5, <1>8, <3>2, <3>4, NamesApart DEF Answered
        <4>3. CASE n = 2
          <5>1. Answered(r) = Answer("CommandNotFound", w)
            <6>1. upto(IF n = 2 THEN 2 ELSE 3) = w /\ ~(n > 2)
              BY <1>4, <4>3
            <6>2. QED
              BY <4>2, <6>1
          <5>2. walk[1]["service"] = Answer("CommandNotFound", w)
            BY <3>1, <3>4, <4>1, <4>3, NamesApart
          <5>3. QED
            BY <1>2, <2>1, <5>1, <5>2
        <4>4. CASE n > 2
          BY <1>2, <2>1, <3>1, <3>4, <4>1, <4>2, <4>4, NamesApart
        <4>5. QED
          BY <1>1, <2>3, <4>3, <4>4
      <3>5. CASE w[2] \notin {HelpName, DataName}
        <4>1. Answered(r) =
                 IF w[2] = Null THEN Answer("Internal", <<>>)
                 ELSE IF w[2] = ParentName THEN Answer("CommandNotFound", upto(2))
                 ELSE Answer("CommandNotInHandler", upto(2))
          BY <1>1, <1>3, <1>5, <1>8, <3>2, <3>5, NamesApart DEF Answered
        <4>2. QED
          BY <1>2, <2>1, <3>1, <3>5, <4>1, NamesApart
      <3>6. QED
        BY <3>3, <3>4, <3>5
    <2>4. QED
      BY <1>1, <2>2, <2>3
  <1>9. QED
    BY <1>7, <1>8

-----------------------------------------------------------------------------
\* The symbols of which words are made: the characters, and what escapes mean.
Symbol == Char \cup {"\\", "N"} \cup {Meaning[c] : c \in DOMAIN Meaning}
Text == Seq(Symbol)
Quoting == {"SEP", "TOKEN"} \cup Quote

ParserTyped == /\ input \in Seq(Char) /\ Len(input) <= MaxLength
               /\ state \in Quoting
               /\ buff \in Text /\ keyword \in Text
               /\ seq \in Seq(Text)
               /\ DOMAIN dic \subseteq Text \ {Null}
               /\ \A p \in DOMAIN dic : dic[p] \in Text
               /\ parsed \in {"no", "yes", "ParseError"}

\* Whatever an escape means is text, and something.
LEMMA EscapedText == ASSUME NEW c \in Char PROVE Escaped(c) \in Text
  <1>1. \A a \in Symbol : <<a>> \in Text
    BY DEF Text
  <1>2. NullText \in Text
    BY DEF NullText, Text, Symbol
  <1>3. c \in DOMAIN Meaning => Meaning[c] \in Symbol
    BY DEF Symbol
  <1>4. c \in Symbol
    BY DEF Symbol
  <1>5. QED
    BY <1>1, <1>2, <1>3, <1>4 DEF Escaped

\* Null is the empty text.
LEMMA NullIsText == Null \in Text
BY EmptySeq DEF Null, Text

\* A token that is registered goes to the arguments, or to its keyword.
LEMMA RegisterTyped ==
    ASSUME ParserTyped, Register
    PROVE  /\ seq' \in Seq(Text)
           /\ DOMAIN dic' \subseteq Text \ {Null}
           /\ \A p \in DOMAIN dic' : dic'[p] \in Text
  <1>1. Value(buff) \in Text
    BY NullIsText DEF ParserTyped, Value
  <1>2. seq' \in Seq(Text)
    BY <1>1, AppendProperties DEF ParserTyped, Register, SeqWith
  <1>3. CASE keyword = Null
    BY <1>2, <1>3 DEF ParserTyped, Register, DicWith
  <1>4. CASE keyword # Null
    <2>1. dic' = [j \in DOMAIN dic \cup {keyword} |->
                     IF j = keyword THEN Value(buff) ELSE dic[j]]
      BY <1>4 DEF Register, DicWith, Put
    <2>2. QED
      BY <1>1, <1>2, <1>4, <2>1 DEF ParserTyped
  <1>5. QED
    BY <1>3, <1>4

\* In a token.
LEMMA InTokenTyped ==
    ASSUME NEW c \in Char, NEW b \in Text, NEW k \in Text, InToken(c, b, k)
    PROVE  state' \in Quoting /\ buff' \in Text /\ keyword' \in Text
  <1>1. Append(b, c) \in Text /\ <<>> \in Text
    BY AppendProperties, EmptySeq DEF Text, Symbol
  <1>2. c \in Quote => c \in Quoting
    BY DEF Quoting
  <1>3. "SEP" \in Quoting /\ "TOKEN" \in Quoting
    BY DEF Quoting
  <1>4. QED
    BY <1>1, <1>2, <1>3 DEF InToken, Becomes

\* Every character keeps the types.
LEMMA ReadTyped ==
    ASSUME ParserTyped, NEW c \in Char, Read(c)
    PROVE  ParserTyped'
  <1> USE DEF ParserTyped
  <1>1. input' \in Seq(Char) /\ Len(input') <= MaxLength /\ parsed' = parsed
    <2>1. input' = Append(input, c) /\ Len(input) < MaxLength /\ parsed' = parsed
      BY DEF Read
    <2>2. input' \in Seq(Char) /\ Len(input') = Len(input) + 1 /\ Len(input) \in Nat
      BY <2>1, AppendProperties, LenProperties
    <2>3. Len(input') <= MaxLength
      <3>1. MaxLength \in Nat
        BY ParserAssumption
      <3>2. QED
        BY <2>1, <2>2, <3>1
    <2>4. QED
      BY <2>1, <2>2, <2>3
  <1>2. "SEP" \in Quoting /\ "TOKEN" \in Quoting /\ Quote \subseteq Quoting
        /\ Null \in Text /\ <<>> \in Text
    BY NullIsText, EmptySeq DEF Quoting, Text
  <1>3. CASE ReadEscaped(c)
    <2>1. Escaped(c) \in Text /\ buff \o Escaped(c) \in Text
      BY EscapedText, ConcatProperties DEF Text
    <2>2. CASE state = "SEP" /\ buff # <<>>
      BY <1>1, <1>2, <1>3, <2>1, <2>2, RegisterTyped DEF ReadEscaped, Becomes
    <2>3. CASE ~(state = "SEP" /\ buff # <<>>)
      BY <1>1, <1>3, <2>1, <2>3 DEF ReadEscaped, Becomes
    <2>4. QED
      BY <2>2, <2>3
  <1>4. CASE ReadBackslash(c) \/ SkipBlank(c)
    BY <1>1, <1>4 DEF ReadBackslash, SkipBlank
  <1>5. CASE ReadInToken(c)
    BY <1>1, <1>5, InTokenTyped DEF ReadInToken
  <1>6. CASE ReadNext(c)
    <2>1. CASE ~TokenIsComplete
      BY <1>1, <1>6, <2>1, InTokenTyped DEF ReadNext
    <2>2. CASE TokenIsComplete /\ c = "="
      BY <1>1, <1>2, <1>6, <2>2 DEF ReadNext, Becomes
    <2>3. CASE TokenIsComplete /\ c # "="
      BY <1>1, <1>2, <1>6, <2>3, InTokenTyped, RegisterTyped DEF ReadNext
    <2>4. QED
      BY <2>1, <2>2, <2>3
  <1>7. CASE ReadQuoted(c)
    <2>1. Append(buff, c) \in Text
      BY AppendProperties DEF Text, Symbol
    <2>2. QED
      BY <1>1, <1>2, <1>7, <2>1 DEF ReadQuoted, Becomes
  <1>8. QED
    BY <1>3, <1>4, <1>5, <1>6, <1>7 DEF Read

\* So does the end of the command.
LEMMA EndTyped ==
    ASSUME ParserTyped, EndOfCommand
    PROVE  ParserTyped'
  <1>1. CASE state \in Quote \/ (buff = <<>> /\ keyword # Null)
    BY <1>1 DEF ParserTyped, EndOfCommand
  <1>2. CASE ~(state \in Quote \/ (buff = <<>> /\ keyword # Null)) /\ buff # <<>>
    BY <1>2, RegisterTyped DEF ParserTyped, EndOfCommand
  <1>3. CASE ~(state \in Quote \/ (buff = <<>> /\ keyword # Null)) /\ buff = <<>>
    BY <1>3 DEF ParserTyped, EndOfCommand
  <1>4. QED
    BY <1>1, <1>2, <1>3

-----------------------------------------------------------------------------
\* The reply is what the words that were parsed ask for, of the services that
\* were loaded.
What == [error |-> parsed = "ParseError", args |-> seq, kwargs |-> dic]
Dispatched == reply # NoAnswer => parsed # "no" /\ reply = Answered(What)
DInv == /\ root \subseteq Service
        /\ ParserTyped
        /\ Dispatched

\* A step of dispatch.
LEMMA DispatchRight ==
    ASSUME DInv, Dispatch
    PROVE  DInv'
  <1>1. root' = root /\ UNCHANGED parser /\ parsed # "no" /\ root \subseteq Names
    BY PymindAssumption DEF DInv, Dispatch
  <1>2. ParserTyped'
    BY <1>1 DEF DInv, ParserTyped, parser
  <1>3. What' = What
    BY <1>1 DEF What, parser
  <1>4. reply' = Answered(What)
    <2>1. CASE parsed = "ParseError"
      BY <2>1 DEF Dispatch, Answered, What
    <2>2. CASE parsed # "ParseError" /\ seq = <<>>
      <3>1. Len(seq) = 0 /\ What.error = FALSE /\ What.args = seq
        BY <2>2, EmptySeq DEF What
      <3>2. QED
        BY <2>2, <3>1 DEF Dispatch, Answered
    <2>3. CASE parsed # "ParseError" /\ seq # <<>>
      <3>1. What = [error |-> FALSE, args |-> seq, kwargs |-> dic]
        BY <2>3 DEF What
      <3>2. reply' = Routed(seq, dic)
        BY <2>3 DEF Dispatch
      <3>3. QED
        BY <1>1, <2>3, <3>1, <3>2, RoutedRight DEF DInv, ParserTyped
    <2>4. QED
      BY <2>1, <2>2, <2>3
  <1>5. Answered(What)' = Answered(What)
    BY <1>1, <1>3 DEF Answered
  <1>6. QED
    BY <1>1, <1>2, <1>4, <1>5 DEF DInv, Dispatched, parser

\* Every step keeps what is known of commands and replies.
LEMMA DNext == CInv /\ DInv /\ [Next]_vars => DInv'
  <1> SUFFICES ASSUME CInv, DInv, [Next]_vars PROVE DInv'
    OBVIOUS
  <1>1. CASE UNCHANGED <<parser, dispatcher>>
    <2>1. ParserTyped' /\ What' = What /\ root' = root /\ reply' = reply /\ parsed' = parsed
      BY <1>1 DEF DInv, ParserTyped, What, parser, dispatcher
    <2>2. Answered(What)' = Answered(What)
      BY <2>1 DEF Answered
    <2>3. QED
      BY <2>1, <2>2 DEF DInv, Dispatched
  <1>2. CASE BuildRoot
    <2>1. root' \subseteq Service /\ reply' = NoAnswer /\ UNCHANGED parser
      BY <1>2 DEF CInv, Start, Quiet, BuildRoot, Root
    <2>2. QED
      BY <2>1 DEF DInv, ParserTyped, Dispatched, parser
  <1>3. CASE Receive
    <2>1. root' = root /\ reply' = reply /\ parsed = "no"
      BY <1>3 DEF Receive, Read, EndOfCommand, dispatcher
    <2>2. reply' = NoAnswer
      BY <2>1 DEF DInv, Dispatched
    <2>3. ParserTyped'
      BY <1>3, ReadTyped, EndTyped DEF DInv, Receive
    <2>4. QED
      BY <2>1, <2>2, <2>3 DEF DInv, Dispatched
  <1>4. CASE Handle
    BY <1>4, DispatchRight DEF Handle
  <1>5. CASE Respond
    <2>1. ParserTyped'
      <3>1. <<>> \in Seq(Char) /\ Len(<<>>) = 0 /\ <<>> \in Text /\ <<>> \in Seq(Text)
        BY EmptySeq DEF Text
      <3>2. input' = <<>> /\ state' = "SEP" /\ buff' = <<>> /\ keyword' = <<>>
            /\ seq' = <<>> /\ DOMAIN dic' = {} /\ parsed' = "no"
        BY <1>5 DEF Respond, Null, Empty
      <3>3. Len(input') <= MaxLength
        <4>1. MaxLength \in Nat
          BY ParserAssumption
        <4>2. QED
          BY <3>1, <3>2, <4>1
      <3>4. QED
        BY <3>1, <3>2, <3>3 DEF ParserTyped, Quoting
    <2>2. QED
      BY <1>5, <2>1 DEF Respond, DInv, Dispatched
  <1>6. QED
    BY <1>1, <1>2, <1>3, <1>4, <1>5 DEF Next, ReadConfig, vars

\* And nothing has been received, or answered, at first.
LEMMA DInit == Init => DInv
  <1> SUFFICES ASSUME Init PROVE DInv
    OBVIOUS
  <1>1. <<>> \in Seq(Char) /\ Len(<<>>) = 0 /\ <<>> \in Text /\ <<>> \in Seq(Text)
    BY EmptySeq DEF Text
  <1>2. input = <<>> /\ state = "SEP" /\ buff = <<>> /\ keyword = <<>>
        /\ seq = <<>> /\ DOMAIN dic = {} /\ parsed = "no"
    BY DEF Init, ParserInit, Null, Empty
  <1>3. Len(input) <= MaxLength
    <2>1. MaxLength \in Nat
      BY ParserAssumption
    <2>2. QED
      BY <1>1, <1>2, <2>1
  <1>4. ParserTyped
    BY <1>1, <1>2, <1>3 DEF ParserTyped, Quoting
  <1>5. QED
    BY <1>4 DEF Init, DInv, Dispatched

\* Every command that was parsed is answered as its words ask for, of any length
\* and with any services: help is called, with the argument that was given, if and
\* only if the words lead to it, and everything else has the error that tells why
\* (Dispatcher.dispatch).
THEOREM DispatchAnswers ==
    Spec => [](reply # NoAnswer =>
                  reply = Answered([error |-> parsed = "ParseError",
                                    args |-> seq, kwargs |-> dic]))
  <1>1. DInv => (reply # NoAnswer =>
                    reply = Answered([error |-> parsed = "ParseError",
                                      args |-> seq, kwargs |-> dic]))
    BY DEF DInv, Dispatched, What
  <1>2. QED
    BY <1>1, DInit, DNext, StartInductive, PTL DEF Spec

-----------------------------------------------------------------------------
\* The order of the numbers has no endless descent (WellFoundedInduction).
LEMMA NatOrder == IsWellFoundedOn({ss \in Nat \X Nat : ss[1] < ss[2]}, Nat)
BY NatLessThanWellFounded DEF OpToRel

\* A set of numbers has a least one.
LEMMA Least ==
    ASSUME NEW S \in SUBSET Nat, S # {}
    PROVE  \E n \in S : \A m \in S : n <= m
  <1> DEFINE R == {ss \in Nat \X Nat : ss[1] < ss[2]}
  <1>1. PICK n \in S : \A m \in S : <<m, n>> \notin R
    <2> HIDE DEF R
    <2>1. IsWellFoundedOn(R, Nat)
      BY NatOrder DEF R
    <2>2. QED
      BY <2>1, WFMin
  <1>2. ASSUME NEW m \in S PROVE n <= m
    <2>1. <<m, n>> \in Nat \X Nat /\ <<m, n>>[1] = m /\ <<m, n>>[2] = n
      OBVIOUS
    <2>2. <<m, n>> \notin R
      BY <1>1
    <2>3. ~(m < n)
      BY <2>1, <2>2
    <2>4. QED
      BY <2>3
  <1>3. QED
    BY <1>2

-----------------------------------------------------------------------------
\* The tables of the reference reading are what their definitions say.
Lexes(w, t) == t = [i \in 0..Len(w) |->
                       IF i = 0 THEN NoQuote ELSE Lexing(t[i - 1], w[i])]
Words(w, t) == t = [i \in 0..Len(w) |->
                       IF i = 0 THEN NoWord
                       ELSE Wording(Lexed(w)[i - 1], w[i], t[i - 1])]
Tables(w) == Lexes(w, Lexed(w)) /\ Words(w, Worded(w))

\* One more character leaves the others where they are.
LEMMA OneMore ==
    ASSUME NEW w \in Seq(Char), NEW c \in Char
    PROVE  /\ Len(w) \in Nat /\ Len(Append(w, c)) = Len(w) + 1
           /\ Append(w, c)[Len(w) + 1] = c
           /\ \A i \in 1..Len(w) : Append(w, c)[i] = w[i]
           /\ Append(w, c) \in Seq(Char)
BY AppendProperties, LenProperties

\* There is such a table of modes for one more character, and it goes on where
\* that of the text so far ends.
LEMMA LexedOn ==
    ASSUME NEW w \in Seq(Char), NEW c \in Char, Lexes(w, Lexed(w))
    PROVE  /\ Lexes(Append(w, c), Lexed(Append(w, c)))
           /\ \A i \in 0..Len(w) : Lexed(Append(w, c))[i] = Lexed(w)[i]
  <1> DEFINE v == Append(w, c)
             n == Len(w)
             t == Lexed(w)
             u == [i \in 0..Len(v) |-> IF i = n + 1 THEN Lexing(t[n], c) ELSE t[i]]
  <1>1. n \in Nat /\ Len(v) = n + 1 /\ v[n + 1] = c /\ \A i \in 1..n : v[i] = w[i]
    BY OneMore
  <1>2. \A i \in 0..n : t[i] = IF i = 0 THEN NoQuote ELSE Lexing(t[i - 1], w[i])
    BY DEF Lexes
  <1>3. Lexes(v, u)
    <2> HIDE DEF n, v, t
    <2>1. ASSUME NEW i \in 0..Len(v)
          PROVE  u[i] = IF i = 0 THEN NoQuote ELSE Lexing(u[i - 1], v[i])
      <3>1. CASE i = 0
        BY <1>1, <1>2, <3>1
      <3>2. CASE i = n + 1
        BY <1>1, <3>2
      <3>3. CASE i # 0 /\ i # n + 1
        <4>1. i \in 1..n /\ i \in 0..n /\ i - 1 \in 0..Len(v) /\ i - 1 # n + 1
          BY <1>1, <3>3
        <4>2. u[i] = t[i] /\ u[i - 1] = t[i - 1] /\ v[i] = w[i]
          BY <1>1, <3>3, <4>1
        <4>3. QED
          BY <1>2, <3>3, <4>1, <4>2
      <3>4. QED
        BY <3>1, <3>2, <3>3
    <2>2. u = [i \in 0..Len(v) |->
                  IF i = 0 THEN NoQuote ELSE Lexing(u[i - 1], v[i])]
      BY <2>1
    <2>3. QED
      BY <2>2 DEF Lexes
  <1>4. Lexes(v, Lexed(v))
    <2>1. Lexed(v) = CHOOSE f : Lexes(v, f)
      BY DEF Lexed, Lexes
    <2> HIDE DEF v, u
    <2>2. QED
      BY <1>3, <2>1
  <1>5. \A i \in 0..n : Lexed(v)[i] = t[i]
    <2> DEFINE f == Lexed(v)
               S == {i \in 0..n : f[i] # t[i]}
    <2>1. \A i \in 0..n + 1 : f[i] = IF i = 0 THEN NoQuote ELSE Lexing(f[i - 1], v[i])
      BY <1>1, <1>4 DEF Lexes
    <2>2. SUFFICES ASSUME S # {} PROVE FALSE
      OBVIOUS
    <2> HIDE DEF n, v, t, f
    <2>3. PICK i \in S : \A j \in S : i <= j
      <3>1. S \in SUBSET Nat
        BY <1>1
      <3>2. QED
        BY <2>2, <3>1, Least
    <2>4. i # 0
      BY <1>1, <1>2, <2>1, <2>3
    <2>5. i \in 1..n /\ i - 1 \in 0..n /\ i \in 0..n + 1 /\ i - 1 \notin S
      BY <1>1, <2>3, <2>4
    <2>6. f[i - 1] = t[i - 1] /\ v[i] = w[i]
      BY <1>1, <2>5
    <2>7. QED
      BY <1>2, <2>1, <2>3, <2>4, <2>5, <2>6
  <1>6. QED
    BY <1>4, <1>5

\* And the same of the words.
LEMMA WordedOn ==
    ASSUME NEW w \in Seq(Char), NEW c \in Char, Tables(w)
    PROVE  /\ Tables(Append(w, c))
           /\ \A i \in 0..Len(w) : Worded(Append(w, c))[i] = Worded(w)[i]
  <1> DEFINE v == Append(w, c)
             n == Len(w)
             m == Lexed(w)
             l == Lexed(v)
             t == Worded(w)
             u == [i \in 0..Len(v) |-> IF i = n + 1 THEN Wording(m[n], c, t[n]) ELSE t[i]]
  <1>1. n \in Nat /\ Len(v) = n + 1 /\ v[n + 1] = c /\ \A i \in 1..n : v[i] = w[i]
    BY OneMore
  <1>2. \A i \in 0..n : t[i] = IF i = 0 THEN NoWord
                               ELSE Wording(m[i - 1], w[i], t[i - 1])
    BY DEF Tables, Words
  <1>3. Lexes(v, l) /\ \A i \in 0..n : l[i] = m[i]
    BY LexedOn DEF Tables
  <1>4. Words(v, u)
    <2> HIDE DEF n, v, t, l, m
    <2>1. ASSUME NEW i \in 0..Len(v)
          PROVE  u[i] = IF i = 0 THEN NoWord ELSE Wording(l[i - 1], v[i], u[i - 1])
      <3>1. CASE i = 0
        BY <1>1, <1>2, <3>1
      <3>2. CASE i = n + 1
        BY <1>1, <1>3, <3>2
      <3>3. CASE i # 0 /\ i # n + 1
        <4>1. i \in 1..n /\ i \in 0..n /\ i - 1 \in 0..n /\ i - 1 \in 0..Len(v)
              /\ i - 1 # n + 1
          BY <1>1, <3>3
        <4>2. u[i] = t[i] /\ u[i - 1] = t[i - 1] /\ v[i] = w[i] /\ l[i - 1] = m[i - 1]
          BY <1>1, <1>3, <3>3, <4>1
        <4>3. QED
          BY <1>2, <3>3, <4>1, <4>2
      <3>4. QED
        BY <3>1, <3>2, <3>3
    <2>2. u = [i \in 0..Len(v) |->
                  IF i = 0 THEN NoWord ELSE Wording(l[i - 1], v[i], u[i - 1])]
      BY <2>1
    <2>3. QED
      BY <2>2 DEF Words, l
  <1>5. Words(v, Worded(v))
    <2>1. Worded(v) = CHOOSE f : Words(v, f)
      BY DEF Worded, Words
    <2> HIDE DEF v, u
    <2>2. QED
      BY <1>4, <2>1
  <1>6. \A i \in 0..n : Worded(v)[i] = t[i]
    <2> DEFINE f == Worded(v)
               S == {i \in 0..n : f[i] # t[i]}
    <2>1. \A i \in 0..n + 1 : f[i] = IF i = 0 THEN NoWord
                                     ELSE Wording(l[i - 1], v[i], f[i - 1])
      BY <1>1, <1>5 DEF Words
    <2>2. SUFFICES ASSUME S # {} PROVE FALSE
      OBVIOUS
    <2> HIDE DEF n, v, t, f, l, m
    <2>3. PICK i \in S : \A j \in S : i <= j
      <3>1. S \in SUBSET Nat
        BY <1>1
      <3>2. QED
        BY <2>2, <3>1, Least
    <2>4. i # 0
      BY <1>1, <1>2, <2>1, <2>3
    <2>5. i \in 1..n /\ i - 1 \in 0..n /\ i \in 0..n + 1 /\ i - 1 \notin S
      BY <1>1, <2>3, <2>4
    <2>6. f[i - 1] = t[i - 1] /\ v[i] = w[i] /\ l[i - 1] = m[i - 1]
      BY <1>1, <1>3, <2>5
    <2>7. QED
      BY <1>2, <2>1, <2>3, <2>4, <2>5, <2>6
  <1>7. QED
    BY <1>3, <1>5, <1>6 DEF Tables

\* The tables of the empty text.
LEMMA NothingRead == Tables(<<>>) /\ Lexed(<<>>)[0] = NoQuote /\ Worded(<<>>)[0] = NoWord
  <1>1. Len(<<>>) = 0 /\ 0 \in 0..0
    BY EmptySeq
  <1>2. Lexes(<<>>, Lexed(<<>>))
    <2> DEFINE u == [i \in 0..Len(<<>>) |-> NoQuote]
    <2>1. Lexes(<<>>, u)
      BY <1>1 DEF Lexes
    <2>2. Lexed(<<>>) = CHOOSE f : Lexes(<<>>, f)
      BY DEF Lexed, Lexes
    <2>3. QED
      BY <2>1, <2>2
  <1>3. Words(<<>>, Worded(<<>>))
    <2> DEFINE u == [i \in 0..Len(<<>>) |-> NoWord]
    <2>1. Words(<<>>, u)
      BY <1>1 DEF Words
    <2>2. Worded(<<>>) = CHOOSE f : Words(<<>>, f)
      BY DEF Worded, Words
    <2>3. QED
      BY <2>1, <2>2
  <1>4. Lexed(<<>>)[0] = NoQuote
    BY <1>1, <1>2 DEF Lexes
  <1>5. Worded(<<>>)[0] = NoWord
    BY <1>1, <1>3 DEF Words
  <1>6. QED
    BY <1>2, <1>3, <1>4, <1>5 DEF Tables

\* What the last character is, and what is known of those before it.
LEMMA Position ==
    ASSUME NEW w \in Seq(Char), NEW c \in Char, Tables(w)
    PROVE  LET v == Append(w, c)
               n == Len(w)
               M == Lexed(w)[n]
               R == Worded(w)[n]
           IN  /\ Lexed(v)[n + 1] = Lexing(M, c) /\ Worded(v)[n + 1] = Wording(M, c, R)
               /\ BlankAt(v, n + 1) = IsBlank(M, c) /\ EqualAt(v, n + 1) = IsEqual(M, c)
               /\ SlashAt(v, n + 1) = IsSlash(M, c) /\ KeyAt(v, n + 1) = IsKey(M, c, R)
               /\ TextAt(v, n + 1) = TextOf(M, c)
               /\ \A i \in 1..n : /\ BlankAt(v, i) = BlankAt(w, i)
                                  /\ EqualAt(v, i) = EqualAt(w, i)
                                  /\ SlashAt(v, i) = SlashAt(w, i)
                                  /\ KeyAt(v, i) = KeyAt(w, i)
                                  /\ TextAt(v, i) = TextAt(w, i)
  <1> DEFINE v == Append(w, c)
             n == Len(w)
             M == Lexed(w)[n]
             R == Worded(w)[n]
  <1>1. n \in Nat /\ Len(v) = n + 1 /\ v[n + 1] = c /\ v \in Seq(Char)
        /\ \A i \in 1..n : v[i] = w[i]
    BY OneMore
  <1>2. Tables(v) /\ \A i \in 0..n : Lexed(v)[i] = Lexed(w)[i] /\ Worded(v)[i] = Worded(w)[i]
    BY LexedOn, WordedOn DEF Tables
  <1>3. DOMAIN w = 1..n /\ DOMAIN v = 1..(n + 1)
    BY <1>1, LenProperties
  <1> HIDE DEF v, n
  <1>4. n + 1 \in 0..(n + 1) /\ n + 1 # 0 /\ (n + 1) - 1 = n /\ n \in 0..n /\ n + 1 \in 1..(n + 1)
    BY <1>1
  <1>5. Lexed(v)[n] = M /\ Worded(v)[n] = R
    BY <1>2, <1>4
  <1>6. Lexed(v)[n + 1] = Lexing(M, c) /\ Worded(v)[n + 1] = Wording(M, c, R)
    <2>1. Lexed(v)[n + 1] = Lexing(Lexed(v)[(n + 1) - 1], v[n + 1])
      BY <1>1, <1>2, <1>4 DEF Tables, Lexes
    <2>2. Worded(v)[n + 1] = Wording(Lexed(v)[(n + 1) - 1], v[n + 1], Worded(v)[(n + 1) - 1])
      BY <1>1, <1>2, <1>4 DEF Tables, Words
    <2>3. QED
      BY <1>1, <1>4, <1>5, <2>1, <2>2
  <1>7. /\ BlankAt(v, n + 1) = IsBlank(M, c) /\ EqualAt(v, n + 1) = IsEqual(M, c)
        /\ SlashAt(v, n + 1) = IsSlash(M, c) /\ KeyAt(v, n + 1) = IsKey(M, c, R)
        /\ TextAt(v, n + 1) = TextOf(M, c)
    <2> HIDE DEF M, R
    <2>1. n + 1 \in DOMAIN v /\ Lexed(v)[(n + 1) - 1] = M /\ Worded(v)[(n + 1) - 1] = R
      BY <1>3, <1>4, <1>5
    <2>2. QED
      BY <1>1, <2>1 DEF BlankAt, EqualAt, SlashAt, KeyAt, TextAt, IsBlank, IsEqual, IsSlash, IsKey
  <1>8. ASSUME NEW i \in 1..n
        PROVE  /\ BlankAt(v, i) = BlankAt(w, i) /\ EqualAt(v, i) = EqualAt(w, i)
               /\ SlashAt(v, i) = SlashAt(w, i) /\ KeyAt(v, i) = KeyAt(w, i)
               /\ TextAt(v, i) = TextAt(w, i)
    <2>1. i \in DOMAIN w /\ i \in DOMAIN v /\ i - 1 \in 0..n
      BY <1>1, <1>3
    <2>2. v[i] = w[i] /\ Lexed(v)[i - 1] = Lexed(w)[i - 1] /\ Worded(v)[i - 1] = Worded(w)[i - 1]
      BY <1>1, <1>2, <2>1
    <2>3. QED
      BY <2>1, <2>2 DEF BlankAt, EqualAt, SlashAt, KeyAt, TextAt
  <1>9. QED
    BY <1>6, <1>7, <1>8 DEF v, n

\* Positions with nothing to register before them stay so, and which ones one
\* more character adds.
LEMMA FreshOn ==
    ASSUME NEW w \in Seq(Char), NEW c \in Char, Tables(w)
    PROVE  LET v == Append(w, c)
               n == Len(w)
               M == Lexed(w)[n]
           IN  /\ \A i \in 1..(n + 1) : FreshAt(w, i) => FreshAt(v, i)
               /\ FreshAt(w, n + 1) /\ TextOf(M, c) = <<>> => FreshAt(v, n + 2)
               /\ KeyAt(v, n + 1) => FreshAt(v, n + 2)
               /\ n > 0 /\ BlankAt(w, n) /\ ~IsBlank(M, c) /\ TextOf(M, c) = <<>>
                  => FreshAt(v, n + 2)
  <1> DEFINE v == Append(w, c)
             n == Len(w)
             M == Lexed(w)[n]
  <1>1. n \in Nat
    BY OneMore
  <1>2. BlankAt(v, n + 1) = IsBlank(M, c) /\ TextAt(v, n + 1) = TextOf(M, c)
    BY Position
  <1>3. \A i \in 1..n : BlankAt(v, i) = BlankAt(w, i) /\ KeyAt(v, i) = KeyAt(w, i)
                        /\ TextAt(v, i) = TextAt(w, i)
    BY Position
  <1> HIDE DEF v, n, M
  <1>4. ASSUME NEW i \in 1..(n + 1), NEW b \in 0..(i - 1), Starts(w, b, i),
               \A j \in (b + 1)..(i - 1) : TextAt(w, j) = <<>>
        PROVE  /\ Starts(v, b, i)
               /\ \A j \in (b + 1)..(i - 1) : TextAt(v, j) = <<>>
    <2>1. (b + 1)..(i - 1) \subseteq 1..n /\ (b = 0 \/ b \in 1..n)
      BY <1>1
    <2>2. \A j \in (b + 1)..(i - 1) : TextAt(v, j) = <<>>
      BY <1>3, <1>4, <2>1
    <2>3. Starts(v, b, i)
      <3>1. CASE b = 0
        BY <3>1 DEF Starts
      <3>2. CASE b # 0
        <4>1. KeyAt(v, b) = KeyAt(w, b) /\ BlankAt(v, b) = BlankAt(w, b)
          BY <1>3, <2>1, <3>2
        <4>2. \A j \in (b + 1)..(i - 1) : BlankAt(v, j) = BlankAt(w, j)
          BY <1>3, <2>1
        <4>3. QED
          BY <1>4, <4>1, <4>2 DEF Starts
      <3>3. QED
        BY <3>1, <3>2
    <2>4. QED
      BY <2>2, <2>3
  <1>5. \A i \in 1..(n + 1) : FreshAt(w, i) => FreshAt(v, i)
    BY <1>4 DEF FreshAt
  <1>6. ASSUME FreshAt(w, n + 1), TextOf(M, c) = <<>>
        PROVE  FreshAt(v, n + 2)
    <2>1. n + 1 \in 1..(n + 1) /\ (n + 1) - 1 = n /\ (n + 2) - 1 = n + 1
      BY <1>1
    <2>2. PICK b \in 0..n : Starts(w, b, n + 1) /\ \A j \in (b + 1)..n : TextAt(w, j) = <<>>
      BY <1>6, <2>1 DEF FreshAt
    <2>3. Starts(v, b, n + 1) /\ \A j \in (b + 1)..n : TextAt(v, j) = <<>>
      BY <1>4, <2>1, <2>2
    <2>4. b \in 0..(n + 1) /\ \A j \in (b + 1)..(n + 1) : j = n + 1 \/ j \in (b + 1)..n
      BY <1>1
    <2>5. \A j \in (b + 1)..(n + 1) : TextAt(v, j) = <<>>
      BY <1>2, <1>6, <2>3, <2>4
    <2>6. \A j \in (b + 1)..n : j \in (b + 1)..(n + 1)
      BY <1>1
    <2>7. Starts(v, b, n + 2)
      BY <2>1, <2>3, <2>6 DEF Starts
    <2>8. QED
      BY <2>1, <2>4, <2>5, <2>7 DEF FreshAt
  <1>7. ASSUME KeyAt(v, n + 1) PROVE FreshAt(v, n + 2)
    <2>1. n + 1 \in 0..((n + 2) - 1) /\ ((n + 1) + 1)..((n + 2) - 1) = {}
      BY <1>1
    <2>2. QED
      BY <1>7, <2>1 DEF FreshAt, Starts
  <1>8. ASSUME n > 0, BlankAt(w, n), ~IsBlank(M, c), TextOf(M, c) = <<>>
        PROVE  FreshAt(v, n + 2)
    <2>1. n \in 0..((n + 2) - 1) /\ (n + 1)..((n + 2) - 1) = {n + 1} /\ n \in 1..n
      BY <1>1, <1>8
    <2>2. BlankAt(v, n) /\ ~BlankAt(v, n + 1) /\ TextAt(v, n + 1) = <<>>
      BY <1>2, <1>3, <1>8, <2>1
    <2>3. Starts(v, n, n + 2)
      BY <2>1, <2>2 DEF Starts
    <2>4. QED
      BY <2>1, <2>2, <2>3 DEF FreshAt
  <1>9. QED
    BY <1>5, <1>6, <1>7, <1>8 DEF v, n, M

\* What is read otherwise stays so, whatever follows.
LEMMA QuirkStays ==
    ASSUME NEW w \in Seq(Char), NEW c \in Char, Tables(w), Quirky(w)
    PROVE  Quirky(Append(w, c))
  <1> DEFINE v == Append(w, c)
             n == Len(w)
  <1>1. n \in Nat /\ Len(v) = n + 1 /\ DOMAIN w = 1..n /\ DOMAIN v = 1..(n + 1)
    BY OneMore, LenProperties
  <1>2. \A i \in 1..n : BlankAt(v, i) = BlankAt(w, i) /\ KeyAt(v, i) = KeyAt(w, i)
                        /\ TextAt(v, i) = TextAt(w, i) /\ SlashAt(v, i) = SlashAt(w, i)
                        /\ EqualAt(v, i) = EqualAt(w, i)
    BY Position
  <1>3. \A i \in 1..(n + 1) : FreshAt(w, i) => FreshAt(v, i)
    BY FreshOn
  <1> HIDE DEF v, n
  <1>4. CASE Glued(w)
    <2>1. n > 2
      BY <1>4 DEF Glued, n
    <2>2. 1 \in 1..n /\ 2 \in 1..n /\ 3 \in 1..n /\ Len(v) > 2
      BY <1>1, <2>1
    <2>3. Glued(v)
      BY <1>2, <1>4, <2>2 DEF Glued
    <2>4. QED
      BY <2>3 DEF Quirky, v
  <1>5. ASSUME NEW i \in DOMAIN w, CutAt(w, i) PROVE CutAt(v, i) /\ i \in DOMAIN v
    <2>1. i + 2 <= n
      BY <1>5 DEF CutAt, n
    <2>2. i \in 1..n /\ i + 2 \in 1..n /\ i + 2 <= Len(v) /\ i \in 1..(n + 1)
          /\ 3 \in 1..n
      BY <1>1, <2>1
    <2>3. SlashAt(v, i) /\ FreshAt(v, i) /\ ~BlankAt(v, i + 2)
      BY <1>2, <1>3, <1>5, <2>2 DEF CutAt
    <2>4. i = 1 \/ BlankAt(v, i - 1) \/ KeyAt(v, i - 1)
      <3>1. i = 1 \/ i - 1 \in 1..n
        BY <1>1, <2>2
      <3>2. QED
        BY <1>2, <1>5, <3>1 DEF CutAt
    <2>5. i > 1 \/ SlashAt(v, 3)
      BY <1>2, <1>5, <2>2 DEF CutAt
    <2>6. QED
      BY <1>1, <2>2, <2>3, <2>4, <2>5 DEF CutAt
  <1>6. ASSUME NEW i \in DOMAIN w, i > 1 /\ EqualAt(w, i) /\ BlankAt(w, i - 1)
        PROVE  i \in DOMAIN v /\ EqualAt(v, i) /\ BlankAt(v, i - 1)
    <2>1. i \in 1..n /\ i - 1 \in 1..n /\ i \in 1..(n + 1)
      BY <1>1, <1>6
    <2>2. QED
      BY <1>1, <1>2, <1>6, <2>1
  <1>7. QED
    BY <1>4, <1>5, <1>6 DEF Quirky, v

-----------------------------------------------------------------------------
\* What the automaton has read of a command, against the reference reading: the
\* mode and the words after the last character.
Mode == Lexed(input)[Len(input)]
Said == Worded(input)[Len(input)]
Word(w, k, a, d) == [word |-> w, keyword |-> k, args |-> a, kwargs |-> d]
ModeIs == Mode = [quote |-> IF state \in Quote THEN state ELSE "", escaped |-> escape]
Begins(w, i) == FreshAt(w, i) /\ (i = 1 \/ BlankAt(w, i - 1) \/ KeyAt(w, i - 1))

\* In a token: it is the word that is read.
InWord == /\ state # "SEP" /\ Said = Word(buff, keyword, seq, dic)
          /\ Len(input) > 0
          /\ buff = <<>> => FreshAt(input, Len(input) + 1)
          /\ Len(input) = 1 /\ buff # <<>> => TextAt(input, 1) # <<>>

\* Between tokens, and nothing is to be registered.
Between == /\ state = "SEP" /\ buff = <<>> /\ Said = Word(<<>>, keyword, seq, dic)
           /\ escape => SlashAt(input, Len(input)) /\ Begins(input, Len(input))
           /\ ~escape => Begins(input, Len(input) + 1)

\* Between tokens, and the last one is still to be registered.
Pending == /\ state = "SEP" /\ buff # <<>> /\ Len(input) > 1
           /\ Said = Word(<<>>, Null, SeqWith(buff), DicWith(buff))
           /\ ~escape => BlankAt(input, Len(input))
           /\ Len(input) = 2 => TextAt(input, 1) # <<>>

\* An escape with which a token begins: it is taken for a token of its own.
Cut == /\ state = "SEP" /\ buff # <<>> /\ Said = Word(buff, keyword, seq, dic)
       /\ ~escape /\ Len(input) > 1
       /\ SlashAt(input, Len(input) - 1) /\ Begins(input, Len(input) - 1)
       /\ Len(input) = 2 => keyword = Null

Follows == /\ ModeIs
           /\ Len(input) < 2 => keyword = Null
           /\ InWord \/ Between \/ Pending \/ Cut

\* What a character adds to the reference reading.
Added(c) ==
    /\ Len(input) \in Nat /\ Len(input') = Len(input) + 1
    /\ Mode' = Lexing(Mode, c) /\ Said' = Wording(Mode, c, Said)
    /\ BlankAt(input', Len(input) + 1) = IsBlank(Mode, c)
    /\ EqualAt(input', Len(input) + 1) = IsEqual(Mode, c)
    /\ SlashAt(input', Len(input) + 1) = IsSlash(Mode, c)
    /\ KeyAt(input', Len(input) + 1) = IsKey(Mode, c, Said)
    /\ TextAt(input', Len(input) + 1) = TextOf(Mode, c)
Kept == \A i \in 1..Len(input) :
           /\ BlankAt(input', i) = BlankAt(input, i)
           /\ SlashAt(input', i) = SlashAt(input, i)
           /\ KeyAt(input', i) = KeyAt(input, i)
           /\ TextAt(input', i) = TextAt(input, i)
FreshKept(c) ==
    /\ \A i \in 1..(Len(input) + 1) : FreshAt(input, i) => FreshAt(input', i)
    /\ FreshAt(input, Len(input) + 1) /\ TextOf(Mode, c) = <<>>
       => FreshAt(input', Len(input) + 2)
    /\ KeyAt(input', Len(input) + 1) => FreshAt(input', Len(input) + 2)
    /\ Len(input) > 0 /\ BlankAt(input, Len(input)) /\ ~IsBlank(Mode, c)
       /\ TextOf(Mode, c) = <<>> => FreshAt(input', Len(input) + 2)

\* All of which holds when a character is read.
LEMMA OneRead ==
    ASSUME input \in Seq(Char), NEW c \in Char, Tables(input), input' = Append(input, c)
    PROVE  /\ Added(c) /\ Kept /\ FreshKept(c) /\ Tables(input')
           /\ Quirky(input) => Quirky(input')
  <1>1. Len(input) \in Nat /\ Len(input') = Len(input) + 1
    BY OneMore
  <1>2. Tables(input')
    BY WordedOn
  <1>3. Mode' = Lexed(input')[Len(input) + 1] /\ Said' = Worded(input')[Len(input) + 1]
    BY <1>1 DEF Mode, Said
  <1>4. Added(c)
    BY <1>1, <1>3, Position DEF Added, Mode, Said
  <1>5. Kept
    BY Position DEF Kept
  <1>6. FreshKept(c)
    BY FreshOn DEF FreshKept, Mode
  <1>7. QED
    BY <1>2, <1>4, <1>5, <1>6, QuirkStays

\* The characters that have a meaning are different ones.
LEMMA Signs == /\ Blank # "\\" /\ Blank # "=" /\ "=" # "\\" /\ Blank \notin Quote
               /\ "\\" \notin Quote /\ "=" \notin Quote /\ "" \notin Quote
               /\ "SEP" \notin Quote /\ "TOKEN" \notin Quote /\ "" \notin Char
BY ParserAssumption DEF Blank, Quote, Char

\* One past a number.
LEMMA OnePast ==
    ASSUME NEW n \in Nat, NEW m, m = n + 1
    PROVE  /\ m > 0 /\ m - 1 = n /\ m + 1 = n + 2 /\ m \in Nat
           /\ m = 1 => n = 0
           /\ m = 2 => n = 1
           /\ m < 2 => n = 0
OBVIOUS

\* A quote that opens stands for nothing.
LEMMA QuoteHasNoText ==
    ASSUME NEW c \in Quote, c # "\\"
    PROVE  /\ Lexing(NoQuote, c) = [quote |-> c, escaped |-> FALSE]
           /\ TextOf(NoQuote, c) = <<>>
  <1>1. NoQuote.escaped = FALSE /\ NoQuote.quote = ""
    BY DEF NoQuote
  <1>2. c # ""
    BY Signs
  <1>3. Lexing(NoQuote, c) = [quote |-> c, escaped |-> FALSE]
    BY <1>1, <1>2 DEF Lexing, NoQuote
  <1>4. Lexing(NoQuote, c).quote = c
    BY <1>3
  <1>5. QED
    BY <1>1, <1>2, <1>3, <1>4 DEF TextOf

\* A token goes on, or begins.
LEMMA InTokenFollows ==
    ASSUME ParserTyped, NEW c \in Char, c # "\\", ~escape, escape' = escape,
           Added(c), Kept, FreshKept(c), Mode = NoQuote,
           NEW b \in Text, NEW k \in Text, NEW a, NEW d, Said = Word(b, k, a, d),
           InToken(c, b, k), seq' = a, dic' = d,
           c \in Quote \cup {Blank} /\ b = <<>> => FreshAt(input', Len(input) + 2),
           Len(input) < 2 => k = Null, Len(input) = 0 => b = <<>>,
           c = Blank => Len(input) > 0,
           c = Blank /\ b # <<>> /\ Len(input) = 1 => TextAt(input, 1) # <<>>,
           escape \in BOOLEAN
    PROVE  Follows'
  <1>1. Len(input) \in Nat /\ Len(input') = Len(input) + 1 /\ Len(input') > 0
        /\ Len(input') - 1 = Len(input) /\ Len(input') + 1 = Len(input) + 2
        /\ (Len(input') = 1 => Len(input) = 0) /\ (Len(input') = 2 => Len(input) = 1)
    <2>1. Len(input) \in Nat /\ Len(input') = Len(input) + 1
      BY DEF Added
    <2>2. QED
      BY <2>1, OnePast
  <1>2. NoQuote.escaped = FALSE /\ NoQuote.quote = "" /\ escape = FALSE
    BY DEF NoQuote
  <1>3. ~IsSlash(Mode, c) /\ IsBlank(Mode, c) = (c = Blank) /\ IsEqual(Mode, c) = (c = "=")
    BY DEF IsSlash, IsBlank, IsEqual
  <1>4. Said.word = b /\ Said.keyword = k /\ Said.args = a /\ Said.kwargs = d
    BY DEF Word
  <1>5. IsKey(Mode, c, Said) = (c = "=" /\ b # <<>> /\ k = Null)
    BY <1>3, <1>4 DEF IsKey
  <1>6. CASE c \in Quote
    <2>1. Lexing(Mode, c) = [quote |-> c, escaped |-> FALSE] /\ TextOf(Mode, c) = <<>>
      BY <1>6, QuoteHasNoText
    <2>2. Mode' = [quote |-> c, escaped |-> FALSE]
      BY <2>1 DEF Added
    <2>3. Said' = Word(b, k, a, d)
      <3>1. Said' = [Said EXCEPT !.word = @ \o <<>>]
        BY <1>3, <1>5, <1>6, <2>1, Signs DEF Added, Wording
      <3>2. b \o <<>> = b
        BY ConcatProperties DEF Text
      <3>3. QED
        BY <1>4, <3>1, <3>2 DEF Word
    <2>4. state' = c /\ buff' = b /\ keyword' = k
      BY <1>6 DEF InToken, Becomes
    <2>5. ModeIs'
      BY <1>2, <1>6, <2>2, <2>4 DEF ModeIs
    <2>6. InWord'
      <3>1. Len(input') = 1 => buff' = <<>>
        BY <1>1, <2>4 DEF Added
      <3>2. buff' = <<>> => FreshAt(input', Len(input') + 1)
        BY <1>1, <1>6, <2>4
      <3>3. state' # "SEP"
        BY <1>6, <2>4, Signs
      <3>4. QED
        BY <1>1, <2>3, <2>4, <3>1, <3>2, <3>3 DEF InWord
    <2>7. QED
      BY <1>1, <2>4, <2>5, <2>6 DEF Follows
  <1>7. ASSUME c \notin Quote PROVE ModeIs' /\ Mode' = NoQuote
    <2>1. Lexing(NoQuote, c) = NoQuote
      BY <1>2, <1>7, Signs DEF Lexing
    <2>2. state' \in {"SEP", "TOKEN"}
      BY <1>7 DEF InToken, Becomes
    <2>3. QED
      BY <1>2, <2>1, <2>2, Signs DEF Added, ModeIs, NoQuote
  <1>8. CASE c \notin Quote /\ c = "=" /\ k = Null /\ b # <<>>
    <2>1. state' = "SEP" /\ buff' = <<>> /\ keyword' = b
      BY <1>8 DEF InToken, Becomes
    <2>2. Said' = Word(<<>>, b, a, d)
      BY <1>3, <1>4, <1>5, <1>8, Signs DEF Added, Wording, Word
    <2>3. KeyAt(input', Len(input')) /\ FreshAt(input', Len(input) + 2)
      BY <1>1, <1>5, <1>8 DEF Added, FreshKept
    <2>4. Begins(input', Len(input') + 1)
      <3>1. (Len(input') + 1) - 1 = Len(input')
        BY <1>1
      <3>2. QED
        BY <1>1, <2>3, <3>1 DEF Begins
    <2>5. Between'
      BY <1>2, <2>1, <2>2, <2>4 DEF Between
    <2>6. QED
      BY <1>1, <1>7, <1>8, <2>5 DEF Follows
  <1>9. CASE c \notin Quote /\ c = Blank
    <2>1. state' = "SEP" /\ buff' = b /\ keyword' = k
      BY <1>9, Signs DEF InToken, Becomes
    <2>2. Said' = Ended(Said) /\ BlankAt(input', Len(input'))
      BY <1>1, <1>3, <1>9 DEF Added, Wording
    <2>3. CASE b = <<>>
      <3>1. Said' = Word(<<>>, k, a, d)
        BY <1>4, <2>2, <2>3 DEF Ended
      <3>2. Begins(input', Len(input') + 1)
        <4>1. (Len(input') + 1) - 1 = Len(input')
          BY <1>1
        <4>2. QED
          BY <1>1, <1>9, <2>2, <2>3, <4>1 DEF Begins
      <3>3. Between'
        BY <1>2, <2>1, <2>3, <3>1, <3>2 DEF Between
      <3>4. QED
        BY <1>1, <1>7, <1>9, <2>1, <3>3 DEF Follows
    <2>4. CASE b # <<>>
      <3>1. Said' = Word(<<>>, Null, SeqWith(buff)', DicWith(buff)')
        BY <1>4, <2>1, <2>2, <2>4 DEF Ended, Word, SeqWith, DicWith
      <3>2. Len(input') > 1
        BY <1>1, <2>4
      <3>3. Len(input') = 2 => TextAt(input', 1) # <<>>
        <4>1. Len(input) = 1 => 1 \in 1..Len(input)
          OBVIOUS
        <4>2. QED
          BY <1>1, <1>9, <2>4, <4>1 DEF Kept
      <3>4. Pending'
        BY <2>1, <2>2, <2>4, <3>1, <3>2, <3>3 DEF Pending
      <3>5. QED
        BY <1>1, <1>7, <1>9, <2>1, <3>2, <3>4 DEF Follows
    <2>5. QED
      BY <2>3, <2>4
  <1>10. CASE c \notin Quote /\ c # Blank /\ ~(c = "=" /\ k = Null /\ b # <<>>)
    <2>1. state' = "TOKEN" /\ buff' = Append(b, c) /\ keyword' = k
      BY <1>10 DEF InToken, Becomes
    <2>2. TextOf(Mode, c) = <<c>>
      BY <1>2, <1>3, <1>7, <1>10 DEF Added, TextOf
    <2>3. b \o <<c>> = Append(b, c) /\ Append(b, c) # <<>>
      <3>1. b \in Seq(Symbol) /\ c \in Symbol
        BY DEF Text, Symbol
      <3>2. QED
        BY <3>1, AppendIsConcat, AppendProperties
    <2>4. Said' = Word(Append(b, c), k, a, d)
      <3>1. Said' = [Said EXCEPT !.word = @ \o <<c>>]
        BY <1>3, <1>5, <1>10, <2>2 DEF Added, Wording
      <3>2. QED
        BY <1>4, <2>3, <3>1 DEF Word
    <2>5. Len(input') = 1 => TextAt(input', 1) # <<>>
      <3>1. Len(input') = 1 => Len(input) + 1 = 1
        BY <1>1
      <3>2. QED
        BY <2>2, <3>1 DEF Added
    <2>6. InWord'
      BY <1>1, <2>1, <2>3, <2>4, <2>5 DEF InWord
    <2>7. QED
      BY <1>1, <1>7, <1>10, <2>1, <2>6 DEF Follows
  <1>11. QED
    BY <1>6, <1>8, <1>9, <1>10

\* One before a number.
LEMMA OneBack ==
    ASSUME NEW n \in Nat, n > 1, NEW m, m = n + 1
    PROVE  /\ n - 1 \in 1..n /\ (n - 1) + 2 = n + 1
           /\ n - 1 = 1 => n + 1 = 3
           /\ n > 2 => n - 1 > 1
           /\ n - 1 \in 1..(n + 1)
           /\ n - 1 = 1 \/ (n - 1 > 1 /\ (n - 1) - 1 \in 1..n)
           /\ n + 1 <= m
OBVIOUS

\* What follows an escape that was taken for a token: all but a blank, and at the
\* beginning of the command all but another escape, is read otherwise.
LEMMA CutIsQuirky ==
    ASSUME ParserTyped, NEW c \in Char, input' = Append(input, c),
           Added(c), Kept, FreshKept(c), Cut, ~IsBlank(Mode, c),
           Len(input) > 2 \/ IsSlash(Mode, c)
    PROVE  Quirky(input')
  <1> DEFINE i == Len(input) - 1
  <1>1. Len(input) \in Nat /\ Len(input') = Len(input) + 1 /\ Len(input) > 1
    BY DEF Added, Cut
  <1>2. i \in 1..Len(input) /\ i + 2 = Len(input) + 1 /\ (i = 1 => Len(input) + 1 = 3)
        /\ (Len(input) > 2 => i > 1) /\ i \in 1..(Len(input) + 1)
        /\ (i = 1 \/ (i > 1 /\ i - 1 \in 1..Len(input)))
        /\ Len(input) + 1 <= Len(input')
    BY <1>1, OneBack
  <1>3. SlashAt(input, i) /\ Begins(input, i)
    BY DEF Cut
  <1> HIDE DEF i
  <1>4. SlashAt(input', i) /\ FreshAt(input', i)
    BY <1>2, <1>3 DEF Kept, FreshKept, Begins
  <1>5. i = 1 \/ BlankAt(input', i - 1) \/ KeyAt(input', i - 1)
    BY <1>2, <1>3 DEF Kept, Begins
  <1>6. ~BlankAt(input', i + 2)
    BY <1>2 DEF Added
  <1>7. i > 1 \/ SlashAt(input', 3)
    BY <1>2 DEF Added
  <1>8. CutAt(input', i)
    BY <1>2, <1>4, <1>5, <1>6, <1>7 DEF CutAt
  <1>9. i \in DOMAIN input'
    BY <1>4 DEF SlashAt
  <1>10. QED
    BY <1>8, <1>9 DEF Quirky

\* An escape is read out.
LEMMA EscapedFollows ==
    ASSUME ParserTyped, NEW c \in Char, ReadEscaped(c), Added(c), Kept, FreshKept(c),
           Follows, escape \in BOOLEAN
    PROVE  Follows'
  <1>1. Len(input) \in Nat /\ Len(input') = Len(input) + 1 /\ escape /\ escape' = FALSE
        /\ Len(input') - 1 = Len(input)
        /\ (Len(input') < 2 => Len(input) = 0) /\ (Len(input') = 1 => Len(input) = 0)
        /\ (Len(input') = 2 => Len(input) = 1)
    BY OnePast DEF Added, ReadEscaped
  <1>2. Mode.escaped /\ Mode.quote = (IF state \in Quote THEN state ELSE "")
    BY <1>1 DEF Follows, ModeIs
  <1>3. Mode' = [quote |-> IF state \in Quote THEN state ELSE "", escaped |-> FALSE]
    BY <1>1, <1>2 DEF Added, Lexing, Follows, ModeIs
  <1>4. Said' = [Said EXCEPT !.word = @ \o Escaped(c)]
    <2>1. Mode # NoQuote
      <3>1. NoQuote.escaped = FALSE
        BY DEF NoQuote
      <3>2. QED
        BY <1>2, <3>1
    <2>2. TextOf(Mode, c) = Escaped(c)
      BY <1>2 DEF TextOf
    <2>3. QED
      BY <2>1, <2>2 DEF Added, Wording, IsBlank, IsKey, IsEqual
  <1>5. Escaped(c) \in Text /\ <<>> \o Escaped(c) = Escaped(c) /\ Escaped(c) # <<>>
    <2>1. Escaped(c) \in Text
      BY EscapedText
    <2>2. Escaped(c) # <<>>
      BY DEF Escaped, NullText
    <2>3. <<>> \o Escaped(c) = Escaped(c)
      BY <2>1, ConcatProperties DEF Text
    <2>4. QED
      BY <2>1, <2>2, <2>3
  <1>6. CASE Pending
    <2>1. seq' = SeqWith(buff) /\ dic' = DicWith(buff) /\ state' = "TOKEN"
          /\ buff' = Escaped(c) /\ keyword' = Null
      BY <1>6 DEF Pending, ReadEscaped, Register, Becomes
    <2>2. Said' = Word(buff', keyword', seq', dic')
      BY <1>4, <1>5, <1>6, <2>1 DEF Pending, Word
    <2>3. ModeIs'
      BY <1>1, <1>3, <1>6, <2>1, Signs DEF Pending, ModeIs
    <2>4. InWord'
      <3>1. Len(input') # 1 /\ Len(input') > 0
        BY <1>1, <1>6 DEF Pending
      <3>2. QED
        BY <1>5, <2>1, <2>2, <3>1 DEF InWord
    <2>5. QED
      BY <2>1, <2>3, <2>4 DEF Follows
  <1>7. CASE Between
    <2>1. state' = "SEP" /\ buff' = Escaped(c) /\ UNCHANGED <<keyword, seq, dic>>
      BY <1>5, <1>7 DEF Between, ReadEscaped, Becomes
    <2>2. Said' = Word(buff', keyword', seq', dic')
      BY <1>4, <1>5, <1>7, <2>1 DEF Between, Word
    <2>3. ModeIs'
      BY <1>1, <1>3, <1>7, <2>1, Signs DEF Between, ModeIs
    <2>4. SlashAt(input, Len(input)) /\ Begins(input, Len(input))
      BY <1>1, <1>7 DEF Between
    <2>5. Len(input) \in 1..Len(input)
      <3>1. Len(input) \in DOMAIN input
        BY <2>4 DEF SlashAt
      <3>2. QED
        BY <3>1, LenProperties DEF ParserTyped
    <2>6. SlashAt(input', Len(input)) /\ Begins(input', Len(input))
      <3>1. Len(input) = 1 \/ Len(input) - 1 \in 1..Len(input)
        BY <1>1, <2>5
      <3>2. Len(input) \in 1..(Len(input) + 1)
        BY <1>1, <2>5
      <3>3. QED
        BY <2>4, <2>5, <3>1, <3>2 DEF Kept, FreshKept, Begins
    <2>7. Len(input') > 1
      BY <1>1, <2>5
    <2>8. Len(input') = 2 => keyword' = Null
      <3>1. Len(input) = 1 => Len(input) < 2
        OBVIOUS
      <3>2. QED
        BY <1>1, <2>1, <3>1 DEF Follows
    <2>9. Cut'
      BY <1>1, <1>5, <2>1, <2>2, <2>6, <2>7, <2>8 DEF Cut
    <2>10. QED
      BY <2>3, <2>7, <2>9, <1>1 DEF Follows
  <1>8. CASE InWord
    <2>1. state' = state /\ buff' = buff \o Escaped(c) /\ UNCHANGED <<keyword, seq, dic>>
      BY <1>8 DEF InWord, ReadEscaped, Becomes
    <2>2. Said' = Word(buff', keyword', seq', dic')
      BY <1>4, <1>8, <2>1 DEF InWord, Word
    <2>3. ModeIs'
      BY <1>1, <1>3, <2>1 DEF ModeIs
    <2>4. buff' # <<>>
      <3>1. Len(Escaped(c)) > 0 /\ Len(buff) \in Nat
        BY <1>5, EmptySeq, LenProperties DEF Text, ParserTyped
      <3>2. Len(buff') = Len(buff) + Len(Escaped(c))
        BY <1>5, <2>1, ConcatProperties DEF Text, ParserTyped
      <3>3. QED
        BY <3>1, <3>2, EmptySeq
    <2>5. InWord'
      <3>1. Len(input') # 1 /\ Len(input') > 0
        BY <1>1, <1>8 DEF InWord
      <3>2. QED
        BY <1>8, <2>1, <2>2, <2>4, <3>1 DEF InWord
    <2>6. Len(input') < 2 => keyword' = Null
      BY <1>1, <1>8 DEF InWord
    <2>7. QED
      BY <2>3, <2>5, <2>6 DEF Follows
  <1>9. ~Cut
    BY <1>1 DEF Cut
  <1>10. QED
    BY <1>6, <1>7, <1>8, <1>9 DEF Follows

\* An escape begins: unless it follows one that begins a token.
LEMMA BackslashFollows ==
    ASSUME ParserTyped, NEW c \in Char, input' = Append(input, c),
           ReadBackslash(c), Added(c), Kept, FreshKept(c),
           Follows, escape \in BOOLEAN
    PROVE  Follows' \/ Quirky(input')
  <1>1. Len(input) \in Nat /\ Len(input') = Len(input) + 1 /\ ~escape /\ escape' = TRUE
        /\ Len(input') - 1 = Len(input)
        /\ (Len(input') < 2 => Len(input) = 0) /\ (Len(input') = 1 => Len(input) = 0)
        /\ (Len(input') = 2 => Len(input) = 1)
    BY OnePast DEF Added, ReadBackslash
  <1>2. Mode = [quote |-> IF state \in Quote THEN state ELSE "", escaped |-> FALSE]
    BY <1>1 DEF Follows, ModeIs
  <1>3. UNCHANGED <<state, buff, keyword, seq, dic>> /\ c = "\\"
    BY DEF ReadBackslash
  <1>4. Mode' = [quote |-> IF state \in Quote THEN state ELSE "", escaped |-> TRUE]
    BY <1>2, <1>3 DEF Added, Lexing
  <1>5. ModeIs'
    BY <1>1, <1>3, <1>4 DEF ModeIs
  <1>6. IsSlash(Mode, c) /\ ~IsBlank(Mode, c) /\ ~IsKey(Mode, c, Said) /\ TextOf(Mode, c) = <<>>
    BY <1>2, <1>3, Signs DEF IsSlash, IsBlank, IsKey, IsEqual, TextOf
  <1>7. Said' = [Said EXCEPT !.word = @ \o <<>>]
    BY <1>6 DEF Added, Wording
  <1>8. buff \o <<>> = buff /\ <<>> \o <<>> = <<>>
    BY ConcatProperties, EmptySeq DEF ParserTyped, Text
  <1>9. Len(input') < 2 => keyword' = Null
    BY <1>1, <1>3 DEF Follows
  <1>10. CASE Pending
    <2>1. Said' = Word(<<>>, Null, SeqWith(buff)', DicWith(buff)')
      BY <1>3, <1>7, <1>8, <1>10 DEF Pending, Word, SeqWith, DicWith
    <2>2. Len(input') > 1 /\ Len(input') # 2
      BY <1>1, <1>10 DEF Pending
    <2>3. Pending'
      BY <1>1, <1>3, <1>10, <2>1, <2>2 DEF Pending
    <2>4. QED
      BY <1>5, <1>9, <2>3 DEF Follows
  <1>11. CASE Between
    <2>1. Said' = Word(<<>>, keyword', seq', dic')
      BY <1>3, <1>7, <1>8, <1>11 DEF Between, Word
    <2>2. SlashAt(input', Len(input'))
      BY <1>1, <1>6 DEF Added
    <2>3. Begins(input', Len(input'))
      <3>1. FreshAt(input, Len(input) + 1) /\ Begins(input, Len(input) + 1)
        BY <1>1, <1>11 DEF Between, Begins
      <3>2. Len(input) + 1 \in 1..(Len(input) + 1)
        BY <1>1
      <3>3. Len(input) = 0 \/ Len(input) \in 1..Len(input)
        BY <1>1
      <3>4. (Len(input) + 1) - 1 = Len(input) /\ (Len(input) + 1 = 1 => Len(input) = 0)
            /\ (Len(input) = 0 => Len(input) + 1 = 1)
        BY <1>1
      <3>5. QED
        BY <1>1, <3>1, <3>2, <3>3, <3>4 DEF Begins, Kept, FreshKept
    <2>4. Between'
      BY <1>1, <1>3, <1>11, <2>1, <2>2, <2>3 DEF Between
    <2>5. QED
      BY <1>5, <1>9, <2>4 DEF Follows
  <1>12. CASE InWord
    <2>1. Said' = Word(buff', keyword', seq', dic')
      BY <1>3, <1>7, <1>8, <1>12 DEF InWord, Word
    <2>2. Len(input') > 0 /\ Len(input') # 1 /\ Len(input') + 1 = Len(input) + 2
      BY <1>1, <1>12 DEF InWord
    <2>3. buff' = <<>> => FreshAt(input', Len(input') + 1)
      BY <1>3, <1>6, <1>12, <2>2 DEF InWord, FreshKept
    <2>4. InWord'
      BY <1>3, <1>12, <2>1, <2>2, <2>3 DEF InWord
    <2>5. QED
      BY <1>5, <1>9, <2>4 DEF Follows
  <1>13. CASE Cut
    BY <1>6, <1>13, CutIsQuirky DEF Added
  <1>14. QED
    BY <1>10, <1>11, <1>12, <1>13 DEF Follows

\* Blanks between tokens.
LEMMA BlankFollows ==
    ASSUME ParserTyped, NEW c \in Char, SkipBlank(c), Added(c), Kept, FreshKept(c),
           Follows, escape \in BOOLEAN
    PROVE  Follows'
  <1>1. Len(input) \in Nat /\ Len(input') = Len(input) + 1 /\ Len(input') - 1 = Len(input)
        /\ (Len(input') < 2 => Len(input) = 0) /\ (Len(input') = 1 => Len(input) = 0)
        /\ (Len(input') = 2 => Len(input) = 1) /\ Len(input') + 1 = Len(input) + 2
    BY OnePast DEF Added
  <1>2. c = Blank /\ state = "SEP" /\ ~escape /\ escape' = escape
        /\ UNCHANGED <<state, buff, keyword, seq, dic>>
    BY DEF SkipBlank, Plain
  <1>3. Mode = NoQuote
    BY <1>2, Signs DEF Follows, ModeIs, NoQuote
  <1>4. IsBlank(Mode, c) /\ BlankAt(input', Len(input'))
    BY <1>1, <1>2, <1>3 DEF IsBlank, Added
  <1>5. Mode' = Mode /\ ModeIs'
    <2>1. Lexing(NoQuote, Blank) = NoQuote
      BY Signs DEF Lexing, NoQuote, Blank
    <2>2. Mode' = NoQuote
      BY <1>2, <1>3, <2>1 DEF Added
    <2>3. QED
      BY <1>2, <1>3, <2>2 DEF Follows, ModeIs
  <1>6. Said' = Ended(Said) /\ TextOf(Mode, c) = <<>>
    BY <1>3, <1>4 DEF Added, Wording, TextOf, NoQuote
  <1>7. Len(input') < 2 => keyword' = Null
    BY <1>1, <1>2 DEF Follows
  <1>8. CASE Between
    <2>1. Said' = Word(<<>>, keyword', seq', dic')
      BY <1>2, <1>6, <1>8 DEF Between, Ended, Word
    <2>2. FreshAt(input', Len(input') + 1)
      BY <1>1, <1>2, <1>6, <1>8 DEF Between, Begins, FreshKept
    <2>3. Begins(input', Len(input') + 1)
      <3>1. (Len(input') + 1) - 1 = Len(input')
        BY <1>1
      <3>2. QED
        BY <1>4, <2>2, <3>1 DEF Begins
    <2>4. Between'
      BY <1>2, <1>8, <2>1, <2>3 DEF Between
    <2>5. QED
      BY <1>5, <1>7, <2>4 DEF Follows
  <1>9. CASE Pending
    <2>1. Said' = Word(<<>>, Null, SeqWith(buff)', DicWith(buff)')
      BY <1>2, <1>6, <1>9 DEF Pending, Ended, Word, SeqWith, DicWith
    <2>2. Len(input') > 1 /\ Len(input') # 2
      BY <1>1, <1>9 DEF Pending
    <2>3. Pending'
      BY <1>2, <1>4, <1>9, <2>1, <2>2 DEF Pending
    <2>4. QED
      BY <1>5, <1>7, <2>3 DEF Follows
  <1>10. CASE Cut
    <2>1. Said' = Word(<<>>, Null, SeqWith(buff)', DicWith(buff)')
      BY <1>2, <1>6, <1>10 DEF Cut, Ended, Word, SeqWith, DicWith
    <2>2. Len(input') > 1 /\ Len(input') # 2
      BY <1>1, <1>10 DEF Cut
    <2>3. Pending'
      BY <1>2, <1>4, <1>10, <2>1, <2>2 DEF Pending, Cut
    <2>4. QED
      BY <1>5, <1>7, <2>3 DEF Follows
  <1>11. QED
    BY <1>2, <1>8, <1>9, <1>10 DEF Follows, InWord

\* Inside quotes.
LEMMA QuotedFollows ==
    ASSUME ParserTyped, NEW c \in Char, ReadQuoted(c), Added(c), Kept, FreshKept(c),
           Follows, escape \in BOOLEAN
    PROVE  Follows'
  <1>1. Len(input) \in Nat /\ Len(input') = Len(input) + 1
        /\ (Len(input') < 2 => Len(input) = 0) /\ (Len(input') = 1 => Len(input) = 0)
        /\ Len(input') + 1 = Len(input) + 2
    BY OnePast DEF Added
  <1>2. c # "\\" /\ state \in Quote /\ ~escape /\ escape' = escape
        /\ UNCHANGED <<keyword, seq, dic>>
    BY DEF ReadQuoted, Plain, Becomes
  <1>3. Mode = [quote |-> state, escaped |-> FALSE] /\ state # "" /\ state # "SEP"
        /\ Mode.quote = state /\ ~Mode.escaped /\ Mode # NoQuote
    <2>1. Mode = [quote |-> state, escaped |-> FALSE] /\ state # "" /\ state # "SEP"
      BY <1>2, Signs DEF Follows, ModeIs
    <2>2. Mode.quote # NoQuote.quote
      BY <2>1 DEF NoQuote
    <2>3. QED
      BY <2>1, <2>2
  <1>4. InWord
    BY <1>3 DEF Follows, Between, Pending, Cut
  <1>5. ~IsBlank(Mode, c) /\ ~IsKey(Mode, c, Said) /\ ~IsSlash(Mode, c)
    BY <1>2, <1>3 DEF IsBlank, IsKey, IsEqual, IsSlash
  <1>6. Said' = [Said EXCEPT !.word = @ \o TextOf(Mode, c)]
    BY <1>5 DEF Added, Wording
  <1>7. Len(input') < 2 => keyword' = Null
    BY <1>1, <1>2 DEF Follows
  <1>8. Len(input') > 0 /\ Len(input') # 1
    BY <1>1, <1>4 DEF InWord
  <1>9. CASE c = state
    <2>1. Lexing(Mode, c) = NoQuote
      BY <1>2, <1>3, <1>9 DEF Lexing, NoQuote
    <2>2. Mode' = NoQuote /\ state' = "TOKEN" /\ buff' = buff
      BY <1>9, <2>1 DEF Added, ReadQuoted, Becomes
    <2>3. ModeIs'
      BY <1>2, <2>2, Signs DEF ModeIs, NoQuote
    <2>4. TextOf(Mode, c) = <<>>
      <3>1. Lexing(Mode, c).quote = ""
        <4>1. NoQuote.quote = ""
          BY DEF NoQuote
        <4>2. QED
          BY <2>1, <4>1
      <3>2. Lexing(Mode, c).quote # Mode.quote
        BY <1>3, <3>1
      <3>3. QED
        BY <1>3, <3>2 DEF TextOf
    <2>5. Said' = Word(buff', keyword', seq', dic')
      <3>1. buff \o <<>> = buff
        BY ConcatProperties DEF ParserTyped, Text
      <3>2. QED
        BY <1>2, <1>4, <1>6, <2>2, <2>4, <3>1 DEF InWord, Word
    <2>6. buff' = <<>> => FreshAt(input', Len(input') + 1)
      BY <1>1, <1>4, <2>2, <2>4 DEF InWord, FreshKept
    <2>7. InWord'
      BY <1>8, <2>2, <2>5, <2>6 DEF InWord
    <2>8. QED
      BY <1>7, <2>3, <2>7 DEF Follows
  <1>10. CASE c # state
    <2>1. Lexing(Mode, c) = Mode
      BY <1>2, <1>3, <1>10 DEF Lexing
    <2>2. Mode' = Mode /\ state' = state /\ buff' = Append(buff, c)
      BY <1>10, <2>1 DEF Added, ReadQuoted, Becomes
    <2>3. ModeIs'
      BY <1>2, <1>3, <2>2 DEF ModeIs
    <2>4. TextOf(Mode, c) = <<c>>
      BY <1>3, <1>5, <2>1 DEF TextOf
    <2>5. buff \o <<c>> = Append(buff, c) /\ Append(buff, c) # <<>>
      <3>1. buff \in Seq(Symbol) /\ c \in Symbol
        BY DEF ParserTyped, Text, Symbol
      <3>2. QED
        BY <3>1, AppendIsConcat, AppendProperties
    <2>6. Said' = Word(buff', keyword', seq', dic')
      BY <1>2, <1>4, <1>6, <2>2, <2>4, <2>5 DEF InWord, Word
    <2>7. InWord'
      BY <1>3, <1>8, <2>2, <2>5, <2>6 DEF InWord
    <2>8. QED
      BY <1>7, <2>3, <2>7 DEF Follows
  <1>11. QED
    BY <1>9, <1>10

\* In a token.
LEMMA TokenFollows ==
    ASSUME ParserTyped, NEW c \in Char, ReadInToken(c), Added(c), Kept, FreshKept(c),
           Follows, escape \in BOOLEAN
    PROVE  Follows'
  <1>1. c # "\\" /\ state = "TOKEN" /\ ~escape /\ escape' = escape
        /\ InToken(c, buff, keyword) /\ UNCHANGED <<seq, dic>>
    BY DEF ReadInToken, Plain
  <1>2. Mode = NoQuote
    BY <1>1, Signs DEF Follows, ModeIs, NoQuote
  <1>3. InWord /\ Len(input) > 0
    BY <1>1 DEF Follows, InWord, Between, Pending, Cut
  <1>4. c \in Quote \cup {Blank} => TextOf(Mode, c) = <<>>
    <2>1. CASE c = Blank
      BY <1>2, <2>1 DEF TextOf, IsBlank, NoQuote
    <2>2. CASE c \in Quote
      BY <1>1, <1>2, <2>2, QuoteHasNoText
    <2>3. QED
      BY <2>1, <2>2
  <1>5. c \in Quote \cup {Blank} /\ buff = <<>> => FreshAt(input', Len(input) + 2)
    BY <1>3, <1>4 DEF InWord, FreshKept
  <1>6. buff \in Text /\ keyword \in Text /\ Said = Word(buff, keyword, seq, dic)
        /\ (Len(input) = 1 /\ buff # <<>> => TextAt(input, 1) # <<>>)
        /\ (Len(input) < 2 => keyword = Null)
    BY <1>3 DEF ParserTyped, InWord, Follows
  <1>7. Len(input) # 0
    BY <1>3
  <1>8. QED
    BY <1>1, <1>2, <1>3, <1>5, <1>6, <1>7, InTokenFollows

\* The next token begins.
LEMMA NextFollows ==
    ASSUME ParserTyped, NEW c \in Char, input' = Append(input, c), ReadNext(c), Added(c),
           Kept, FreshKept(c), Follows, escape \in BOOLEAN
    PROVE  Follows' \/ Quirky(input')
  <1>1. c # "\\" /\ state = "SEP" /\ ~escape /\ escape' = escape /\ c # Blank
    BY DEF ReadNext, Plain
  <1>2. Mode = NoQuote
    BY <1>1, Signs DEF Follows, ModeIs, NoQuote
  <1>3. c \in Quote => TextOf(Mode, c) = <<>>
    BY <1>1, <1>2, QuoteHasNoText
  <1>4. ~IsBlank(Mode, c) /\ ~IsSlash(Mode, c) /\ IsEqual(Mode, c) = (c = "=")
    BY <1>1, <1>2 DEF IsBlank, IsSlash, IsEqual
  <1>5. Len(input) \in Nat /\ Len(input') = Len(input) + 1
    BY DEF Added
  <1>6. <<>> \in Text /\ Null \in Text
    BY NullIsText, EmptySeq DEF Text
  <1>7. CASE Between
    <2>1. InToken(c, buff, keyword) /\ UNCHANGED <<seq, dic>> /\ buff = <<>>
      BY <1>7 DEF Between, ReadNext, TokenIsComplete
    <2>2. c \in Quote => FreshAt(input', Len(input) + 2)
      BY <1>1, <1>3, <1>7 DEF Between, Begins, FreshKept
    <2>3. Said = Word(buff, keyword, seq, dic) /\ buff \in Text /\ keyword \in Text
          /\ (Len(input) < 2 => keyword = Null)
      BY <1>7 DEF Between, ParserTyped, Follows
    <2>4. QED
      BY <1>1, <1>2, <2>1, <2>2, <2>3, InTokenFollows
  <1>8. CASE Pending
    <2>1. BlankAt(input, Len(input)) /\ buff # <<>> /\ Len(input) > 1
          /\ Said = Word(<<>>, Null, SeqWith(buff), DicWith(buff))
      BY <1>1, <1>8 DEF Pending
    <2>2. CASE c = "="
      <3>1. EqualAt(input', Len(input) + 1)
        BY <1>4, <2>2 DEF Added
      <3>2. Len(input) \in 1..Len(input) /\ (Len(input) + 1) - 1 = Len(input)
            /\ Len(input) + 1 > 1
        BY <1>5, <2>1
      <3>3. BlankAt(input', (Len(input) + 1) - 1)
        BY <2>1, <3>2 DEF Kept
      <3>4. Len(input) + 1 \in DOMAIN input'
        BY <3>1 DEF EqualAt
      <3>5. QED
        BY <3>1, <3>2, <3>3, <3>4 DEF Quirky
    <2>3. CASE Len(input) = 2
      <3>1. 1 \in 1..Len(input) /\ 2 \in 1..Len(input) /\ Len(input) + 1 = 3 /\ Len(input') > 2
        BY <1>5, <2>3
      <3>2. BlankAt(input', 2) /\ TextAt(input', 1) # <<>>
        BY <1>8, <2>1, <2>3, <3>1 DEF Pending, Kept
      <3>3. ~BlankAt(input', 3) /\ ~SlashAt(input', 3)
        BY <1>4, <3>1 DEF Added
      <3>4. QED
        BY <3>1, <3>2, <3>3 DEF Quirky, Glued
    <2>4. CASE c # "=" /\ Len(input) # 2
      <3>1. Register /\ InToken(c, <<>>, Null)
        BY <2>1, <2>4 DEF ReadNext, TokenIsComplete
      <3>2. seq' = SeqWith(buff) /\ dic' = DicWith(buff)
        BY <3>1 DEF Register
      <3>3. c \in Quote => FreshAt(input', Len(input) + 2)
        <4>1. Len(input) > 0
          BY <1>5, <2>1
        <4>2. QED
          BY <1>3, <1>4, <2>1, <4>1 DEF FreshKept
      <3>4. QED
        BY <1>1, <1>2, <1>6, <2>1, <3>1, <3>2, <3>3, InTokenFollows
    <2>5. QED
      BY <2>2, <2>3, <2>4
  <1>9. CASE Cut
    <2>1. buff # <<>> /\ Len(input) > 1 /\ Said = Word(buff, keyword, seq, dic)
          /\ (Len(input) = 2 => keyword = Null)
      BY <1>9 DEF Cut
    <2>2. CASE Len(input) = 2
      <3>1. InToken(c, buff, keyword) /\ UNCHANGED <<seq, dic>>
        BY <2>2 DEF ReadNext, TokenIsComplete
      <3>2. buff \in Text /\ keyword \in Text /\ Len(input) # 0 /\ Len(input) # 1
            /\ ~(Len(input) < 2)
        BY <2>2 DEF ParserTyped
      <3>3. QED
        BY <1>1, <1>2, <2>1, <3>1, <3>2, InTokenFollows
    <2>3. CASE Len(input) # 2
      <3>1. Len(input) > 2
        <4>1. Len(input) \in Nat /\ Len(input) > 1
          BY <1>5, <2>1
        <4> DEFINE n == Len(input)
        <4> HIDE DEF n
        <4>2. n \in Nat /\ n > 1 /\ n # 2
          BY <2>3, <4>1 DEF n
        <4>3. n > 2
          BY <4>2
        <4>4. QED
          BY <4>3 DEF n
      <3>2. QED
        BY <1>4, <1>9, <3>1, CutIsQuirky
    <2>4. QED
      BY <2>2, <2>3
  <1>10. QED
    BY <1>1, <1>7, <1>8, <1>9 DEF Follows, InWord

\* A command that is read is read as the reference reads it, or it is one of those
\* that the automaton takes otherwise.
ReadRight == IF parsed = "no" THEN Quirky(input) \/ Follows
             ELSE \/ Quirky(input)
                  \/ LET r == Reading(input)
                     IN  /\ parsed = "ParseError" <=> r.error
                         /\ parsed = "yes" => seq = r.args /\ dic = r.kwargs
PInv == ParserTyped /\ escape \in BOOLEAN /\ Tables(input) /\ ReadRight

\* Every character.
LEMMA ReadFollows ==
    ASSUME PInv, NEW c \in Char, Read(c)
    PROVE  PInv'
  <1>1. input \in Seq(Char) /\ parsed = "no" /\ parsed' = "no" /\ input' = Append(input, c)
    BY DEF PInv, ParserTyped, Read
  <1>2. ParserTyped /\ ParserTyped'
    BY ReadTyped DEF PInv
  <1>3. /\ Added(c) /\ Kept /\ FreshKept(c) /\ Tables(input')
        /\ Quirky(input) => Quirky(input')
    BY <1>1, OneRead DEF PInv
  <1>4. escape' \in BOOLEAN
    BY DEF PInv, Read, ReadEscaped, ReadBackslash, ReadInToken, SkipBlank, ReadNext,
           ReadQuoted, Plain
  <1>5. CASE Quirky(input)
    BY <1>1, <1>2, <1>3, <1>4, <1>5 DEF PInv, ReadRight
  <1>6. ASSUME Follows PROVE Follows' \/ Quirky(input')
    <2>1. escape \in BOOLEAN
      BY DEF PInv
    <2>2. CASE ReadEscaped(c)
      BY <1>2, <1>3, <1>6, <2>1, <2>2, EscapedFollows
    <2>3. CASE ReadBackslash(c)
      BY <1>1, <1>2, <1>3, <1>6, <2>1, <2>3, BackslashFollows
    <2>4. CASE ReadInToken(c)
      BY <1>2, <1>3, <1>6, <2>1, <2>4, TokenFollows
    <2>5. CASE SkipBlank(c)
      BY <1>2, <1>3, <1>6, <2>1, <2>5, BlankFollows
    <2>6. CASE ReadNext(c)
      BY <1>1, <1>2, <1>3, <1>6, <2>1, <2>6, NextFollows
    <2>7. CASE ReadQuoted(c)
      BY <1>2, <1>3, <1>6, <2>1, <2>7, QuotedFollows
    <2>8. QED
      BY <2>2, <2>3, <2>4, <2>5, <2>6, <2>7 DEF Read
  <1>7. QED
    BY <1>1, <1>2, <1>3, <1>4, <1>5, <1>6 DEF PInv, ReadRight

\* The end of the command.
LEMMA EndFollows ==
    ASSUME PInv, EndOfCommand
    PROVE  PInv'
  <1>1. ParserTyped' /\ UNCHANGED <<input, escape>> /\ parsed = "no"
        /\ parsed' = IF state \in Quote \/ (buff = <<>> /\ keyword # Null)
                     THEN "ParseError" ELSE "yes"
    BY EndTyped DEF PInv, EndOfCommand
  <1>2. CASE Quirky(input)
    BY <1>1, <1>2 DEF PInv, ReadRight
  <1>3. CASE Follows
    <2> DEFINE r == Reading(input)
               missing == Ended(Said).keyword # Null
               e == Mode.quote # "" \/ missing
               a == Ended(Said).args
               k == Ended(Said).kwargs
    <2>1. r = [error |-> e, args |-> a, kwargs |-> k]
      BY DEF Reading, Mode, Said
    <2>2. e <=> state \in Quote \/ missing
      <3>1. Mode.quote # "" <=> state \in Quote
        BY <1>3, Signs DEF Follows, ModeIs
      <3>2. QED
        BY <3>1
    <2>3. r.error = e /\ r.args = a /\ r.kwargs = k
      <3> HIDE DEF e, a, k, r
      <3>1. QED
        BY <2>1
    <2>4. ASSUME missing <=> buff = <<>> /\ keyword # Null,
                 parsed' = "yes" => seq' = a /\ dic' = k
          PROVE  PInv'
      <3>1. parsed' = "ParseError" <=> e
        BY <1>1, <2>2, <2>4
      <3>2. parsed' = "ParseError" <=> r.error
        <4> HIDE DEF e, r
        <4>1. QED
          BY <2>3, <3>1
      <3>3. parsed' = "yes" => seq' = r.args /\ dic' = r.kwargs
        <4> HIDE DEF r
        <4>1. QED
          BY <2>3, <2>4
      <3>4. parsed' # "no"
        BY <1>1
      <3>5. ReadRight'
        BY <1>1, <3>2, <3>3, <3>4 DEF ReadRight
      <3>6. QED
        BY <1>1, <3>5 DEF PInv
    <2>5. CASE InWord \/ Between \/ Cut
      <3>1. Said = Word(buff, keyword, seq, dic)
        BY <2>5 DEF InWord, Between, Cut
      <3>2. CASE buff = <<>>
        <4>1. Ended(Said).keyword = keyword /\ Ended(Said).args = seq
              /\ Ended(Said).kwargs = dic
          BY <3>1, <3>2 DEF Ended, Word
        <4>2. parsed' = "yes" => UNCHANGED <<seq, dic>>
          BY <1>1, <3>2 DEF EndOfCommand
        <4>3. QED
          BY <2>4, <3>2, <4>1, <4>2
      <3>3. CASE buff # <<>>
        <4>1. Ended(Said).keyword = Null /\ Ended(Said).args = SeqWith(buff)
              /\ Ended(Said).kwargs = DicWith(buff)
          BY <3>1, <3>3 DEF Ended, Word, SeqWith, DicWith
        <4>2. parsed' = "yes" => seq' = SeqWith(buff) /\ dic' = DicWith(buff)
          BY <1>1, <3>3 DEF EndOfCommand, Register
        <4>3. QED
          BY <2>4, <3>3, <4>1, <4>2
      <3>4. QED
        BY <3>2, <3>3
    <2>6. CASE Pending
      <3>1. Said = Word(<<>>, Null, SeqWith(buff), DicWith(buff)) /\ buff # <<>>
            /\ state = "SEP"
        BY <2>6 DEF Pending
      <3>2. Ended(Said).keyword = Null /\ Ended(Said).args = SeqWith(buff)
            /\ Ended(Said).kwargs = DicWith(buff)
        BY <3>1 DEF Ended, Word
      <3>3. seq' = SeqWith(buff) /\ dic' = DicWith(buff)
        BY <1>1, <3>1, Signs DEF EndOfCommand, Register
      <3>4. QED
        BY <2>4, <3>1, <3>2, <3>3
    <2>7. QED
      BY <1>3, <2>5, <2>6 DEF Follows
  <1>4. QED
    BY <1>1, <1>2, <1>3 DEF PInv, ReadRight

\* Nothing is read of the next command yet.
LEMMA FreshFollows == ParserInit /\ ParserTyped => PInv
  <1> SUFFICES ASSUME input = <<>>, state = "SEP", buff = <<>>, keyword = Null,
                      seq = <<>>, dic = Empty, escape = FALSE, parsed = "no",
                      ParserTyped
               PROVE  PInv
    BY DEF ParserInit
  <1>1. Len(input) = 0 /\ Tables(input) /\ Mode = NoQuote /\ Said = NoWord
    BY NothingRead, EmptySeq DEF Mode, Said
  <1>2. ModeIs
    BY <1>1, Signs DEF ModeIs, NoQuote
  <1>3. Said = Word(<<>>, keyword, seq, dic)
    BY <1>1 DEF NoWord, Word
  <1>4. Begins(input, Len(input) + 1)
    <2>1. 0 \in 0..0 /\ 1..0 = {} /\ Len(input) + 1 = 1 /\ 1 - 1 = 0 /\ 0 + 1 = 1
      BY <1>1
    <2>2. FreshAt(input, 1)
      BY <2>1 DEF FreshAt, Starts
    <2>3. QED
      BY <2>1, <2>2 DEF Begins
  <1>5. Between
    BY <1>3, <1>4 DEF Between
  <1>6. QED
    BY <1>1, <1>2, <1>5 DEF PInv, ReadRight, Follows

\* Every step of pymind keeps that.
LEMMA PNext == CInv /\ DInv /\ PInv /\ [Next]_vars => PInv'
  <1> SUFFICES ASSUME CInv, DInv, PInv, [Next]_vars PROVE PInv'
    OBVIOUS
  <1>1. CASE UNCHANGED parser
    <2>1. input' = input /\ state' = state /\ buff' = buff /\ keyword' = keyword
          /\ seq' = seq /\ dic' = dic /\ escape' = escape /\ parsed' = parsed
      BY <1>1 DEF parser
    <2>2. Mode' = Mode /\ Said' = Said
      BY <2>1 DEF Mode, Said
    <2>3. Follows' <=> Follows
      BY <2>1, <2>2 DEF Follows, ModeIs, InWord, Between, Pending, Cut, SeqWith, DicWith
    <2>4. ParserTyped' <=> ParserTyped
      BY <2>1 DEF ParserTyped
    <2>5. ReadRight'
      BY <2>1, <2>3 DEF PInv, ReadRight
    <2>6. QED
      BY <2>1, <2>4, <2>5 DEF PInv
  <1>2. CASE Receive
    BY <1>2, ReadFollows, EndFollows DEF Receive
  <1>3. CASE Respond
    <2>1. ParserInit'
      BY <1>3 DEF Respond, ParserInit
    <2>2. ParserTyped'
      BY DNext DEF DInv
    <2>3. ParserInit' /\ ParserTyped' => PInv'
      BY FreshFollows, PTL
    <2>4. QED
      BY <2>1, <2>2, <2>3
  <1>4. QED
    BY <1>1, <1>2, <1>3 DEF Next, ReadConfig, BuildRoot, Handle, Dispatch, vars

\* A command means what the documentation of parse_command and dispatch says, of any
\* length, over any letters and with any services: help is called, of the handler and
\* with the argument that were written, if and only if the words, quotes and escapes
\* of the text name it; every other text is answered with the error that tells why,
\* but for the three kinds of text that the automaton reads otherwise
\* (parse_command, Dispatcher.dispatch, Handler.help).
THEOREM CommandsAreAnswered == Spec => []AnswersTheCommand
  <1>1. Init => DInv /\ PInv
    <2>1. Init => ParserInit
      BY DEF Init
    <2>2. QED
      BY <2>1, DInit, FreshFollows DEF DInv
  <1>2. ASSUME DInv, PInv PROVE AnswersTheCommand
    <2> DEFINE r == Reading(input)
    <2>1. SUFFICES ASSUME reply # NoAnswer, ~Quirky(input) PROVE reply = Answered(r)
      BY DEF AnswersTheCommand
    <2>2. parsed # "no" /\ reply = Answered(What)
      BY <1>2, <2>1 DEF DInv, Dispatched
    <2>3. /\ parsed = "ParseError" <=> r.error
          /\ parsed = "yes" => seq = r.args /\ dic = r.kwargs
      BY <1>2, <2>1, <2>2 DEF PInv, ReadRight
    <2>4. CASE parsed = "ParseError"
      <3>1. What.error /\ r.error
        BY <2>3, <2>4 DEF What
      <3> HIDE DEF r
      <3>2. Answered(What) = Answer("ParseError", <<>>)
            /\ Answered(r) = Answer("ParseError", <<>>)
        BY <3>1, Zenon DEF Answered
      <3>3. QED
        BY <2>2, <3>2 DEF r
    <2>5. CASE parsed # "ParseError"
      <3>1. parsed = "yes"
        BY <1>2, <2>2, <2>5 DEF DInv, ParserTyped
      <3>2. What = [error |-> FALSE, args |-> seq, kwargs |-> dic]
        BY <2>5 DEF What
      <3>3. PICK e \in BOOLEAN : r = [error |-> e, args |-> r.args, kwargs |-> r.kwargs]
        BY DEF Reading
      <3> HIDE DEF r
      <3>4. ~e
        BY <2>3, <2>5, <3>3
      <3>5. r = What
        BY <2>3, <3>1, <3>2, <3>3, <3>4
      <3>6. QED
        BY <2>2, <3>5 DEF r
    <2>6. QED
      BY <2>4, <2>5
  <1>3. QED
    BY <1>1, <1>2, DNext, PNext, StartInductive, PTL DEF Spec
=============================================================================
