------------------------------- MODULE Pymind -------------------------------
(***************************************************************************)
(* The pymind script: the configuration decides which services the root    *)
(* handler has, and PyminDaemon.handle answers the commands it receives    *)
(* with what the dispatcher finds there.                                   *)
(***************************************************************************)
EXTENDS Dispatcher, Config

\* A service is known by its name.
ASSUME PymindAssumption == Service \subseteq Names

vars == <<parser, dispatcher, config_vars>>

Init == ConfigInit /\ ParserInit /\ root = {} /\ reply = NoAnswer

ReadConfig == /\ LoadConfLenient \/ LoadConfStrict \/ AddConfigOptions
                 \/ \E f \in File : EditFile(f)
              /\ UNCHANGED <<parser, dispatcher>>

\* A bug: the services of the second reading, not those that were loaded.
RootReadAgain == config.services

\* build_root sets one attribute for each service that was loaded.
Root == loaded

\* From here on the daemon serves; what it read is of no use any more.
BuildRoot ==
    /\ pass = "built"
    /\ pass' = "serving"
    /\ root' = Root
    /\ file' = [f \in File |-> Missing] /\ cmd' = NoConfig /\ use' = "no"
    /\ paths' = <<>> /\ config' = NoConfig /\ loaded' = {} /\ edits' = 0
    /\ UNCHANGED <<parser, reply>>

\* recvfrom, character by character.
Receive == /\ pass = "serving"
           /\ (\E c \in Char : Read(c)) \/ EndOfCommand
           /\ UNCHANGED <<dispatcher, config_vars>>

Handle == pass = "serving" /\ Dispatch /\ UNCHANGED config_vars

\* sendto, and the next command.
Respond ==
    /\ reply # NoAnswer
    /\ reply' = NoAnswer
    /\ input' = <<>> /\ state' = "SEP" /\ buff' = <<>> /\ keyword' = Null
    /\ seq' = <<>> /\ dic' = Empty /\ escape' = FALSE /\ parsed' = "no"
    /\ UNCHANGED <<root, config_vars>>

Next == ReadConfig \/ BuildRoot \/ Receive \/ Handle \/ Respond

Spec == Init /\ [][Next]_vars

-----------------------------------------------------------------------------
\* What the documentation of pymin.config says of an option: the command line
\* is before the file it names, that before the default file, and with
\* --replace-config-file the default file is not read.
Asked(o) ==
    LET Says(f) == file[f] \notin {Missing, Garbled} /\ file[f][o] # VOID IN
    IF cmd[o] # VOID THEN cmd[o]
    ELSE IF use # "no" /\ Says("extra") THEN file["extra"][o]
    ELSE IF use # "replace" /\ Says("default") THEN file["default"][o]
    ELSE Default[o]

InUse == File \ (IF use = "no" THEN {"extra"}
                 ELSE IF use = "replace" THEN {"default"} ELSE {})

\* Nothing of the configuration, or of the command line, is wrong.
Valid == /\ \A f \in InUse : file[f] # Garbled
         /\ Asked("services") \subseteq Service
         /\ Asked("bind_port") # "bad"
         /\ IF Asked("services") = {} THEN cmd["pickle_dir"] = VOID
            ELSE Asked("pickle_dir") # VOID

\* pymind serves what its files and its command line ask for, and nothing
\* else; it ends before it serves exactly when something in them is wrong
\* (load_config, Services.add_config_options, build_root).  When a file
\* changes between the two readings, the services are those of the first and
\* their options those of the second: no service ever runs without its own.
ConfigIsServed ==
    [][/\ pass' = "dead" => edits > 0 \/ ~Valid
       /\ pass = "built" =>
            /\ edits = 0 => Valid /\ root' = Asked("services")
            /\ config.bind_port = Asked("bind_port") /\ config.bind_port # "bad"
            /\ root' # {} => config.pickle_dir = Asked("pickle_dir")
                             /\ config.pickle_dir # VOID]_vars

\* The answer that a reading of the command asks for: help is the one command
\* there is, of the root, w[1], or of a service, w[2].
Answered(r) ==
    LET w == r.args
        n == Len(w)
        upto(k) == SubSeq(w, 1, k)
        InService == n > 0 /\ w[1] \in root
        k == IF InService THEN 2 ELSE 1
        given == SubSeq(w, k + 1, n) \o
                 [i \in 1..Cardinality(DOMAIN r.kwargs) |-> r.kwargs[Parameter]]
        about == IF given = <<>> THEN Null ELSE given[1] IN
    IF r.error THEN Answer("ParseError", <<>>)
    ELSE IF n = 0 THEN Answer("CommandNotSpecified", <<>>)
    ELSE IF n < k THEN Answer("CommandIsAHandler", w)
    ELSE IF w[k] = Null \/ (InService /\ w[2] = DataName /\ n > 2 /\ w[3] = Null)
         THEN Answer("Internal", <<>>)
    ELSE IF w[k] = HelpName
         THEN IF ~DOMAIN r.kwargs \subseteq {Parameter} \/ Len(given) > 1
              THEN Answer("WrongArguments", SubSeq(w, k + 1, n))
              ELSE IF about = Null THEN Answer("Listing", upto(k - 1))
              ELSE IF about = HelpName \/ (~InService /\ about \in root)
              THEN Answer("Help", Append(upto(k - 1), about))
              ELSE Answer("HelpNotFound", <<about>>)
    ELSE IF ~InService \/ w[k] = ParentName THEN Answer("CommandNotFound", upto(k))
    ELSE IF w[k] # DataName THEN Answer("CommandNotInHandler", upto(k))
    ELSE Answer("CommandNotFound", upto(IF n = k THEN k ELSE k + 1))

\* A command means what the documentation of parse_command and dispatch says:
\* help is called, of the handler and with the argument that were written, if
\* and only if the words, quotes and escapes of the text name it;
\* every other text is answered with the error that tells why.  The three
\* kinds of text that the automaton is known to read otherwise are left out.
AnswersTheCommand ==
    reply # NoAnswer => Quirky(input) \/ reply = Answered(Reading(input))
=============================================================================
