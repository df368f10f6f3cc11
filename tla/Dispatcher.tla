----------------------------- MODULE Dispatcher -----------------------------
(***************************************************************************)
(* Dispatcher.dispatch of pymin/dispatcher.py: a command that was parsed   *)
(* finds its way through the tree of handlers, and is called or answered   *)
(* with an error.                                                          *)
(*                                                                         *)
(* The tree is the one of pymind with the services in root.  A handler has *)
(* the command `help', of class Handler, with one optional parameter; a    *)
(* service also has an attribute that is no handler, and `parent'.         *)
(***************************************************************************)
EXTENDS CommandParser, FiniteSets

CONSTANTS Names,  \* of services
          HelpName, DataName, ParentName, Parameter

\* The names of attributes are the handlers' own: none is that of a service.
ASSUME DispatcherAssumption ==
    /\ Names \cup {HelpName, DataName, ParentName, Parameter} \subseteq Seq(Char) \ {Null}
    /\ Names \cap {HelpName, DataName, ParentName} = {}
    /\ HelpName # DataName /\ ParentName \notin {HelpName, DataName}

VARIABLES
    root,  \* the names of the services of the root handler
    reply  \* the answer to the command, or NoAnswer

dispatcher == <<root, reply>>

Answer(kind, words) == [kind |-> kind, words |-> words]
NoAnswer == Answer("none", <<>>)

\* What getattr finds in a handler.
Attributes(node) ==
    CASE node = "root" -> [name \in root \cup {HelpName} |->
                              IF name = HelpName THEN "command" ELSE "service"]
      [] node = "service" -> [name \in {HelpName, DataName, ParentName} |->
                                 IF name = HelpName THEN "command" ELSE "data"]
      [] OTHER -> Empty

IsHandler(node) == node = "command"           \* is_handler
IsHandlerClass(node) == node \in {"root", "service"}  \* isinstance(.., Handler)

\* Handler.help, of the handler at the end of path.
Help(path, word) ==
    LET node == IF path = <<>> THEN "root" ELSE "service" IN
    IF word = Null THEN Answer("Listing", path)
    ELSE IF word = ParentName \/ word \notin DOMAIN Attributes(node)
            \/ Attributes(node)[word] = "data"
    THEN Answer("HelpNotFound", <<word>>)
    ELSE Answer("Help", Append(path, word))

\* What the decorator does: the arguments must fit the signature.
Call(path, words, kwargs) ==
    IF Len(words) + Cardinality(DOMAIN kwargs) > 1
       \/ ~DOMAIN kwargs \subseteq {Parameter}
    THEN Answer("WrongArguments", words)
    ELSE Help(path, IF words # <<>> THEN words[1]
                    ELSE IF DOMAIN kwargs # {} THEN kwargs[Parameter] ELSE Null)

\* The loop of dispatch: the first n words of the route led to node; walk tells
\* what the next word leads to.
Node == {"root", "service", "command", "data"}
RoutedAt(route, kwargs, n, node, walk) ==
    LET rest == SubSeq(route, n + 1, Len(route))
        command == SubSeq(route, 1, n + 1) IN
    IF IsHandler(node) THEN Call(SubSeq(route, 1, n - 1), rest, kwargs)
    ELSE IF n = Len(route)
         THEN Answer(IF IsHandlerClass(node) THEN "CommandIsAHandler"
                     ELSE "CommandNotFound", route)
    ELSE IF route[n + 1] = ParentName THEN Answer("CommandNotFound", command)
    ELSE IF route[n + 1] = Null THEN Answer("Internal", <<>>)
    ELSE IF route[n + 1] \notin DOMAIN Attributes(node)
         THEN Answer(IF IsHandlerClass(node) /\ n > 0
                     THEN "CommandNotInHandler" ELSE "CommandNotFound", command)
    ELSE walk[n + 1][Attributes(node)[route[n + 1]]]

Routed(route, kwargs) ==
    LET walk[n \in 0..Len(route)] ==
          [node \in Node |-> RoutedAt(route, kwargs, n, node, walk)]
    IN  walk[0]["root"]

Dispatch == /\ reply = NoAnswer
            /\ parsed # "no"
            /\ reply' = IF parsed = "ParseError" THEN Answer("ParseError", <<>>)
                        ELSE IF seq = <<>> THEN Answer("CommandNotSpecified", <<>>)
                        ELSE Routed(seq, dic)
            /\ UNCHANGED <<parser, root>>
=============================================================================
