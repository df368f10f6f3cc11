---------------------------- MODULE CommandParser ----------------------------
(***************************************************************************)
(* parse_command of pymin/dispatcher.py, one character at a time.          *)
(*                                                                         *)
(* A word is a sequence of characters; the characters that escapes make    *)
(* have names.  No argument is ever the empty word, so it stands for None, *)
(* the value of \N, and for a keyword that is not set.                     *)
(***************************************************************************)
EXTENDS Containers

CONSTANTS Letter,    \* characters without a meaning, unless they are escaped
          MaxLength  \* of a command

ASSUME ParserAssumption == MaxLength \in Nat /\ "" \notin Letter

Blank == " "
Quote == {"\"", "'"}
Char == Letter \cup Quote \cup {Blank, "=", "\\"}
Null == <<>>
NullText == <<"\\", "N">>

VARIABLES
    input,    \* the characters that were read; n is the length of it
    state,    \* "SEP", "TOKEN", or the quote that is open
    buff,
    keyword,
    seq,
    dic,
    escape,
    parsed    \* "no", "yes" or "ParseError"

parser == <<input, state, buff, keyword, seq, dic, escape, parsed>>

ParserInit == /\ input = <<>> /\ state = "SEP" /\ buff = <<>>
              /\ keyword = Null /\ seq = <<>> /\ dic = Empty
              /\ escape = FALSE /\ parsed = "no"

\* The escapes \a, \b, \n, \r, \t and \v have a meaning; \N is for None.
Meaning == [a |-> "BEL", b |-> "BS", n |-> "LF", r |-> "CR", t |-> "TAB",
            v |-> "VT"]
Escaped(c) == IF c \in DOMAIN Meaning THEN <<Meaning[c]>>
              ELSE IF c = "N" THEN NullText ELSE <<c>>

\* register_token.
Value(text) == IF text = NullText THEN Null ELSE text
SeqWith(text) == IF keyword = Null THEN Append(seq, Value(text)) ELSE seq
DicWith(text) == IF keyword = Null THEN dic ELSE Put(dic, keyword, Value(text))
Register == seq' = SeqWith(buff) /\ dic' = DicWith(buff)

Becomes(s, b, k) == state' = s /\ buff' = b /\ keyword' = k

-----------------------------------------------------------------------------
ReadEscaped(c) ==
    /\ escape
    /\ escape' = FALSE
    /\ IF state = "SEP" /\ buff # <<>>
       THEN Register /\ Becomes("TOKEN", Escaped(c), Null)
       ELSE Becomes(state, buff \o Escaped(c), keyword) /\ UNCHANGED <<seq, dic>>

ReadBackslash(c) == /\ ~escape
                    /\ c = "\\"
                    /\ escape' = TRUE
                    /\ UNCHANGED <<state, buff, keyword, seq, dic>>

Plain(c) == ~escape /\ c # "\\" /\ UNCHANGED escape

\* A character of a token of which b was read, with k as the keyword.
InToken(c, b, k) ==
    IF c \in Quote THEN Becomes(c, b, k)
    ELSE IF c = "=" /\ k = Null /\ b # <<>> THEN Becomes("SEP", <<>>, b)
    ELSE IF c = Blank THEN Becomes("SEP", b, k)
    ELSE Becomes("TOKEN", Append(b, c), k)

ReadInToken(c) == /\ Plain(c)
                  /\ state = "TOKEN"
                  /\ InToken(c, buff, keyword)
                  /\ UNCHANGED <<seq, dic>>

SkipBlank(c) == /\ Plain(c)
                /\ state = "SEP" /\ c = Blank
                /\ UNCHANGED <<state, buff, keyword, seq, dic>>

\* A bug: the first token is registered like any other, the special case for
\* an escape at the beginning of the command is not there.
TokenIsCompleteAlways == buff # <<>>

\* `buff and n != 2'.
TokenIsComplete == buff # <<>> /\ Len(input) # 2

\* The next token begins, or an equal sign makes a keyword of the last one.
ReadNext(c) ==
    /\ Plain(c)
    /\ state = "SEP" /\ c # Blank
    /\ IF ~TokenIsComplete
       THEN InToken(c, buff, keyword) /\ UNCHANGED <<seq, dic>>
       ELSE IF c = "=" THEN Becomes("SEP", <<>>, buff) /\ UNCHANGED <<seq, dic>>
       ELSE Register /\ InToken(c, <<>>, Null)

ReadQuoted(c) == /\ Plain(c)
                 /\ state \in Quote
                 /\ IF c = state THEN Becomes("TOKEN", buff, keyword)
                    ELSE Becomes(state, Append(buff, c), keyword)
                 /\ UNCHANGED <<seq, dic>>

Read(c) == /\ parsed = "no" /\ Len(input) < MaxLength
           /\ input' = Append(input, c)
           /\ \/ ReadEscaped(c) \/ ReadBackslash(c) \/ ReadInToken(c)
              \/ SkipBlank(c) \/ ReadNext(c) \/ ReadQuoted(c)
           /\ UNCHANGED parsed

\* The end of the command.
EndOfCommand ==
    /\ parsed = "no"
    /\ IF state \in Quote \/ (buff = <<>> /\ keyword # Null)
       THEN parsed' = "ParseError" /\ UNCHANGED <<seq, dic>>
       ELSE /\ parsed' = "yes"
            /\ IF buff # <<>> THEN Register ELSE UNCHANGED <<seq, dic>>
    /\ UNCHANGED <<input, state, buff, keyword, escape>>

-----------------------------------------------------------------------------
\* What the documentation of parse_command says of a command, without the states
\* of the automaton.  Where its quotes and escapes are: the mode after a character.
NoQuote == [quote |-> "", escaped |-> FALSE]
Lexing(m, c) ==
    IF m.escaped THEN [m EXCEPT !.escaped = FALSE]
    ELSE IF c = "\\" THEN [m EXCEPT !.escaped = TRUE]
    ELSE IF c = m.quote THEN [m EXCEPT !.quote = ""]
    ELSE IF c \in Quote /\ m.quote = "" THEN [m EXCEPT !.quote = c]
    ELSE m

\* What the character c is in mode m, and the text that it stands for.
IsBlank(m, c) == m = NoQuote /\ c = Blank
IsEqual(m, c) == m = NoQuote /\ c = "="
IsSlash(m, c) == ~m.escaped /\ c = "\\"
TextOf(m, c) == IF m.escaped THEN Escaped(c)
                ELSE IF IsSlash(m, c) \/ IsBlank(m, c) \/ Lexing(m, c).quote # m.quote
                THEN <<>> ELSE <<c>>

\* The words: a blank ends one, an equal sign makes it a keyword, whose value is
\* the next one.
NoWord == [word |-> <<>>, keyword |-> Null, args |-> <<>>, kwargs |-> Empty]
Ended(r) ==
    IF r.word = <<>> THEN r
    ELSE IF r.keyword = Null
    THEN [r EXCEPT !.word = <<>>, !.args = Append(@, Value(r.word))]
    ELSE [r EXCEPT !.word = <<>>, !.keyword = Null,
                   !.kwargs = Put(@, r.keyword, Value(r.word))]
IsKey(m, c, r) == IsEqual(m, c) /\ r.word # <<>> /\ r.keyword = Null
Wording(m, c, r) ==
    IF IsBlank(m, c) THEN Ended(r)
    ELSE IF IsKey(m, c, r) THEN [r EXCEPT !.word = <<>>, !.keyword = r.word]
    ELSE [r EXCEPT !.word = @ \o TextOf(m, c)]

\* The modes and the words after each character of the command w.
Lexed(w) ==
    LET mode[i \in 0..Len(w)] ==
          IF i = 0 THEN NoQuote ELSE Lexing(mode[i - 1], w[i])
    IN  mode
Worded(w) ==
    LET mode == Lexed(w)
        words[i \in 0..Len(w)] ==
          IF i = 0 THEN NoWord ELSE Wording(mode[i - 1], w[i], words[i - 1])
    IN  words

Reading(w) ==
    LET r == Ended(Worded(w)[Len(w)])
    IN  [error |-> Lexed(w)[Len(w)].quote # "" \/ r.keyword # Null,
         args |-> r.args, kwargs |-> r.kwargs]

\* What the automaton takes otherwise: a second token is glued to a first one of
\* one character; a token that begins with an escape is cut after it, unless
\* text was read before it that is still to be registered; and an equal sign
\* after a blank belongs to the token before the blank.
BlankAt(w, i) == i \in DOMAIN w /\ IsBlank(Lexed(w)[i - 1], w[i])
SlashAt(w, i) == i \in DOMAIN w /\ IsSlash(Lexed(w)[i - 1], w[i])
EqualAt(w, i) == i \in DOMAIN w /\ IsEqual(Lexed(w)[i - 1], w[i])
KeyAt(w, i) == i \in DOMAIN w /\ IsKey(Lexed(w)[i - 1], w[i], Worded(w)[i - 1])
TextAt(w, i) == TextOf(Lexed(w)[i - 1], w[i])

\* Between these breaks and position i there is nothing to register.
Starts(w, b, i) == b = 0 \/ KeyAt(w, b)
                   \/ (BlankAt(w, b) /\ \E j \in (b + 1)..(i - 1) : ~BlankAt(w, j))
FreshAt(w, i) == \E b \in 0..(i - 1) :
                    Starts(w, b, i) /\ \A j \in (b + 1)..(i - 1) : TextAt(w, j) = <<>>

Glued(w) == /\ Len(w) > 2 /\ BlankAt(w, 2) /\ TextAt(w, 1) # <<>>
            /\ ~BlankAt(w, 3) /\ ~SlashAt(w, 3)
CutAt(w, i) == /\ SlashAt(w, i) /\ FreshAt(w, i)
               /\ i = 1 \/ BlankAt(w, i - 1) \/ KeyAt(w, i - 1)
               /\ i + 2 <= Len(w) /\ ~BlankAt(w, i + 2)
               /\ i > 1 \/ SlashAt(w, 3)
Quirky(w) == \/ Glued(w)
             \/ \E i \in DOMAIN w : CutAt(w, i)
             \/ \E i \in DOMAIN w : i > 1 /\ EqualAt(w, i) /\ BlankAt(w, i - 1)
=============================================================================
