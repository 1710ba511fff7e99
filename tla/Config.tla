------------------------------- MODULE Config -------------------------------
(***************************************************************************)
(* The settings of a process and how they are read (src/src/Config.cpp):   *)
(* the parsers of single values, and load_yaml and load_cmd_line, which    *)
(* run them one after the other on what a file or a command line gives.    *)
(* Pure: each operator returns what the function leaves behind; the        *)
(* process that calls them is in Kapuad.                                   *)
(*                                                                         *)
(* A number or a duration is the sequence of its tokens, a whole run of    *)
(* digits or one other character each.  Words stand for themselves, letter *)
(* case left out.  A parser returns what it stored and how it ended:       *)
(*   "stored"   true                                                       *)
(*   "ignored"  true, with nothing stored                                  *)
(*   "refused"  false                                                      *)
(*   "thrown"   an exception, caught in load_yaml or load_cmd_line         *)
(* Left out: log lines, the log level of Config's own logger, the members  *)
(* nothing reads or writes.                                                *)
(***************************************************************************)
EXTENDS Integers, Sequences, SequencesExt

CONSTANTS
    Unset,      \* a member the constructor leaves uninitialised
    Unreadable, \* a file that is not there, is no YAML or no YAML map
    NotScalar,  \* a YAML node that is a map or a sequence where a value belongs
    Ipv4        \* the words inet_pton takes for an address

\* Config's members, by the names they have in a file.
Setting ==
    {"logging.level", "logging.disable_splash", "server.id", "server.ip4_address",
     "server.port", "local_discovery.enable", "local_discovery.interval",
     "memcache.enable", "memcache.ip4_address", "memcache.port"}

\* The constructor.
Defaults ==
    [key \in Setting |->
        CASE key = "server.ip4_address" -> "0.0.0.0"
          [] key = "server.port" -> 11840
          [] OTHER -> Unset]

Stored(value) == [end |-> "stored", value |-> value]
Ends(end) == [end |-> end, value |-> Unset]

-----------------------------------------------------------------------------
(* Numbers.                                                                *)

Digits(n) == <<"digits", n>>
TooManyDigits == <<"too many digits", 0>>  \* for an int
Char(c) == <<c, 0>>
IsDigits(token) == token[1] \in {"digits", "too many digits"}

\* Two tokens of digits are never next to each other.
IsTokens(text) ==
    /\ text \in Seq(STRING \X Nat)
    /\ \A i \in 1 .. Len(text) - 1 : ~(IsDigits(text[i]) /\ IsDigits(text[i + 1]))

\* std::stoi: blanks, a sign, digits; what follows is not looked at.  It
\* throws when there are none, or too many.
stoi(text) ==
    LET drop(q, chars) == IF q # << >> /\ Head(q) \in chars THEN Tail(q) ELSE q
        trimmed  == drop(text, {Char(" ")})
        negative == trimmed # << >> /\ Head(trimmed) = Char("-")
        number   == drop(trimmed, {Char("-"), Char("+")})
        good     == number # << >> /\ Head(number)[1] = "digits"
    IN  [throws |-> ~good,
         n |-> IF ~good THEN 0 ELSE IF negative THEN 0 - Head(number)[2] ELSE Head(number)[2]]

\* (Mutant of parse_uint16: narrowed to a signed number, and refused.)
parse_int16(text) ==
    IF stoi(text).throws \/ stoi(text).n > 32767 THEN Ends("refused")
    ELSE Stored(stoi(text).n)

\* parse_uint16, and parse_port up to the byte order.  The number is narrowed
\* whatever it is.
parse_uint16(text) ==
    IF stoi(text).throws THEN Ends("refused") ELSE Stored(stoi(text).n % 65536)

-----------------------------------------------------------------------------
(* Durations.  Milliseconds are counted in eighths: every unit is a whole  *)
(* number of them, and an int32_t holds 2^29.                              *)

Range32 == 536870912
Int32(n) == ((n + (Range32 \div 2)) % Range32) - (Range32 \div 2)

UnitLength(c) == [h |-> 450000, m |-> 7500, s |-> 125][c[1]]

\* (Mutant of AddUnit: each unit replaces what came before it.)
SetUnit(loop, token) ==
    IF stoi(loop.buffer).throws THEN [loop EXCEPT !.end = "thrown"]
    ELSE [loop EXCEPT !.buffer = << >>,
                      !.res = Int32(stoi(loop.buffer).n * UnitLength(token))]

\* A unit ends the number in the buffer.
AddUnit(loop, token) ==
    IF stoi(loop.buffer).throws THEN [loop EXCEPT !.end = "thrown"]
    ELSE [loop EXCEPT !.buffer = << >>,
                      !.res = Int32(@ + Int32(stoi(loop.buffer).n * UnitLength(token)))]

\* One turn of the loop of parse_duration.  In mode Start a bad first
\* character is logged and kept all the same.
DurationTurn(loop, token) ==
    CASE loop.end # "stored" -> loop
      [] loop.end = "stored" /\ loop.mode = "Start" ->
            IF token = Char("-") THEN [loop EXCEPT !.end = "refused"]
            ELSE [loop EXCEPT !.mode = "Digit", !.buffer = <<token>>]
      [] loop.end = "stored" /\ loop.mode = "Digit" ->
            IF IsDigits(token) THEN [loop EXCEPT !.buffer = Append(@, token)]
            ELSE IF loop.buffer = << >> \/ token \notin {Char("h"), Char("m"), Char("s")}
                 THEN [loop EXCEPT !.end = "refused"]
                 ELSE AddUnit(loop, token)

\* parse_duration with allowNegative = false, as all calls have it.  What is
\* left in the buffer at the end is dropped.
parse_duration(text) ==
    LET begun == [mode |-> "Start", buffer |-> << >>, res |-> 0, end |-> "stored"]
        loop[i \in 0 .. Len(text)] ==
            IF i = 0 THEN begun ELSE DurationTurn(loop[i - 1], text[i])
        left == loop[Len(text)]
    IN  IF left.end = "stored" THEN Stored(left.res) ELSE Ends(left.end)

-----------------------------------------------------------------------------
(* The other parsers.                                                      *)

parse_bool(word) ==
    IF word \in {"true", "t", "yes"} THEN Stored(TRUE)
    ELSE IF word \in {"false", "f", "no"} THEN Stored(FALSE)
    ELSE Ends("refused")

\* An unknown level is logged, and counts as good.
parse_log_level(word) ==
    CASE word = "error" -> Stored(0)
      [] word \in {"warn", "warning"} -> Stored(1)
      [] word = "info" -> Stored(2)
      [] word = "debug" -> Stored(3)
      [] OTHER -> Ends("ignored")

\* text: whether it begins with 0x, how many characters follow, whether they
\* are all hexadecimal digits, and the number they make.
parse_hex_uint64(text) ==
    IF text.length = 16 /\ text.hex THEN Stored(text.number) ELSE Ends("refused")

parse_ipv4(word) == IF word \in Ipv4 THEN Stored(word) ELSE Ends("refused")

\* The settings that are numbers, and the texts some layer gives for them.
Numbers == {"server.port", "memcache.port", "local_discovery.interval"}
InTokens(texts) ==
    \A key \in Numbers \cap DOMAIN texts : texts[key] = NotScalar \/ IsTokens(texts[key])

Parse(key, text) ==
    CASE text = NotScalar -> Ends("thrown")
      [] text # NotScalar /\ key = "logging.level" -> parse_log_level(text)
      [] text # NotScalar /\ key = "server.id" -> parse_hex_uint64(text)
      [] text # NotScalar /\ key \in {"server.ip4_address", "memcache.ip4_address"} ->
            parse_ipv4(text)
      [] text # NotScalar /\ key \in {"server.port", "memcache.port"} ->
            parse_uint16(text)
      [] text # NotScalar /\ key = "local_discovery.interval" -> parse_duration(text)
      [] OTHER -> parse_bool(text)

-----------------------------------------------------------------------------
(* Loading.  A load goes through the settings in an order of its own; one   *)
(* that is refused does not keep the next ones from being read and stored,  *)
(* an exception does.                                                       *)

\* (Mutant of Take: the last parser's answer is the answer.)
TakeLastAnswer(load, key, result) ==
    [settings |-> IF result.end = "stored" THEN [load.settings EXCEPT ![key] = result.value]
                  ELSE load.settings,
     ok |-> result.end \in {"stored", "ignored"},
     thrown |-> result.end = "thrown"]

\* ok &= parse(..., &setting)
Take(load, key, result) ==
    [settings |-> IF result.end = "stored" THEN [load.settings EXCEPT ![key] = result.value]
                  ELSE load.settings,
     ok |-> load.ok /\ result.end \in {"stored", "ignored"},
     thrown |-> result.end = "thrown"]

\* Goes on to a setting, if nothing was thrown and there is a result for it.
Turn(load, key, results) ==
    IF load.thrown \/ key \notin DOMAIN results THEN load
    ELSE Take(load, key, results[key])

TakeAllOf(settings, order, results) ==
    LET load[i \in 0 .. Len(order)] ==
            IF i = 0 THEN [settings |-> settings, ok |-> TRUE, thrown |-> FALSE]
            ELSE Turn(load[i - 1], order[i], results)
    IN  load[Len(order)]

Loaded(load) == [settings |-> load.settings, answer |-> load.ok /\ ~load.thrown]

YamlOrder ==
    <<"logging.level", "logging.disable_splash", "server.id", "server.ip4_address",
      "server.port", "local_discovery.enable", "local_discovery.interval",
      "memcache.enable", "memcache.port">>

\* load_yaml.  file: a text for each setting it gives.
load_yaml(settings, file) ==
    IF file = Unreadable THEN [settings |-> settings, answer |-> FALSE]
    ELSE Loaded(TakeAllOf(settings, YamlOrder,
                          [key \in DOMAIN file |-> Parse(key, file[key])]))

\* The options declared to boost::program_options, --help apart.
Declared ==
    {"server.id", "server.ip4_address", "server.port", "local_discovery.enable",
     "logging.level", "logging.disable_splash"}

CmdLineOrder ==
    <<"logging.level", "logging.disable_splash", "server.id", "server.ip4_address",
      "server.port", "local_discovery.enable", "local_discovery.interval",
      "memcache.enable", "memcache.ip4_address", "memcache.port">>

\* (Mutant of ParseOption: the port is declared as a string.)
ParsePortOption(key, text) == Parse(key, text)

\* The port is declared as a number and asked for as a string.
ParseOption(key, text) ==
    IF key = "server.port" THEN Ends("thrown") ELSE Parse(key, text)

IsPort(text) == Len(text) = 1 /\ text[1][1] = "digits" /\ text[1][2] <= 65535

\* parse_command_line and store take the line as a whole, or throw; and --help
\* is answered and ends the program.
CmdLineStored(line) ==
    /\ DOMAIN line \subseteq Declared
    /\ "server.port" \in DOMAIN line => IsPort(line["server.port"])

\* load_cmd_line.  line: a text for each option it gives.
load_cmd_line(settings, line) ==
    IF ~CmdLineStored(line) THEN [settings |-> settings, answer |-> FALSE]
    ELSE Loaded(TakeAllOf(settings, CmdLineOrder,
                          [key \in DOMAIN line |-> ParseOption(key, line[key])]))

-----------------------------------------------------------------------------
(* For the properties: what config.example.yaml and the error messages say a  *)
(* text means, not how it is read.                                            *)

\* [d]h[d]m[d]s where [d] is an integer; any of the three, in any order.
Units == {Char("h"), Char("m"), Char("s")}
IsDuration(text) ==
    /\ Len(text) % 2 = 0
    /\ \A i \in DOMAIN text :
          IF i % 2 = 1 THEN text[i][1] = "digits" ELSE text[i] \in Units

\* The number with the i-th token, a unit, behind it; and all of them.
Worth(text, i) ==
    IF i > 1 /\ text[i - 1][1] = "digits" /\ text[i] \in Units
    THEN text[i - 1][2] * UnitLength(text[i])
    ELSE 0
Total(text) ==
    LET sum[i \in 0 .. Len(text)] == IF i = 0 THEN 0 ELSE sum[i - 1] + Worth(text, i)
    IN  sum[Len(text)]

Fits(n) == 0 <= n + (Range32 \div 2) /\ n < Range32 \div 2

\* A text in the form that is asked for, and what it means.
AsAsked(key, text) ==
    CASE text = NotScalar -> FALSE
      [] text # NotScalar /\ key = "logging.level" ->
            text \in {"error", "warn", "warning", "info", "debug"}
      [] text # NotScalar /\ key = "server.id" -> text.length = 16 /\ text.hex
      [] text # NotScalar /\ key \in {"server.ip4_address", "memcache.ip4_address"} ->
            text \in Ipv4
      [] text # NotScalar /\ key \in {"server.port", "memcache.port"} ->
            IsPort(text)
      [] text # NotScalar /\ key = "local_discovery.interval" ->
            IsDuration(text) /\ Fits(Total(text))
      [] OTHER -> text \in {"true", "t", "yes", "false", "f", "no"}

Meaning(key, text) ==
    CASE key = "logging.level" ->
            CHOOSE n \in 0 .. 3 :
                text \in <<{"error"}, {"warn", "warning"}, {"info"}, {"debug"}>>[n + 1]
      [] key = "server.id" -> text.number
      [] key \in {"server.ip4_address", "memcache.ip4_address"} -> text
      [] key \in {"server.port", "memcache.port"} -> text[1][2]
      [] key = "local_discovery.interval" -> Total(text)
      [] OTHER -> text \in {"true", "t", "yes"}
=============================================================================
