------------------------------ MODULE MCKapuad ------------------------------
(* A small instance of Kapuad for TLC.                                     *)
EXTENDS Kapuad

Nothing == [key \in {} |-> Unset]
Only(key, text) == [k \in {key} |-> text]

Tokens ==
    {Digits(5), Digits(600), TooManyDigits,
     Char("h"), Char("m"), Char("s"), Char("-"), Char(" "), Char("x")}
Texts(n) ==
    {q \in [1 .. n -> Tokens] :
        \A i \in 1 .. n - 1 : ~(IsDigits(q[i]) /\ IsDigits(q[i + 1]))}
Durations ==
    Texts(0) \cup Texts(1) \cup Texts(2) \cup Texts(3)
    \cup {<<Digits(600), Char("h"), Digits(600), Char("h")>>,
          <<Digits(20), Char("h"), Digits(5), Char("m"), Digits(30), Char("s")>>,
          <<Digits(5), Char("s"), Digits(5), Char("m"), Digits(5)>>}
Ports ==
    {<<Digits(0)>>, <<Digits(11841)>>, <<Digits(65535)>>, <<Digits(65536)>>,
     <<Digits(77377)>>, <<Char("-"), Digits(1)>>, <<Digits(80), Char("x")>>,
     <<Char("x")>>, <<TooManyDigits>>, <<Char("x"), Digits(80)>>}

\* A file or a line that names one setting.
Single ==
    {Only("local_discovery.interval", text) : text \in Durations}
    \cup {Only(key, text) : key \in {"server.port", "memcache.port"}, text \in Ports}
    \cup {Only(key, text) : key \in {"logging.disable_splash", "local_discovery.enable",
                                     "memcache.enable"},
                            text \in {"yes", "f", "maybe"}}
    \cup {Only("logging.level", text) : text \in {"error", "warning", "loud"}}
    \cup {Only("server.ip4_address", text) : text \in {"10.0.0.1", "10.0.0"}}
    \cup {Only("memcache.ip4_address", "10.0.0.1")}
    \cup {Only("server.id", [prefix |-> p, length |-> n, hex |-> h, number |-> 7]) :
             p \in BOOLEAN, n \in {16, 18}, h \in BOOLEAN}

\* Files that name several, the first or the last of them in bad form.
Several ==
    {Only("logging.disable_splash", a) @@ Only("local_discovery.enable", b)
       @@ Only("memcache.port", <<Digits(11211)>>) :
         a \in {"t", "maybe", NotScalar}, b \in {"no", "maybe"}}
    \cup {Only("local_discovery.interval", <<Char("x"), Digits(5), Char("m")>>)
            @@ Only("memcache.enable", "yes")}

Files == {Unreadable, Nothing} \cup Single \cup Several
Lines == {Nothing, Only("help", "")} \cup Several
         \cup (Single \ {Only("local_discovery.interval", text) : text \in Durations})
         \cup {Only("local_discovery.interval", <<Digits(5), Char("m")>>)}

\* A file alone, a line alone, and a line that meets a file which names much.
Much ==
    [key \in Setting \ {"memcache.ip4_address", "server.id"} |->
        CASE key = "logging.level" -> "debug"
          [] key = "server.ip4_address" -> "10.0.0.2"
          [] key = "server.port" -> <<Digits(11842)>>
          [] key = "memcache.port" -> <<Digits(11211)>>
          [] key = "local_discovery.interval" -> <<Digits(20), Char("h")>>
          [] OTHER -> "true"]
Launches ==
    [yaml : Files, line : {Nothing}] \cup [yaml : {Nothing, Much}, line : Lines]
=============================================================================
