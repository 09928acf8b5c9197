---------------------------- MODULE MCConfiguration ----------------------------
(***************************************************************************)
(* Instances of Configuration: a sound configuration with a GPIO switch, a *)
(* button and a sensor, and the families of configurations that differ     *)
(* from it in the lines and what refers to them, in the broker and the     *)
(* credentials, in the actions, or in one text.                            *)
(***************************************************************************)
EXTENDS Configuration, TLC

CONSTANTS i1, i2   \* files

MCChar == STRING

A == <<"A">>
RefA == <<"$", "{", "A", "}">>
Chip == <<"gpiochip0">>
Alias == <<"/", "dev", "/", "gpiochip0">>
Blanks == <<" ">>

MCEnvironments ==
    {<< >>} \cup {A :> v : v \in {<<"$">>, <<"}">>, <<"{", "A", "}">>, RefA, Chip}}

URL(scheme, host, port, p) ==
    [user |-> FALSE, query |-> FALSE, scheme |-> scheme, host |-> host, port |-> port, path |-> p]

MCParseURL ==
    <<"tcp://localhost:1883">> :> URL("tcp", "loopback", 1883, "none") @@
    <<"tcp://host:1883">> :> URL("tcp", "remote", 1883, "none") @@
    <<"tcp://host">> :> URL("tcp", "remote", Unset, "none") @@
    <<"tcp://host:0">> :> URL("tcp", "remote", 0, "none") @@
    <<"tcp://host:1883/x">> :> URL("tcp", "remote", 1883, "clean") @@
    <<"ssl://host:8883">> :> URL("ssl", "remote", 8883, "none") @@
    <<"wss://host:443/x">> :> URL("wss", "remote", 443, "clean") @@
    <<"wss://host:443/../x">> :> URL("wss", "remote", 443, "unsafe") @@
    <<"unix:///socket">> :> URL("unix", "none", Unset, "clean") @@
    <<"unix://host/socket">> :> URL("unix", "remote", Unset, "clean") @@
    <<"http://host:80">> :> URL("http", "remote", 80, "none") @@
    <<"ssl://user@host:8883">> :> [URL("ssl", "remote", 8883, "none") EXCEPT !.user = TRUE]

MCParseDuration == <<"1s">> :> 1 @@ <<"0s">> :> 0 @@ <<"-", "1s">> :> -1

State == <<"/", "discovery-state.json">>
MCCleanPath == {State, <<"/", "state">>}
MCProgram == {<<"/", "program">>, <<"program">>}
MCDirectory == {<<"/">>}
MCCertificates == {<<"ca.pem">>}
MCKeyPair == {<<<<"cert.pem">>, <<"key.pem">>>>}
MCServerName == {<<"host">>}
\* Two chips, one with two names; other names stand for nothing.
MCDevice == Chip :> "chip0" @@ Alias :> "chip0" @@ <<"gpiochip1">> :> "chip1"
MCLines == [chip0 |-> 3, chip1 |-> 2]
MCContents == {<<"\n">>, <<"x", "\n">>, <<"x", "\r", "\n">>}
Inodes == Permutations({i1, i2})

-----------------------------------------------------------------------------
NoAction ==
    [text |-> [f \in ActionField |-> << >>], args |-> << >>, env |-> << >>,
     value |-> Unset, qos |-> Unset]
Action(type) == [NoAction EXCEPT !.text["type"] = type]
Set(name, v) == [Action(<<"gpio">>) EXCEPT !.text["gpio"] = name, !.value = v]
Command(p, timeout) ==
    [Action(<<"command">>) EXCEPT !.text["command"] = p, !.text["timeout"] = timeout]
Delay(t) == [Action(<<"delay">>) EXCEPT !.text["duration"] = t]
Publish(topic, q) == [Action(<<"mqtt">>) EXCEPT !.text["topic"] = topic, !.qos = q]

Entity(id, type) ==
    [text |-> [f \in EntityField |-> CASE f = "id" -> id [] f = "type" -> type
                                       [] f = "name" -> <<"N">> [] OTHER -> << >>],
     on |-> << >>, off |-> << >>, press |-> << >>]
Switch(id, state, name, on) ==
    [Entity(id, <<"switch">>) EXCEPT !.text["state_type"] = state, !.text["state_gpio"] = name,
                                     !.on = <<on>>, !.off = <<Set(<<"o">>, 0)>>]
Button(id, list) == [Entity(id, <<"button">>) EXCEPT !.press = list]
Sensor(id, name) ==
    [Entity(id, <<"binary_sensor">>) EXCEPT !.text["source_type"] = <<"gpio">>,
                                            !.text["source_gpio"] = name]

Output(chip, line) == [chip |-> chip, line |-> line]
Input(chip, line) == [chip |-> chip, line |-> line, bias |-> << >>, debounce |-> << >>]

GpioSwitch == Switch(<<"s">>, <<"gpio">>, <<"o">>, Set(<<"o">>, 1))
Bell == Button(<<"b">>, <<Command(<<"/", "program">>, << >>), Delay(<<"1s">>), Publish(<<"t">>, 2)>>)
Door == Sensor(<<"d">>, <<"i">>)

Sound ==
    [text |-> [f \in Field |-> CASE f = "broker" -> <<"tcp://localhost:1883">>
                                 [] f = "device_id" -> <<"d">>
                                 [] f = "device_name" -> <<"N">>
                                 [] OTHER -> << >>],
     unauthenticated |-> TRUE, insecure |-> FALSE, qos |-> Unset, discovery |-> Unset,
     outputs |-> <<"o">> :> Output(<< >>, 1), inputs |-> <<"i">> :> Input(<< >>, 2),
     entities |-> <<GpioSwitch, Bell, Door>>]

-----------------------------------------------------------------------------
\* Lines: the same one twice, by default, through a variable or under the other
\* name of its chip; a chip and an offset that do not exist; keys that are no
\* identifiers; a switch and a sensor that refer to outputs and inputs.
LineChoices == ({<< >>, Chip, Alias, <<"gpiochip1">>, RefA} \X {-1, 1}) \cup {<<Chip, 3>>, <<Alias, 2>>}
LineFamily ==
    {[Sound EXCEPT !.outputs = <<"o">> :> Output(<< >>, 1) @@ k :> Output(l[1], l[2]),
                   !.inputs = <<"i">> :> Input(m[1], m[2]),
                   !.entities = <<Switch(<<"s">>, <<"gpio">>, s, Set(a, 1)), Door>>]
        : k \in {<<"p">>, <<"o", "o">>}, l \in LineChoices, m \in LineChoices, s \in {<<"o">>, <<"p">>},
          a \in {<<"p">>, <<"i">>}}

InputFamily ==
    {[Sound EXCEPT !.inputs = <<"i">> :> [chip |-> << >>, line |-> 2, bias |-> b, debounce |-> t]]
        : b \in {<< >>, <<"pull_up">>, <<"up">>}, t \in {<< >>, <<"1s">>, <<"0s">>, <<"1">>}}

\* Entities with equal identifiers, of every type.
EntityFamily ==
    {[Sound EXCEPT !.entities = es] : es \in
        {<< >>} \cup
        ({Switch(id, st, n, Set(<<"o">>, v)) :
              id \in {<<"s">>, <<"-">>}, st \in {<< >>, <<"memory">>, <<"gpio">>},
              n \in {<< >>, <<"o">>, <<"i">>}, v \in {0, Unset}}
         \X {Button(<<"s">>, << >>), Button(<<"s">>, <<Delay(<<"1s">>)>>), Bell, Entity(<<"e">>, <<"fan">>),
             Entity(<<"b">>, <<"switch">>), Entity(<<"b">>, <<"binary_sensor">>)}
         \X {Door, Sensor(<<"s">>, <<"i">>), Sensor(<<"d">>, <<"o">>)})}

ActionFamily ==
    {[Sound EXCEPT !.entities = <<Button(<<"b">>, <<a>>)>>, !.qos = q] : q \in {Unset, 0, 3}, a \in
        {Action(<<"fan">>), Set(<< >>, 1), Set(<<"i">>, 1), Set(RefA, 1),
         Command(<<"program">>, << >>), Command(<<"/", "x">>, << >>), Command(Blanks, << >>),
         [Command(<<"/", "program">>, << >>) EXCEPT !.args = <<<<"NUL">>>>],
         [Command(<<"/", "program">>, << >>) EXCEPT !.args = <<RefA>>, !.env = A :> RefA],
         [Command(<<"/", "program">>, << >>) EXCEPT !.env = <<"1">> :> << >>],
         [Command(<<"/", "program">>, << >>) EXCEPT !.text["working_dir"] = <<"/", "x">>],
         [Command(<<"/", "program">>, << >>) EXCEPT !.text["working_dir"] = <<"/">>]}
        \cup {Command(<<"/", "program">>, t) : t \in {<<"1s">>, <<"0s">>, <<"1">>}}
        \cup {Delay(t) : t \in {<< >>, <<"1s">>, <<"0s">>, <<"-", "1s">>, <<"1">>}}
        \cup {Publish(t, k) : t \in {<< >>, Blanks, <<"t">>, <<"t", "#">>, RefA}, k \in {Unset, 0, 3}}}

\* Brokers and credentials.
BrokerFamily ==
    {[Sound EXCEPT !.unauthenticated = u, !.insecure = n,
                   !.text["broker"] = b, !.text["username"] = c[1], !.text["password"] = c[2],
                   !.text["cert_file"] = k[1], !.text["key_file"] = k[2]]
        : u \in BOOLEAN, n \in BOOLEAN, b \in DOMAIN MCParseURL \cup {Blanks, <<"%">>},
          c \in {<<<< >>, << >>>>, <<<<"u">>, << >>>>, <<<<"u">>, <<"p">>>>},
          k \in {<<<< >>, << >>>>, <<<<"cert.pem">>, << >>>>, <<<<"cert.pem">>, <<"key.pem">>>>}}

TLSFamily ==
    {[Sound EXCEPT !.text["broker"] = b, !.text["ca_file"] = a, !.text["min_version"] = v,
                   !.text["server_name"] = s]
        : b \in {<<"ssl://host:8883">>, <<"tcp://localhost:1883">>},
          a \in {<< >>, <<"ca.pem">>, <<"x">>}, v \in {<< >>, <<"1.2">>, <<"1.3">>, <<"1.1">>},
          s \in {<< >>, <<"host">>, <<"/">>}}

PasswordFile ==
    [Sound EXCEPT !.unauthenticated = FALSE, !.text["username"] = <<"u">>,
                  !.text["password_file"] = <<"/", "password">>]
BothPasswords == [PasswordFile EXCEPT !.text["password"] = <<"p">>]

\* One text.
FieldFamily ==
    {[Sound EXCEPT !.text[f] = t] :
        f \in {"device_id", "device_name", "client_id", "base_topic", "prefix", "state_file",
               "keep_alive", "connect_timeout"},
        t \in {<< >>, Blanks, <<"/">>, <<"/", "t", "/">>, <<"#">>, <<"t", "+">>, <<"/", "state">>,
               <<"/", "NUL">>, <<"1s">>, <<"0s">>, RefA}}
    \cup {[Sound EXCEPT !.discovery = 0, !.text["prefix"] = <<"#">>]}

\* Texts of up to four parts, with references and everything that resembles one.
Parts == {<<"$">>, <<"{">>, <<"A">>, <<"}">>, RefA}
Texts == {<< >>} \cup Parts \cup {p \o q : p, q \in Parts} \cup
         {p \o q \o r : p, q, r \in Parts} \cup {p \o q \o r \o s : p, q, r, s \in Parts}
TextFamily == {[Sound EXCEPT !.text["device_name"] = t] : t \in Texts}

MCInputs ==
    ((LineFamily \cup InputFamily \cup EntityFamily \cup ActionFamily \cup FieldFamily \cup TextFamily)
        \X MCEnvironments)
    \cup ((BrokerFamily \cup TLSFamily \cup {PasswordFile, BothPasswords}) \X {<< >>})
=============================================================================
