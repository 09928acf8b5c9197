------------------------------- MODULE Validation ------------------------------
(***************************************************************************)
(* The configuration, its defaults and its validation (config/config.go,   *)
(* config/validation.go).  Checks between which nothing happens are one    *)
(* conjunction: which of them fails first decides the wording of the error.*)
(*                                                                         *)
(* External, as functions of texts: url.Parse, time.ParseDuration,         *)
(* filepath.Clean, and what the file system and the certificate parser say *)
(* of the files named in the configuration.                                *)
(***************************************************************************)
EXTENDS Expansion, Integers

CONSTANTS
    ParseURL,        \* the texts that are URLs, with their parts
    ParseDuration,   \* the texts that are durations, with their values
    CleanPath,       \* the texts with filepath.Clean(t) = t
    Program,         \* the paths of regular executable files
    Directory,       \* the paths of directories
    Certificates,    \* the paths of files with CA certificates
    KeyPair,         \* the pairs of paths of a certificate and its private key
    ServerName       \* the texts validTLSServerName accepts

\* What applyDefaults inserts.
ASSUME DefaultAssumption ==
    {"/", "homeassistant", "discovery-state.json", "mqtt-raspberry-controller", "gpiochip0",
     "disabled"} \subseteq Char
\* time.ParseDuration refuses the empty text.
ASSUME DurationAssumption ==
    << >> \notin DOMAIN ParseDuration /\ \A t \in DOMAIN ParseDuration : ParseDuration[t] \in Int

\* The texts of the sections mqtt and device.
Field ==
    {"broker", "username", "password", "password_file", "ca_file", "cert_file", "key_file",
     "server_name", "min_version", "client_id", "base_topic", "keep_alive", "connect_timeout",
     "prefix", "state_file", "device_id", "device_name", "manufacturer", "model"}

EntityField ==
    {"id", "type", "name", "icon", "device_class", "state_type", "state_gpio",
     "source_type", "source_gpio"}

ActionField == {"type", "gpio", "command", "working_dir", "timeout", "duration", "topic", "payload"}

\* A pointer to a byte or a boolean that is not in the file.
Unset == -1

OutputConfig == [chip : Text, line : Int]
InputConfig == [chip : Text, line : Int, bias : Text, debounce : Text]

\* An action has texts, args, env (a map), value (0, 1 or Unset) and qos; an
\* entity has texts and the lists on, off and press; the configuration has the
\* text of each Field, the maps outputs and inputs, and the list of entities.
IsAction(a) ==
    /\ a = [text |-> a.text, args |-> a.args, env |-> a.env, value |-> a.value, qos |-> a.qos]
    /\ a.text \in [ActionField -> Text]
    /\ a.args \in Seq(Text)
    /\ \A n \in DOMAIN a.env : n \in Text /\ a.env[n] \in Text
    /\ a.value \in {Unset, 0, 1} /\ a.qos \in Int
IsEntity(e) ==
    /\ e = [text |-> e.text, on |-> e.on, off |-> e.off, press |-> e.press]
    /\ e.text \in [EntityField -> Text]
    /\ \A list \in {e.on, e.off, e.press} : \A i \in DOMAIN list : IsAction(list[i])
IsConfig(c) ==
    /\ c = [text |-> c.text, unauthenticated |-> c.unauthenticated, insecure |-> c.insecure,
            qos |-> c.qos, discovery |-> c.discovery, outputs |-> c.outputs,
            inputs |-> c.inputs, entities |-> c.entities]
    /\ c.text \in [Field -> Text]
    /\ <<c.unauthenticated, c.insecure>> \in BOOLEAN \X BOOLEAN
    /\ c.qos \in Int /\ c.discovery \in {Unset, 0, 1}
    /\ \A n \in DOMAIN c.outputs : n \in Text /\ c.outputs[n] \in OutputConfig
    /\ \A n \in DOMAIN c.inputs : n \in Text /\ c.inputs[n] \in InputConfig
    /\ \A i \in DOMAIN c.entities : IsEntity(c.entities[i])

-----------------------------------------------------------------------------
(* expandEnvironment *)

ActionMissing(a, env) ==
    MissingIn(a.text, env) \/ MissingIn(a.args, env) \/ MissingIn(a.env, env)

ExpandAction(a, env) ==
    [a EXCEPT !.text = ExpandEach(@, env), !.args = ExpandEach(@, env), !.env = ExpandEach(@, env)]

ListMissing(list, env) == \E i \in DOMAIN list : ActionMissing(list[i], env)
ExpandList(list, env) == [i \in DOMAIN list |-> ExpandAction(list[i], env)]

\* Some field refers to a variable that is not set.
EnvironmentMissing(c, env) ==
    \/ MissingIn(c.text, env)
    \/ \E n \in DOMAIN c.outputs : Expand(c.outputs[n].chip, env).missing
    \/ \E n \in DOMAIN c.inputs : \E f \in {"chip", "bias", "debounce"} :
          Expand(c.inputs[n][f], env).missing
    \/ \E i \in DOMAIN c.entities : LET e == c.entities[i] IN
          MissingIn(e.text, env) \/ \E list \in {e.on, e.off, e.press} : ListMissing(list, env)

ExpandOutput(o, env) == [o EXCEPT !.chip = Expand(@, env).text]

ExpandInput(i, env) ==
    [i EXCEPT !.chip = Expand(@, env).text, !.bias = Expand(@, env).text,
              !.debounce = Expand(@, env).text]

ExpandEntity(e, env) ==
    [e EXCEPT !.text = ExpandEach(@, env), !.on = ExpandList(@, env),
              !.off = ExpandList(@, env), !.press = ExpandList(@, env)]

\* Keys of maps and names of variables for commands are not expanded.
ExpandEnvironment(c, env) ==
    [c EXCEPT
        !.text = ExpandEach(@, env),
        !.outputs = [n \in DOMAIN @ |-> ExpandOutput(@[n], env)],
        !.inputs = [n \in DOMAIN @ |-> ExpandInput(@[n], env)],
        !.entities = [i \in DOMAIN @ |-> ExpandEntity(@[i], env)]]

-----------------------------------------------------------------------------
(* applyDefaults *)

Or(text, default) == IF text = << >> THEN default ELSE text

\* strings.Trim(text, "/")
TrimSlashes(text) ==
    LET kept == {i \in DOMAIN text : text[i] # "/"}
    IN  IF kept = {} THEN << >> ELSE SubSeq(text, Min(kept), Max(kept))

DefaultTexts(text) ==
    [text EXCEPT
        !["client_id"] = Or(@, text["device_id"]),
        !["base_topic"] = TrimSlashes(Or(@, text["device_id"])),
        !["prefix"] = TrimSlashes(Or(@, <<"homeassistant">>)),
        !["state_file"] = Or(@, <<"/", "discovery-state.json">>),
        !["manufacturer"] = Or(@, <<"mqtt-raspberry-controller">>),
        !["model"] = Or(@, <<"mqtt-raspberry-controller">>)]

DefaultOutput(o) == [o EXCEPT !.chip = Or(@, <<"gpiochip0">>)]
DefaultInput(i) == [i EXCEPT !.chip = Or(@, <<"gpiochip0">>), !.bias = Or(@, <<"disabled">>)]

ApplyDefaults(c) ==
    [c EXCEPT
        !.text = DefaultTexts(@),
        !.outputs = [n \in DOMAIN @ |-> DefaultOutput(@[n])],
        !.inputs = [n \in DOMAIN @ |-> DefaultInput(@[n])]]

MQTTQoS(c) == IF c.qos = Unset THEN 1 ELSE c.qos
DiscoveryEnabled(c) == c.discovery # 0

\* MQTTKeepAlive, MQTTConnectTimeout, CommandTimeout: the default stands in for
\* a text that is empty or no duration.
DurationOr(text, default) ==
    IF text \in DOMAIN ParseDuration THEN ParseDuration[text] ELSE default

-----------------------------------------------------------------------------
(* Validate: mqtt and device *)

IsID(text) ==
    /\ text # << >> /\ text[1] \notin {"_", "-"}
    /\ \A i \in DOMAIN text : text[i] \in Lower \cup Digit \cup {"_", "-"}

Blank(text) == \A i \in DOMAIN text : text[i] = " "
Contains(text, chars) == \E i \in DOMAIN text : text[i] \in chars
IsAbs(text) == text # << >> /\ text[1] = "/"
PositiveDuration(text) == text \in DOMAIN ParseDuration /\ ParseDuration[text] > 0

\* validateTopicPrefix
TopicPrefix(text) == text # << >> /\ ~Contains(text, {"+", "#"})

Secure == {"ssl", "tls", "mqtts", "mqtt+ssl", "tcps", "wss"}
Plain == {"mqtt", "tcp", "ws"}

\* A URL is a record of user and query (whether it has them), scheme (in lower
\* case), host ("none", "loopback", "remote"), port (Unset if there is none) and
\* path ("none", "clean" or "unsafe").
ValidBroker(c) ==
    LET text == c.text["broker"]
        u == ParseURL[text]
    IN  /\ ~Blank(text) /\ text \in DOMAIN ParseURL
        /\ ~u.user /\ ~u.query
        /\ \/ u.scheme = "unix" /\ u.host = "none" /\ u.port = Unset /\ u.path = "clean"
           \/ /\ u.scheme \in Secure \cup Plain
              /\ u.host # "none" /\ 1 <= u.port /\ u.port <= 65535
              /\ u.path = "none" \/ (u.scheme \in {"ws", "wss"} /\ u.path = "clean")
              /\ u.scheme \in Secure \/ c.insecure \/ u.host = "loopback"

IsSecure(c) == ParseURL[c.text["broker"]].scheme \in Secure
Given(c, field) == c.text[field] # << >>
HasPassword(c) == Given(c, "password") \/ Given(c, "password_file")
HasCert(c) == Given(c, "cert_file") \/ Given(c, "key_file")

\* Credentials are complete, unambiguous and, like every TLS option, used.
ValidAuthentication(c) ==
    /\ ~(Given(c, "password") /\ Given(c, "password_file"))
    /\ Given(c, "username") <=> HasPassword(c)
    /\ Given(c, "cert_file") <=> Given(c, "key_file")
    /\ \A option \in {"ca_file", "cert_file", "key_file", "server_name", "min_version"} :
          Given(c, option) => IsSecure(c)
    /\ c.unauthenticated <=> ~(HasPassword(c) \/ HasCert(c))

\* MQTTTLSConfig
ValidTLS(c) ==
    /\ c.text["min_version"] \in {<< >>, <<"1.2">>, <<"1.3">>}
    /\ Given(c, "server_name") => c.text["server_name"] \in ServerName
    /\ Given(c, "ca_file") => c.text["ca_file"] \in Certificates
    /\ Given(c, "cert_file") => <<c.text["cert_file"], c.text["key_file"]>> \in KeyPair

ValidDevice(c) ==
    /\ IsID(c.text["device_id"]) /\ ~Blank(c.text["device_name"])
    /\ Given(c, "client_id")
    /\ TopicPrefix(c.text["base_topic"])
    /\ DiscoveryEnabled(c) => TopicPrefix(c.text["prefix"])
    /\ Given(c, "state_file") =>
          /\ ~Contains(c.text["state_file"], {"NUL"})
          /\ IsAbs(c.text["state_file"]) /\ c.text["state_file"] \in CleanPath
    /\ MQTTQoS(c) \in 0..2
    /\ \A t \in {"keep_alive", "connect_timeout"} : Given(c, t) => PositiveDuration(c.text[t])

-----------------------------------------------------------------------------
(* Validate: gpio *)

\* Every declared line with the key under which validateGPIO records it.
Declared(c) == ({"output"} \X DOMAIN c.outputs) \cup ({"input"} \X DOMAIN c.inputs)
LineOf(c, d) == IF d[1] = "output" THEN c.outputs[d[2]] ELSE c.inputs[d[2]]
Key(c, d) == <<LineOf(c, d).chip, LineOf(c, d).line>>

\* Mutant of Distinct: outputs and inputs are recorded separately.
DistinctByKind(c) ==
    \A d, e \in Declared(c) : d # e /\ d[1] = e[1] => Key(c, d) # Key(c, e)

\* No line is declared twice.
Distinct(c) == \A d, e \in Declared(c) : d # e => Key(c, d) # Key(c, e)

ValidGPIO(c) ==
    /\ \A d \in Declared(c) : IsID(d[2]) /\ LineOf(c, d).line >= 0
    /\ \A n \in DOMAIN c.inputs :
          /\ c.inputs[n].bias \in {<<"disabled">>, <<"pull_up">>, <<"pull_down">>}
          /\ c.inputs[n].debounce # << >> => PositiveDuration(c.inputs[n].debounce)
    /\ Distinct(c)

-----------------------------------------------------------------------------
(* Validate: entities and actions *)

\* validateCommandAction
ValidCommand(a) ==
    /\ ~Blank(a.text["command"]) /\ ~Contains(a.text["command"], {"NUL"})
    /\ IsAbs(a.text["command"]) /\ a.text["command"] \in Program
    /\ \A i \in DOMAIN a.args : ~Contains(a.args[i], {"NUL"})
    /\ a.text["working_dir"] # << >> =>
          /\ ~Contains(a.text["working_dir"], {"NUL"})
          /\ IsAbs(a.text["working_dir"]) /\ a.text["working_dir"] \in Directory
    /\ \A n \in DOMAIN a.env : ValidEnvironmentName(n) /\ ~Contains(a.env[n], {"NUL"})

ValidAction(c, a) ==
    \/ /\ a.text["type"] = <<"gpio">>
       /\ a.text["gpio"] \in DOMAIN c.outputs /\ a.value # Unset
    \/ /\ a.text["type"] = <<"command">>
       /\ ValidCommand(a)
       /\ a.text["timeout"] # << >> => PositiveDuration(a.text["timeout"])
    \/ /\ a.text["type"] = <<"delay">>
       /\ PositiveDuration(a.text["duration"])
    \/ /\ a.text["type"] = <<"mqtt">>
       /\ ~Blank(a.text["topic"]) /\ TopicPrefix(a.text["topic"])
       /\ a.qos = Unset \/ a.qos \in 0..2

ValidActions(c, list) == list # << >> /\ \A i \in DOMAIN list : ValidAction(c, list[i])

\* validateSwitch, validateButton, validateBinarySensor
ValidEntity(c, e) ==
    /\ IsID(e.text["id"]) /\ ~Blank(e.text["name"])
    /\ \/ /\ e.text["type"] = <<"switch">>
          /\ \/ e.text["state_type"] = <<"memory">> /\ e.text["state_gpio"] = << >>
             \/ e.text["state_type"] = <<"gpio">> /\ e.text["state_gpio"] \in DOMAIN c.outputs
          /\ ValidActions(c, e.on) /\ ValidActions(c, e.off)
       \/ e.text["type"] = <<"button">> /\ ValidActions(c, e.press)
       \/ /\ e.text["type"] = <<"binary_sensor">>
          /\ e.text["source_type"] = <<"gpio">> /\ e.text["source_gpio"] \in DOMAIN c.inputs

ValidEntities(c) ==
    /\ c.entities # << >>
    /\ \A i \in DOMAIN c.entities : ValidEntity(c, c.entities[i])
    /\ \A i, j \in DOMAIN c.entities :
          i # j => c.entities[i].text["id"] # c.entities[j].text["id"]

\* Validate reads the password file between these two.
ValidMQTT(c) == ValidBroker(c) /\ ValidAuthentication(c)
ValidRest(c) ==
    (IsSecure(c) => ValidTLS(c)) /\ ValidDevice(c) /\ ValidGPIO(c) /\ ValidEntities(c)
=============================================================================
