----------------------------- MODULE Configuration -----------------------------
(***************************************************************************)
(* From the decoded file to the running daemon: load (config/config.go),   *)
(* New of the MQTT client with the reading of the password file, and what  *)
(* run() and the components then do with the configuration.  A fault is an *)
(* error that the configuration causes on this machine.                    *)
(*                                                                         *)
(* While the password file is read, others may put another file in its     *)
(* place, change its mode or write to it.                                  *)
(***************************************************************************)
EXTENDS Validation

CONSTANTS
    Inputs,                 \* decoded configurations with environments of the process
    Inode,                  \* files that may be at the path of the password file
    NoInode,                \* no file is there, or is open
    Contents,               \* what they may hold at first
    MaxCredentialFileSize,  \* maxCredentialFileSize
    Device,                 \* Device[chip]: the GPIO device a name stands for, if there is one
    Lines,                  \* Lines[device]: how many lines it has
    MaxChanges              \* bound: changes of files

ASSUME InputAssumption ==
    \A in \in Inputs : IsConfig(in[1]) /\ \A v \in DOMAIN in[2] : {v, in[2][v]} \subseteq Text
ASSUME FileAssumption == NoInode \notin Inode /\ Contents \subseteq Text
ASSUME SuffixAssumption == {"set", "press", "x", "\n", "NUL"} \subseteq Char
ASSUME SizeAssumption == MaxCredentialFileSize \in Nat /\ MaxChanges \in Nat
\* A device may have several names, such as gpiochip0 and /dev/gpiochip0.
ASSUME DeviceAssumption == \A chip \in DOMAIN Device : Lines[Device[chip]] \in Nat

VARIABLES
    raw, env,    \* the decoded file and the environment
    cfg,         \* the configuration
    stage,       \* where load, New and run() are
    step,        \* where readBoundedRegularFile is
    path,        \* the inode the path of the password file leads to
    file,        \* file[i]: content of the inode, whether regular, whether private
    handle,      \* the inode that is open
    vetted,      \* history: the inode that was found regular and private
    password,    \* what SetPassword was given
    open,        \* declared lines that are open
    topics,      \* subscribed topics
    fault,
    changes

input == <<raw, env>>
files == <<path, file, changes>>
reading == <<step, handle, vetted, password>>
daemon == <<open, topics, fault>>
vars == <<input, cfg, stage, files, reading, daemon>>

NoPassword == << >>

Init ==
    /\ \E in \in Inputs : raw = in[1] /\ env = in[2]
    /\ cfg = raw /\ stage = "decoded"
    /\ step = "idle" /\ handle = NoInode /\ vetted = NoInode /\ password = NoPassword
    /\ LET named == Given(raw, "password_file") IN
       /\ path \in IF named THEN Inode ELSE {NoInode}
       /\ file \in [Inode -> [bytes : IF named THEN Contents ELSE {<< >>},
                              regular : {TRUE}, private : {TRUE}]]
    /\ open = {} /\ topics = {} /\ fault = FALSE /\ changes = 0

-----------------------------------------------------------------------------
(* load *)

\* A missing variable is an error, and nothing of the configuration is used.
ExpandConfig ==
    /\ stage = "decoded"
    /\ IF EnvironmentMissing(cfg, env)
       THEN stage' = "refused" /\ UNCHANGED cfg
       ELSE stage' = "expanded" /\ cfg' = ExpandEnvironment(cfg, env)
    /\ UNCHANGED <<input, files, reading, daemon>>

Defaults ==
    /\ stage = "expanded"
    /\ cfg' = ApplyDefaults(cfg)
    /\ stage' = "load"
    /\ UNCHANGED <<input, files, reading, daemon>>

\* validateMQTT, with the password file if there is one; load and New validate.
ValidateMQTT ==
    /\ stage \in {"load", "new"} /\ step = "idle"
    /\ IF ~ValidMQTT(cfg) THEN stage' = "refused" /\ UNCHANGED step
       ELSE step' = (IF Given(cfg, "password_file") THEN "open" ELSE "rest") /\ UNCHANGED stage
    /\ UNCHANGED <<input, cfg, files, handle, vetted, password, daemon>>

\* The other checks of Validate.
ValidateRest ==
    /\ step = "rest"
    /\ step' = "idle"
    /\ stage' = (IF ~ValidRest(cfg) THEN "refused" ELSE IF stage = "load" THEN "new" ELSE "client")
    /\ UNCHANGED <<input, cfg, files, handle, vetted, password, daemon>>

\* MQTTPassword for the options of the client.
ClientPassword ==
    /\ stage = "client" /\ step = "idle"
    /\ IF Given(cfg, "password_file")
       THEN step' = "open" /\ UNCHANGED <<stage, password>>
       ELSE stage' = "built" /\ password' = cfg.text["password"] /\ UNCHANGED step
    /\ UNCHANGED <<input, cfg, files, handle, vetted, daemon>>

-----------------------------------------------------------------------------
(* readBoundedRegularFile and MQTTPassword *)

\* Mutant of Refuse: the file is not closed.
RefuseWithoutClose == stage' = "refused" /\ step' = "idle" /\ UNCHANGED handle

\* An error; the file is closed.
Refuse == stage' = "refused" /\ step' = "idle" /\ handle' = NoInode

Open ==
    /\ step = "open"
    /\ IF path = NoInode
       THEN Refuse
       ELSE step' = "stat" /\ handle' = path /\ UNCHANGED stage
    /\ vetted' = NoInode
    /\ UNCHANGED <<input, cfg, files, password, daemon>>

\* Mutant of Examined: os.Stat of the path, if there is a file.
ExaminedPath == IF path = NoInode THEN handle ELSE path

\* f.Stat: the open file is examined, not the path.
Examined == handle

Stat ==
    /\ step = "stat"
    /\ LET f == file[Examined] IN
       IF f.regular /\ f.private /\ Len(f.bytes) <= MaxCredentialFileSize
       THEN step' = "read" /\ vetted' = Examined /\ UNCHANGED <<stage, handle>>
       ELSE Refuse /\ UNCHANGED vetted
    /\ UNCHANGED <<input, cfg, files, password, daemon>>

\* At most one final newline, \n or \r\n, is removed.
Chomp(b) ==
    LET n == Len(b) IN
    IF n = 0 \/ b[n] # "\n" THEN b
    ELSE IF n > 1 /\ b[n - 1] = "\r" THEN SubSeq(b, 1, n - 2) ELSE SubSeq(b, 1, n - 1)

\* io.LimitReader: one byte more than allowed shows that the file has grown.
Limited(b) == SubSeq(b, 1, Min({Len(b), MaxCredentialFileSize + 1}))

\* Whether the length is allowed is checked again after reading.
Acceptable(b) ==
    /\ Len(b) <= MaxCredentialFileSize
    /\ Chomp(b) # << >> /\ ~Contains(Chomp(b), {"NUL"})

\* In Validate the result is dropped, in New it goes into the options.
Read ==
    /\ step = "read"
    /\ LET b == Limited(file[handle].bytes) IN
       IF ~Acceptable(b) THEN Refuse /\ UNCHANGED password
       ELSE /\ handle' = NoInode
            /\ IF stage = "client"
               THEN stage' = "built" /\ step' = "idle" /\ password' = Chomp(b)
               ELSE step' = "rest" /\ UNCHANGED <<stage, password>>
    /\ UNCHANGED <<input, cfg, files, vetted, daemon>>

\* Others change files; what they do at other times has the same effect as
\* what they do before the next step of the reading.
Change ==
    /\ step \in {"open", "stat", "read"} /\ changes < MaxChanges
    /\ changes' = changes + 1
    /\ UNCHANGED <<input, cfg, stage, reading, daemon>>

\* Another file, or none, is put at the path.
Swap == Change /\ path' \in (Inode \cup {NoInode}) \ {path} /\ UNCHANGED file

\* Bytes are appended to a file.
Grow(i) ==
    /\ Change
    /\ \E c \in {"x", "\n", "NUL"} : file' = [file EXCEPT ![i].bytes = Append(@, c)]
    /\ UNCHANGED path

\* The mode changes; a file that is not open may also become a directory.
Chmod(i) ==
    /\ Change
    /\ \/ file' = [file EXCEPT ![i].private = ~@]
       \/ i # handle /\ file' = [file EXCEPT ![i].regular = ~@]
    /\ UNCHANGED path

-----------------------------------------------------------------------------
(* run(): the components use the configuration *)

\* run() returns an error; what is open is closed.
Fail == fault' = TRUE /\ stage' = "failed" /\ open' = {}

\* What BrokerLogAddress, MQTTTLSConfig or Paho cannot work with.
Unbuildable ==
    LET u == ParseURL[cfg.text["broker"]] IN
    \/ u.scheme # "unix" /\ (u.host = "none" \/ u.port = Unset)
    \/ IsSecure(cfg) /\ ~ValidTLS(cfg)
    \/ DurationOr(cfg.text["keep_alive"], 30) <= 0
    \/ DurationOr(cfg.text["connect_timeout"], 10) <= 0
    \/ MQTTQoS(cfg) \notin 0..2

\* The rest of New.
NewClient ==
    /\ stage = "built"
    /\ IF Unbuildable THEN Fail ELSE stage' = "client built" /\ UNCHANGED <<fault, open>>
    /\ UNCHANGED <<input, cfg, files, reading, topics>>

\* --check ends here.
Check ==
    /\ stage = "client built"
    /\ stage' = "checked"
    /\ UNCHANGED <<input, cfg, files, reading, daemon>>

\* The machine has the chip, and the chip the line.
Exists(d) ==
    LET l == LineOf(cfg, d)
    IN  l.chip \in DOMAIN Device /\ l.line < Lines[Device[l.chip]]

Physical(d) == <<Device[LineOf(cfg, d).chip], LineOf(cfg, d).line>>

\* RequestLine fails for one of the lines: it does not exist, or it is in use,
\* because the kernel gives a line to one request only.
Unavailable(ds) ==
    \/ \E d \in ds : ~Exists(d)
    \/ \E d \in ds, e \in ds \cup open : d # e /\ Physical(d) = Physical(e)

\* OpenOutputs requests every output.
OpenOutputs ==
    /\ stage = "client built"
    /\ LET outputs == {"output"} \X DOMAIN cfg.outputs IN
       IF Unavailable(outputs)
       THEN Fail
       ELSE open' = outputs /\ stage' = "outputs" /\ UNCHANGED fault
    /\ UNCHANGED <<input, cfg, files, reading, topics>>

\* entityTopic
EntityTopic(e, suffix) == cfg.text["base_topic"] \o <<"/">> \o e.text["id"] \o <<"/", suffix>>

CommandTopic(e) == EntityTopic(e, IF e.text["type"] = <<"switch">> THEN "set" ELSE "press")

Commanded == {i \in DOMAIN cfg.entities :
                 cfg.entities[i].text["type"] \in {<<"switch">>, <<"button">>}}

Topic(i) == CommandTopic(cfg.entities[i])

\* RegisterSubscription refuses a topic that it has, and with a wildcard the
\* daemon would hear commands for others.
Unsubscribable ==
    \/ \E i, j \in Commanded : i # j /\ Topic(i) = Topic(j)
    \/ \E i \in Commanded : Contains(Topic(i), {"+", "#"})

Register ==
    /\ stage = "outputs"
    /\ IF Unsubscribable
       THEN Fail /\ UNCHANGED topics
       ELSE /\ topics' = {Topic(i) : i \in Commanded}
            /\ stage' = "registered" /\ UNCHANGED <<fault, open>>
    /\ UNCHANGED <<input, cfg, files, reading>>

\* requestGPIOLine would silently replace an unknown bias by none and leave out
\* a debounce time that is not positive.
Misrequested(n) ==
    LET bias == cfg.inputs[n].bias
        debounce == cfg.inputs[n].debounce
    IN  \/ bias \notin {<<"pull_up">>, <<"pull_down">>, <<"disabled">>}
        \/ debounce # << >> /\ debounce \in DOMAIN ParseDuration /\ ParseDuration[debounce] <= 0

\* Once connected, OpenInputs parses the debounce times and requests every input.
OpenInputs ==
    /\ stage = "registered"
    /\ LET inputs == {"input"} \X DOMAIN cfg.inputs
           debounce(n) == cfg.inputs[n].debounce
       IN  IF \/ Unavailable(inputs)
              \/ \E n \in DOMAIN cfg.inputs :
                    \/ debounce(n) # << >> /\ debounce(n) \notin DOMAIN ParseDuration
                    \/ Misrequested(n)
           THEN Fail
           ELSE open' = open \cup inputs /\ stage' = "running" /\ UNCHANGED fault
    /\ UNCHANGED <<input, cfg, files, reading, topics>>

\* What executeOne cannot do: set a line that is not open or to no value, run a
\* relative path or without time, wait for no time, publish to no topic.
ActionFault(a) ==
    CASE a.text["type"] = <<"gpio">> ->
            <<"output", a.text["gpio"]>> \notin open \/ a.value = Unset
      [] a.text["type"] = <<"command">> ->
            ~IsAbs(a.text["command"]) \/ DurationOr(a.text["timeout"], 10) <= 0
      [] a.text["type"] = <<"delay">> -> a.text["duration"] \notin DOMAIN ParseDuration
      [] a.text["type"] = <<"mqtt">> ->
            \/ a.text["topic"] = << >> \/ Contains(a.text["topic"], {"+", "#"})
            \/ (IF a.qos = Unset THEN MQTTQoS(cfg) ELSE a.qos) \notin 0..2
      [] OTHER -> TRUE

\* The lists that handleSwitch and handleButton execute.
Lists(e) ==
    CASE e.text["type"] = <<"switch">> -> {e.on, e.off}
      [] e.text["type"] = <<"button">> -> {e.press}
      [] OTHER -> {}

\* A command for entity i arrives and its list is executed.
Execute(i) ==
    /\ stage = "running"
    /\ fault' = \/ fault
                \/ \E list \in Lists(cfg.entities[i]) : \E k \in DOMAIN list : ActionFault(list[k])
    /\ UNCHANGED <<input, cfg, stage, files, reading, open, topics>>

\* PublishAllStates reads the line of a GPIO switch or of a sensor.
ReadState(i) ==
    /\ stage = "running"
    /\ LET t == cfg.entities[i].text IN
       fault' = \/ fault
                \/ /\ t["type"] = <<"switch">> /\ t["state_type"] = <<"gpio">>
                   /\ <<"output", t["state_gpio"]>> \notin open
                \/ /\ t["type"] = <<"binary_sensor">>
                   /\ <<"input", t["source_gpio"]>> \notin open
    /\ UNCHANGED <<input, cfg, stage, files, reading, open, topics>>

-----------------------------------------------------------------------------
Next ==
    \/ ExpandConfig \/ Defaults \/ ValidateMQTT \/ ValidateRest \/ ClientPassword
    \/ Open \/ Stat \/ Read
    \/ Swap \/ \E i \in Inode : Grow(i) \/ Chmod(i)
    \/ NewClient \/ Check \/ OpenOutputs \/ Register \/ OpenInputs
    \/ \E i \in DOMAIN cfg.entities : Execute(i) \/ ReadState(i)

Spec == Init /\ [][Next]_vars

-----------------------------------------------------------------------------
(* Properties *)

TypeOK ==
    /\ IsConfig(cfg)
    /\ stage \in {"decoded", "expanded", "refused", "load", "new", "client", "built",
                  "client built", "checked", "outputs", "registered", "running", "failed"}
    /\ step \in {"idle", "open", "stat", "read", "rest"}
    /\ path \in Inode \cup {NoInode} /\ handle \in Inode \cup {NoInode}
    /\ file \in [Inode -> [bytes : Text, regular : BOOLEAN, private : BOOLEAN]]
    /\ handle # NoInode <=> step \in {"stat", "read"}
    /\ vetted \in Inode \cup {NoInode} /\ password \in Text
    /\ open \subseteq Declared(cfg) /\ topics \subseteq Text
    /\ fault \in BOOLEAN /\ changes \in 0..MaxChanges

\* What Validate cannot see: the machine has every declared line, and none is
\* declared under two names of its chip, which validateGPIO takes for two lines.
Suited ==
    /\ \A d \in Declared(cfg) : Exists(d)
    /\ \A d, e \in Declared(cfg) : Physical(d) = Physical(e) => Key(cfg, d) = Key(cfg, e)

\* What --check accepts can be run on a machine it suits: run() fails only for a
\* chip or an offset that is missing, or for a line declared under two names of
\* one chip.  Otherwise no entity or action of a configuration that passed
\* Validate, once variables are inserted and defaults applied, meets an unknown
\* line, a line in use, a bias that would be ignored, a missing value, a topic
\* registered before, an unsupported type or a time that is not positive.
AcceptedIsUsable == fault => ~Suited

\* The password of the client is what the very file holds that was found regular
\* and private when it was read for the client, whatever was put in its place;
\* although that file may have grown since, it is within the limit, and it is
\* neither empty nor contains a NUL byte.
CredentialChecked ==
    stage \in {"client built", "checked", "running"} /\ Given(cfg, "password_file")
    => /\ Len(password) \in 1..MaxCredentialFileSize
       /\ ~Contains(password, {"NUL"})
       /\ vetted # NoInode
       /\ Len(password) <= Len(file[vetted].bytes)
       /\ SubSeq(file[vetted].bytes, 1, Len(password)) = password

\* Expansion is one pass: what a variable holds gets into the texts of the mqtt
\* and device sections verbatim, as if a marker that occurs nowhere else had been
\* replaced afterwards, and never changes how the rest is read, whatever dollars
\* and braces it contains.
InsertedVerbatim ==
    stage = "expanded" =>
        \A f \in Field : \A v \in DOMAIN env :
            LET marked == Expand(raw.text[f], [env EXCEPT ![v] = <<Marker>>])
            IN  Unmarked(raw.text[f]) /\ (\A u \in DOMAIN env \ {v} : Unmarked(env[u]))
                => cfg.text[f] = Replaced(marked.text, Marker, env[v])

\* Every text of the mqtt and device sections can be written: with its dollars
\* doubled it expands to itself, also when it looks like a reference; and a text
\* without $$ and ${NAME} stands for itself, with all its bare dollars, malformed
\* and unclosed references.
LiteralsExpressible ==
    /\ stage = "expanded" => \A f \in Field : Literal(raw.text[f]) => cfg.text[f] = raw.text[f]
    /\ stage = "decoded" =>
          \A f \in Field : Expand(Doubled(raw.text[f]), env) = Expanded(raw.text[f])
=============================================================================
