--------------------------- MODULE ConfigurationProofs ---------------------------
(***************************************************************************)
(* Every configuration, environment and password file: the types, what the *)
(* password of the client is, what expansion yields, and that a            *)
(* configuration that Validate accepts cannot fail in run() on a machine   *)
(* that it suits.                                                          *)
(***************************************************************************)
EXTENDS Configuration, ExpansionProofs

\* The file as decoded and the environment are of their types.
Sources == IsConfig(raw) /\ IsEnvironment(env)

\* load works on the decoded file first, then on its expansion.
Loaded ==
    /\ stage = "decoded" => cfg = raw
    /\ stage = "expanded" => cfg = ExpandEnvironment(raw, env) /\ ~EnvironmentMissing(raw, env)

\* The stages after load has validated the configuration.
Accepted == {"new", "client", "built", "client built", "checked",
             "outputs", "registered", "running"}

\* How far Validate is: while the password file is read validateMQTT has
\* succeeded, and from New on the whole configuration has passed.
Validated ==
    /\ step # "idle" => stage \in {"load", "new", "client"}
    /\ step = "rest" => stage \in {"load", "new"}
    /\ stage \in {"load", "new"} /\ step # "idle" => ValidMQTT(cfg)
    /\ stage \in Accepted => ValidMQTT(cfg) /\ ValidRest(cfg)

\* Which lines are open at which stage.
Opened ==
    /\ stage \in {"outputs", "registered"} => open = {"output"} \X DOMAIN cfg.outputs
    /\ stage = "running" => open = Declared(cfg)
    /\ stage \notin {"outputs", "registered", "running"} => open = {}

\* The password is a checked prefix of the vetted file.
Checked ==
    /\ Len(password) \in 1..MaxCredentialFileSize
    /\ ~Contains(password, {"NUL"})
    /\ vetted # NoInode
    /\ Len(password) <= Len(file[vetted].bytes)
    /\ SubSeq(file[vetted].bytes, 1, Len(password)) = password

\* What is read has been examined, and the client holds a checked password.
Vetted ==
    /\ step = "read" => vetted = handle
    /\ stage \in {"built", "client built", "checked", "outputs", "registered", "running"}
          /\ Given(cfg, "password_file") => Checked

\* The inductive invariant.
IInv == TypeOK /\ Sources /\ Loaded /\ Validated /\ Opened /\ Vetted

\* An error is met while run() starts, which ends it, or while the daemon runs.
Faulted == fault => stage \in {"failed", "running"}

-----------------------------------------------------------------------------
\* Records whose fields are replaced one after the other.
LEMMA UpdateAction ==
    ASSUME NEW t, NEW g, NEW m, NEW v, NEW q,
           NEW u, NEW h, NEW k,
           NEW r, r = [text |-> t, args |-> g, env |-> m, value |-> v, qos |-> q]
    PROVE  [r EXCEPT !.text = u, !.args = h, !.env = k]
              = [text |-> u, args |-> h, env |-> k, value |-> v, qos |-> q]
<1>1. PICK r1 : r1 = [r EXCEPT !.text = u]
  OBVIOUS
<1>2. r1 = [text |-> u, args |-> g, env |-> m, value |-> v, qos |-> q]
  BY <1>1
<1>3. PICK r2 : r2 = [r1 EXCEPT !.args = h]
  OBVIOUS
<1>4. r2 = [text |-> u, args |-> h, env |-> m, value |-> v, qos |-> q]
  BY <1>3, <1>2
<1>5. PICK r3 : r3 = [r2 EXCEPT !.env = k]
  OBVIOUS
<1>6. r3 = [text |-> u, args |-> h, env |-> k, value |-> v, qos |-> q]
  BY <1>5, <1>4
<1>7. r3 = [r EXCEPT !.text = u, !.args = h, !.env = k]
  BY <1>1, <1>3, <1>5, Zenon
<1> QED BY <1>6, <1>7, Zenon

\* The same for the fields of an entity,
LEMMA UpdateEntity ==
    ASSUME NEW t, NEW o, NEW f, NEW p,
           NEW u, NEW x, NEW y, NEW z,
           NEW r, r = [text |-> t, on |-> o, off |-> f, press |-> p]
    PROVE  [r EXCEPT !.text = u, !.on = x, !.off = y, !.press = z]
              = [text |-> u, on |-> x, off |-> y, press |-> z]
<1>1. PICK r1 : r1 = [r EXCEPT !.text = u]
  OBVIOUS
<1>2. r1 = [text |-> u, on |-> o, off |-> f, press |-> p]
  BY <1>1
<1>3. PICK r2 : r2 = [r1 EXCEPT !.on = x]
  OBVIOUS
<1>4. r2 = [text |-> u, on |-> x, off |-> f, press |-> p]
  BY <1>3, <1>2
<1>5. PICK r3 : r3 = [r2 EXCEPT !.off = y]
  OBVIOUS
<1>6. r3 = [text |-> u, on |-> x, off |-> y, press |-> p]
  BY <1>5, <1>4
<1>7. PICK r4 : r4 = [r3 EXCEPT !.press = z]
  OBVIOUS
<1>8. r4 = [text |-> u, on |-> x, off |-> y, press |-> z]
  BY <1>7, <1>6
<1>9. r4 = [r EXCEPT !.text = u, !.on = x, !.off = y, !.press = z]
  BY <1>1, <1>3, <1>5, <1>7, Zenon
<1> QED BY <1>8, <1>9, Zenon

\* A configuration with these parts.
Parts(t, a, b, q, d, o, n, s) ==
    [text |-> t, unauthenticated |-> a, insecure |-> b, qos |-> q, discovery |-> d,
     outputs |-> o, inputs |-> n, entities |-> s]

\* those that expandEnvironment replaces in a configuration,
LEMMA UpdateConfig ==
    ASSUME NEW t, NEW a, NEW b, NEW q, NEW d, NEW o, NEW n, NEW s,
           NEW u, NEW x, NEW y, NEW z,
           NEW r, r = Parts(t, a, b, q, d, o, n, s)
    PROVE  [r EXCEPT !.text = u, !.outputs = x, !.inputs = y, !.entities = z]
              = Parts(u, a, b, q, d, x, y, z)
<1> USE DEF Parts
<1>1. PICK r1 : r1 = [r EXCEPT !.text = u]
  OBVIOUS
<1>2. r1 = Parts(u, a, b, q, d, o, n, s)
  BY <1>1
<1>3. PICK r2 : r2 = [r1 EXCEPT !.outputs = x]
  OBVIOUS
<1>4. r2 = Parts(u, a, b, q, d, x, n, s)
  BY <1>3, <1>2
<1>5. PICK r3 : r3 = [r2 EXCEPT !.inputs = y]
  OBVIOUS
<1>6. r3 = Parts(u, a, b, q, d, x, y, s)
  BY <1>5, <1>4
<1>7. PICK r4 : r4 = [r3 EXCEPT !.entities = z]
  OBVIOUS
<1>8. r4 = Parts(u, a, b, q, d, x, y, z)
  BY <1>7, <1>6
<1>9. r4 = [r EXCEPT !.text = u, !.outputs = x, !.inputs = y, !.entities = z]
  BY <1>1, <1>3, <1>5, <1>7, Zenon
<1> QED BY <1>8, <1>9, Zenon

\* and those that applyDefaults replaces.
LEMMA UpdateDefaults ==
    ASSUME NEW t, NEW a, NEW b, NEW q, NEW d, NEW o, NEW n, NEW s,
           NEW u, NEW x, NEW y,
           NEW r, r = Parts(t, a, b, q, d, o, n, s)
    PROVE  [r EXCEPT !.text = u, !.outputs = x, !.inputs = y]
              = Parts(u, a, b, q, d, x, y, s)
<1> USE DEF Parts
<1>1. PICK r1 : r1 = [r EXCEPT !.text = u]
  OBVIOUS
<1>2. r1 = Parts(u, a, b, q, d, o, n, s)
  BY <1>1
<1>3. PICK r2 : r2 = [r1 EXCEPT !.outputs = x]
  OBVIOUS
<1>4. r2 = Parts(u, a, b, q, d, x, n, s)
  BY <1>3, <1>2
<1>5. PICK r3 : r3 = [r2 EXCEPT !.inputs = y]
  OBVIOUS
<1>6. r3 = Parts(u, a, b, q, d, x, y, s)
  BY <1>5, <1>4
<1>7. r3 = [r EXCEPT !.text = u, !.outputs = x, !.inputs = y]
  BY <1>1, <1>3, <1>5, Zenon
<1> QED BY <1>6, <1>7, Zenon

\* The greatest element of a finite set of positions.
LEMMA MaxOf ==
    ASSUME NEW n \in Nat, NEW T, T \subseteq 1..n, T # {}
    PROVE  Max(T) \in T
<1> DEFINE U == {k \in 0..n : n - k \in T}
<1>1. PICK t \in T : TRUE
  OBVIOUS
<1>2. n - t \in U
  <2>1. n - t \in 0..n /\ n - (n - t) = t
    OBVIOUS
  <2> QED BY <2>1
<1>3. U \subseteq Nat
  OBVIOUS
<1>4. PICK k \in U : \A l \in U : k <= l
  <2> HIDE DEF U
  <2> QED BY <1>2, <1>3, Least
<1>5. ASSUME NEW j \in T PROVE j <= n - k
  <2>1. n - j \in 0..n /\ n - (n - j) = j
    OBVIOUS
  <2>2. n - j \in U
    BY <2>1
  <2> QED BY <1>4, <2>1, <2>2
<1>6. \E x \in T : \A j \in T : x >= j
  BY <1>4, <1>5
<1> QED BY <1>6 DEF Max

\* ExpandType for the two fields of a result.
LEMMA ExpandText ==
    ASSUME NEW value \in Text, NEW e, IsEnvironment(e)
    PROVE  Expand(value, e).text \in Text /\ Expand(value, e).missing \in BOOLEAN
<1>1. Expand(value, e) \in Result
  BY ExpandType
<1> QED BY <1>1 DEF Result

\* expandField keeps the type of the fields of a record,
LEMMA ExpandEachFields ==
    ASSUME NEW S, NEW t \in [S -> Text], NEW e, IsEnvironment(e)
    PROVE  ExpandEach(t, e) \in [S -> Text]
<1>1. ASSUME NEW k \in S PROVE Expand(t[k], e).text \in Text
  BY ExpandText
<1> QED BY <1>1 DEF ExpandEach

\* of the arguments of a command,
LEMMA ExpandEachArgs ==
    ASSUME NEW t \in Seq(Text), NEW e, IsEnvironment(e)
    PROVE  ExpandEach(t, e) \in Seq(Text)
<1>1. PICK n \in Nat : t \in [1..n -> Text]
  <2>1. Len(t) \in Nat /\ t \in [1..Len(t) -> Text]
    BY LenProperties
  <2> QED BY <2>1
<1>2. ExpandEach(t, e) \in [1..n -> Text]
  BY <1>1, ExpandEachFields
<1> QED BY <1>2, SeqDef

\* of the environment of a command,
LEMMA ExpandEachMap ==
    ASSUME NEW t, \A n \in DOMAIN t : n \in Text /\ t[n] \in Text, NEW e, IsEnvironment(e)
    PROVE  \A n \in DOMAIN ExpandEach(t, e) : n \in Text /\ ExpandEach(t, e)[n] \in Text
<1>1. ASSUME NEW n \in DOMAIN t PROVE Expand(t[n], e).text \in Text
  BY ExpandText
<1> QED BY <1>1 DEF ExpandEach

\* of an action,
LEMMA ExpandActionType ==
    ASSUME NEW a, IsAction(a), NEW e, IsEnvironment(e)
    PROVE  IsAction(ExpandAction(a, e))
<1> DEFINE x == ExpandAction(a, e)
<1>1. PICK t, g, m, v, q : a = [text |-> t, args |-> g, env |-> m, value |-> v, qos |-> q]
  BY DEF IsAction
<1>2. a.text = t /\ a.args = g /\ a.env = m /\ a.value = v /\ a.qos = q
  BY <1>1
<1>3. PICK u, h, k : u = ExpandEach(t, e) /\ h = ExpandEach(g, e) /\ k = ExpandEach(m, e)
  OBVIOUS
<1>4. x = [text |-> u, args |-> h, env |-> k, value |-> v, qos |-> q]
  <2>1. x = [a EXCEPT !.text = ExpandEach(a.text, e), !.args = ExpandEach(a.args, e),
                      !.env = ExpandEach(a.env, e)]
    BY DEF ExpandAction
  <2>2. x = [a EXCEPT !.text = u, !.args = h, !.env = k]
    BY <1>2, <1>3, <2>1, Zenon
  <2> QED BY <1>1, <2>2, UpdateAction, Zenon
<1>5. u \in [ActionField -> Text]
  BY <1>2, <1>3, ExpandEachFields DEF IsAction
<1>6. h \in Seq(Text)
  BY <1>2, <1>3, ExpandEachArgs DEF IsAction
<1>7. \A n \in DOMAIN k : n \in Text /\ k[n] \in Text
  <2>1. \A n \in DOMAIN m : n \in Text /\ m[n] \in Text
    BY <1>2 DEF IsAction
  <2> QED BY <1>3, <2>1, ExpandEachMap
<1>8. v \in {Unset, 0, 1} /\ q \in Int
  BY <1>2 DEF IsAction
<1> HIDE DEF x
<1>9. x.text = u /\ x.args = h /\ x.env = k /\ x.value = v /\ x.qos = q
  BY <1>4
<1>10. IsAction(x)
  BY <1>4, <1>5, <1>6, <1>7, <1>8, <1>9, Zenon DEF IsAction
<1> QED BY <1>10 DEF x

\* of a list of actions,
LEMMA ExpandListType ==
    ASSUME NEW l, \A i \in DOMAIN l : IsAction(l[i]), NEW e, IsEnvironment(e)
    PROVE  \A i \in DOMAIN ExpandList(l, e) : IsAction(ExpandList(l, e)[i])
<1>1. ASSUME NEW i \in DOMAIN l PROVE IsAction(ExpandAction(l[i], e))
  BY ExpandActionType
<1> QED BY <1>1 DEF ExpandList

\* of an entity,
LEMMA ExpandEntityType ==
    ASSUME NEW y, IsEntity(y), NEW e, IsEnvironment(e)
    PROVE  IsEntity(ExpandEntity(y, e))
<1> DEFINE x == ExpandEntity(y, e)
<1>1. PICK t, on, off, press : y = [text |-> t, on |-> on, off |-> off, press |-> press]
  BY DEF IsEntity
<1>2. y.text = t /\ y.on = on /\ y.off = off /\ y.press = press
  BY <1>1
<1>3. PICK u, on2, off2, press2 :
         /\ u = ExpandEach(t, e) /\ on2 = ExpandList(on, e)
         /\ off2 = ExpandList(off, e) /\ press2 = ExpandList(press, e)
  OBVIOUS
<1>4. x = [text |-> u, on |-> on2, off |-> off2, press |-> press2]
  <2>1. x = [y EXCEPT !.text = ExpandEach(y.text, e), !.on = ExpandList(y.on, e),
                      !.off = ExpandList(y.off, e), !.press = ExpandList(y.press, e)]
    BY DEF ExpandEntity
  <2>2. x = [y EXCEPT !.text = u, !.on = on2, !.off = off2, !.press = press2]
    BY <1>2, <1>3, <2>1, Zenon
  <2> QED BY <1>1, <2>2, UpdateEntity, Zenon
<1>5. u \in [EntityField -> Text]
  BY <1>2, <1>3, ExpandEachFields DEF IsEntity
<1>6. /\ \A i \in DOMAIN on : IsAction(on[i])
      /\ \A i \in DOMAIN off : IsAction(off[i])
      /\ \A i \in DOMAIN press : IsAction(press[i])
  BY <1>2, Zenon DEF IsEntity
<1>7. \A i \in DOMAIN on2 : IsAction(on2[i])
  BY <1>3, <1>6, ExpandListType
<1>8. \A i \in DOMAIN off2 : IsAction(off2[i])
  BY <1>3, <1>6, ExpandListType
<1>9. \A i \in DOMAIN press2 : IsAction(press2[i])
  BY <1>3, <1>6, ExpandListType
<1> HIDE DEF x
<1>10. x.text = u /\ x.on = on2 /\ x.off = off2 /\ x.press = press2
  BY <1>4
<1>11. IsEntity(x)
  <2>1. \A l \in {x.on, x.off, x.press} : \A i \in DOMAIN l : IsAction(l[i])
    BY <1>7, <1>8, <1>9, <1>10, Zenon
  <2> QED BY <1>4, <1>5, <1>10, <2>1, Zenon DEF IsEntity
<1> QED BY <1>11 DEF x

\* of an output,
LEMMA ExpandOutputType ==
    ASSUME NEW r \in OutputConfig, NEW e, IsEnvironment(e)
    PROVE  ExpandOutput(r, e) \in OutputConfig
<1>1. PICK x \in Text : x = Expand(r.chip, e).text
  <2>1. r.chip \in Text
    BY DEF OutputConfig
  <2> QED BY <2>1, ExpandText
<1>2. [r EXCEPT !.chip = x] \in OutputConfig
  BY DEF OutputConfig
<1> QED BY <1>1, <1>2, Zenon DEF ExpandOutput

\* and of an input, whose fields are replaced one after the other.
LEMMA UpdateInput ==
    ASSUME NEW r \in InputConfig, NEW x \in Text, NEW y \in Text, NEW z \in Text
    PROVE  /\ [r EXCEPT !.chip = x, !.bias = y] \in InputConfig
           /\ [r EXCEPT !.chip = x, !.bias = y, !.debounce = z] \in InputConfig
<1>1. PICK r1 : r1 = [r EXCEPT !.chip = x]
  OBVIOUS
<1>2. r1 \in InputConfig
  BY <1>1 DEF InputConfig
<1>3. PICK r2 : r2 = [r1 EXCEPT !.bias = y]
  OBVIOUS
<1>4. r2 \in InputConfig
  BY <1>2, <1>3 DEF InputConfig
<1>5. PICK r3 : r3 = [r2 EXCEPT !.debounce = z]
  OBVIOUS
<1>6. r3 \in InputConfig
  BY <1>4, <1>5 DEF InputConfig
<1>7. r2 = [r EXCEPT !.chip = x, !.bias = y]
  BY <1>1, <1>3, Zenon
<1>8. r3 = [r EXCEPT !.chip = x, !.bias = y, !.debounce = z]
  BY <1>1, <1>3, <1>5, Zenon
<1> QED BY <1>4, <1>6, <1>7, <1>8, Zenon

\* See UpdateInput.
LEMMA ExpandInputType ==
    ASSUME NEW r \in InputConfig, NEW e, IsEnvironment(e)
    PROVE  ExpandInput(r, e) \in InputConfig
<1>1. r.chip \in Text /\ r.bias \in Text /\ r.debounce \in Text
  BY DEF InputConfig
<1>2. PICK x \in Text : x = Expand(r.chip, e).text
  BY <1>1, ExpandText
<1>3. PICK y \in Text : y = Expand(r.bias, e).text
  BY <1>1, ExpandText
<1>4. PICK z \in Text : z = Expand(r.debounce, e).text
  BY <1>1, ExpandText
<1>5. [r EXCEPT !.chip = x, !.bias = y, !.debounce = z] \in InputConfig
  BY UpdateInput
<1> QED BY <1>2, <1>3, <1>4, <1>5, Zenon DEF ExpandInput

\* x is a record with the fields of a configuration.
HasParts(x) ==
    x = [text |-> x.text, unauthenticated |-> x.unauthenticated, insecure |-> x.insecure,
         qos |-> x.qos, discovery |-> x.discovery, outputs |-> x.outputs,
         inputs |-> x.inputs, entities |-> x.entities]

\* x is what becomes of c when its parts are expanded in environment e.
ExpandedParts(x, c, e) ==
    /\ HasParts(x)
    /\ x.text = ExpandEach(c.text, e)
    /\ x.unauthenticated = c.unauthenticated /\ x.insecure = c.insecure
    /\ x.qos = c.qos /\ x.discovery = c.discovery
    /\ x.outputs = [n \in DOMAIN c.outputs |-> ExpandOutput(c.outputs[n], e)]
    /\ x.inputs = [n \in DOMAIN c.inputs |-> ExpandInput(c.inputs[n], e)]
    /\ x.entities = [i \in DOMAIN c.entities |-> ExpandEntity(c.entities[i], e)]

\* expandEnvironment expands every part.
LEMMA ExpandParts ==
    ASSUME NEW c, IsConfig(c), NEW e, NEW x, x = ExpandEnvironment(c, e)
    PROVE  ExpandedParts(x, c, e)
<1>1. PICK t, a, b, q, d, o, n, s :
         c = [text |-> t, unauthenticated |-> a, insecure |-> b, qos |-> q, discovery |-> d,
              outputs |-> o, inputs |-> n, entities |-> s]
  BY Zenon DEF IsConfig
<1>2. /\ c.text = t /\ c.unauthenticated = a /\ c.insecure = b /\ c.qos = q
      /\ c.discovery = d /\ c.outputs = o /\ c.inputs = n /\ c.entities = s
  BY <1>1
<1>3. PICK u : u = ExpandEach(c.text, e)
  OBVIOUS
<1>4. PICK p : p = [k \in DOMAIN c.outputs |-> ExpandOutput(c.outputs[k], e)]
  OBVIOUS
<1>5. PICK y : y = [k \in DOMAIN c.inputs |-> ExpandInput(c.inputs[k], e)]
  OBVIOUS
<1>6. PICK z : z = [i \in DOMAIN c.entities |-> ExpandEntity(c.entities[i], e)]
  OBVIOUS
<1>7. x = [c EXCEPT !.text = u, !.outputs = p, !.inputs = y, !.entities = z]
  BY <1>3, <1>4, <1>5, <1>6, Zenon DEF ExpandEnvironment
<1>8. x = [text |-> u, unauthenticated |-> a, insecure |-> b, qos |-> q, discovery |-> d,
           outputs |-> p, inputs |-> y, entities |-> z]
  BY <1>1, <1>7, UpdateConfig, Zenon DEF Parts
<1>9. /\ x.text = u /\ x.unauthenticated = a /\ x.insecure = b /\ x.qos = q
      /\ x.discovery = d /\ x.outputs = p /\ x.inputs = y /\ x.entities = z
  BY <1>8
<1> QED BY <1>2, <1>3, <1>4, <1>5, <1>6, <1>8, <1>9, Zenon DEF ExpandedParts, HasParts

\* So an expanded configuration is one.
LEMMA ExpandConfigType ==
    ASSUME NEW c, IsConfig(c), NEW e, IsEnvironment(e)
    PROVE  IsConfig(ExpandEnvironment(c, e))
<1>1. PICK x : x = ExpandEnvironment(c, e)
  OBVIOUS
<1>2. ExpandedParts(x, c, e)
  BY <1>1, ExpandParts
<1>3. x.text \in [Field -> Text]
  <2>1. c.text \in [Field -> Text]
    BY DEF IsConfig
  <2>2. x.text = ExpandEach(c.text, e)
    BY <1>2, Zenon DEF ExpandedParts
  <2> QED BY <2>1, <2>2, ExpandEachFields
<1>4. \A n \in DOMAIN x.outputs : n \in Text /\ x.outputs[n] \in OutputConfig
  <2>1. \A n \in DOMAIN c.outputs : n \in Text /\ ExpandOutput(c.outputs[n], e) \in OutputConfig
    BY ExpandOutputType DEF IsConfig
  <2>2. x.outputs = [n \in DOMAIN c.outputs |-> ExpandOutput(c.outputs[n], e)]
    BY <1>2, Zenon DEF ExpandedParts, HasParts
  <2> QED BY <2>1, <2>2
<1>5. \A n \in DOMAIN x.inputs : n \in Text /\ x.inputs[n] \in InputConfig
  <2>1. \A n \in DOMAIN c.inputs : n \in Text /\ ExpandInput(c.inputs[n], e) \in InputConfig
    BY ExpandInputType DEF IsConfig
  <2>2. x.inputs = [n \in DOMAIN c.inputs |-> ExpandInput(c.inputs[n], e)]
    BY <1>2, Zenon DEF ExpandedParts, HasParts
  <2> QED BY <2>1, <2>2
<1>6. \A i \in DOMAIN x.entities : IsEntity(x.entities[i])
  <2>1. \A i \in DOMAIN c.entities : IsEntity(ExpandEntity(c.entities[i], e))
    BY ExpandEntityType DEF IsConfig
  <2>2. x.entities = [i \in DOMAIN c.entities |-> ExpandEntity(c.entities[i], e)]
    BY <1>2, Zenon DEF ExpandedParts, HasParts
  <2> QED BY <2>1, <2>2
<1>7. /\ <<x.unauthenticated, x.insecure>> = <<c.unauthenticated, c.insecure>>
      /\ x.qos = c.qos /\ x.discovery = c.discovery
  BY <1>2, Zenon DEF ExpandedParts, HasParts
<1>8. x = [text |-> x.text, unauthenticated |-> x.unauthenticated, insecure |-> x.insecure,
           qos |-> x.qos, discovery |-> x.discovery, outputs |-> x.outputs,
           inputs |-> x.inputs, entities |-> x.entities]
  BY <1>2, Zenon DEF ExpandedParts, HasParts
<1>9. IsConfig(x)
  BY <1>3, <1>4, <1>5, <1>6, <1>7, <1>8, Zenon DEF IsConfig
<1> QED BY <1>1, <1>9, Zenon

-----------------------------------------------------------------------------
\* Defaults are texts, and so is what they leave of a field.
LEMMA OrType ==
    ASSUME NEW t \in Text, NEW d \in Text
    PROVE  Or(t, d) \in Text
BY DEF Or

\* strings.Trim yields a text.
LEMMA TrimType ==
    ASSUME NEW t \in Text
    PROVE  TrimSlashes(t) \in Text
<1> DEFINE kept == {i \in DOMAIN t : t[i] # "/"}
<1>1. << >> \in Text
  BY DEF Text
<1>2. DOMAIN t = 1..Len(t) /\ Len(t) \in Nat
  BY LenProperties DEF Text
<1>3. ASSUME kept # {} PROVE SubSeq(t, Min(kept), Max(kept)) \in Text
  <2>1. kept \subseteq 1..Len(t) /\ kept \subseteq Nat
    BY <1>2
  <2> HIDE DEF kept
  <2>2. Min(kept) \in 1..Len(t)
    BY <1>3, <2>1, MinOf
  <2>3. Max(kept) \in 1..Len(t)
    BY <1>2, <1>3, <2>1, MaxOf
  <2> QED BY <1>2, <2>2, <2>3, SubSeqProperties DEF Text
<1> QED BY <1>1, <1>3, Zenon DEF TrimSlashes

\* The default values.
LEMMA DefaultsAreTexts ==
    /\ \A d \in {<<"homeassistant">>, <<"/", "discovery-state.json">>, <<"gpiochip0">>,
                 <<"mqtt-raspberry-controller">>, <<"disabled">>} : d \in Text
<1>1. \A x \in Char : <<x>> \in Text
  BY DEF Text
<1>2. \A x, y \in Char : <<x, y>> \in Text
  BY DEF Text
<1>3. /\ "homeassistant" \in Char /\ "/" \in Char /\ "discovery-state.json" \in Char
      /\ "gpiochip0" \in Char /\ "mqtt-raspberry-controller" \in Char /\ "disabled" \in Char
  BY DefaultAssumption
<1> QED BY <1>1, <1>2, <1>3

\* applyDefaults keeps the type of the fields,
LEMMA DefaultTextsType ==
    ASSUME NEW t \in [Field -> Text]
    PROVE  DefaultTexts(t) \in [Field -> Text]
<1>1. \A f \in Field : t[f] \in Text
  OBVIOUS
<1>2. {"client_id", "base_topic", "prefix", "state_file", "manufacturer", "model",
       "device_id"} \subseteq Field
  BY DEF Field
<1>3. PICK a \in Text : a = Or(t["client_id"], t["device_id"])
  BY <1>1, <1>2, OrType
<1>4. PICK b \in Text : b = TrimSlashes(Or(t["base_topic"], t["device_id"]))
  <2>1. Or(t["base_topic"], t["device_id"]) \in Text
    BY <1>1, <1>2, OrType
  <2> QED BY <2>1, TrimType
<1>5. PICK c \in Text : c = TrimSlashes(Or(t["prefix"], <<"homeassistant">>))
  <2>1. Or(t["prefix"], <<"homeassistant">>) \in Text
    BY <1>1, <1>2, DefaultsAreTexts, OrType
  <2> QED BY <2>1, TrimType
<1>6. PICK d \in Text : d = Or(t["state_file"], <<"/", "discovery-state.json">>)
  BY <1>1, <1>2, DefaultsAreTexts, OrType
<1>7. PICK e \in Text : e = Or(t["manufacturer"], <<"mqtt-raspberry-controller">>)
  BY <1>1, <1>2, DefaultsAreTexts, OrType
<1>8. PICK g \in Text : g = Or(t["model"], <<"mqtt-raspberry-controller">>)
  BY <1>1, <1>2, DefaultsAreTexts, OrType
<1>9. PICK t1 \in [Field -> Text] : t1 = [t EXCEPT !["client_id"] = a]
  OBVIOUS
<1>10. PICK t2 \in [Field -> Text] : t2 = [t1 EXCEPT !["base_topic"] = b]
  OBVIOUS
<1>11. PICK t3 \in [Field -> Text] : t3 = [t2 EXCEPT !["prefix"] = c]
  OBVIOUS
<1>12. PICK t4 \in [Field -> Text] : t4 = [t3 EXCEPT !["state_file"] = d]
  OBVIOUS
<1>13. PICK t5 \in [Field -> Text] : t5 = [t4 EXCEPT !["manufacturer"] = e]
  OBVIOUS
<1>14. PICK t6 \in [Field -> Text] : t6 = [t5 EXCEPT !["model"] = g]
  OBVIOUS
<1>15. DefaultTexts(t) = [t EXCEPT !["client_id"] = a, !["base_topic"] = b, !["prefix"] = c,
                                   !["state_file"] = d, !["manufacturer"] = e, !["model"] = g]
  BY <1>3, <1>4, <1>5, <1>6, <1>7, <1>8, Zenon DEF DefaultTexts
<1>16. DefaultTexts(t) = t6
  BY <1>9, <1>10, <1>11, <1>12, <1>13, <1>14, <1>15, Zenon
<1> QED BY <1>16

\* of an output,
LEMMA DefaultOutputType ==
    ASSUME NEW r \in OutputConfig
    PROVE  DefaultOutput(r) \in OutputConfig
<1>1. r.chip \in Text
  BY DEF OutputConfig
<1>2. PICK x \in Text : x = Or(r.chip, <<"gpiochip0">>)
  BY <1>1, DefaultsAreTexts, OrType
<1>3. [r EXCEPT !.chip = x] \in OutputConfig
  BY DEF OutputConfig
<1> QED BY <1>2, <1>3, Zenon DEF DefaultOutput

\* of an input,
LEMMA DefaultInputType ==
    ASSUME NEW r \in InputConfig
    PROVE  DefaultInput(r) \in InputConfig
<1>1. r.chip \in Text /\ r.bias \in Text
  BY DEF InputConfig
<1>2. PICK x \in Text : x = Or(r.chip, <<"gpiochip0">>)
  BY <1>1, DefaultsAreTexts, OrType
<1>3. PICK y \in Text : y = Or(r.bias, <<"disabled">>)
  BY <1>1, DefaultsAreTexts, OrType
<1>4. [r EXCEPT !.chip = x, !.bias = y] \in InputConfig
  BY UpdateInput
<1> QED BY <1>2, <1>3, <1>4, Zenon DEF DefaultInput

\* and of a configuration.
LEMMA ApplyDefaultsType ==
    ASSUME NEW c, IsConfig(c)
    PROVE  IsConfig(ApplyDefaults(c))
<1>1. PICK t, a, b, q, d, o, n, s :
         c = [text |-> t, unauthenticated |-> a, insecure |-> b, qos |-> q, discovery |-> d,
              outputs |-> o, inputs |-> n, entities |-> s]
  BY Zenon DEF IsConfig
<1>2. /\ c.text = t /\ c.unauthenticated = a /\ c.insecure = b /\ c.qos = q
      /\ c.discovery = d /\ c.outputs = o /\ c.inputs = n /\ c.entities = s
  BY <1>1
<1>3. PICK u : u = DefaultTexts(c.text)
  OBVIOUS
<1>4. PICK p : p = [k \in DOMAIN c.outputs |-> DefaultOutput(c.outputs[k])]
  OBVIOUS
<1>5. PICK y : y = [k \in DOMAIN c.inputs |-> DefaultInput(c.inputs[k])]
  OBVIOUS
<1>6. PICK x : x = ApplyDefaults(c)
  OBVIOUS
<1>7. x = [c EXCEPT !.text = u, !.outputs = p, !.inputs = y]
  BY <1>3, <1>4, <1>5, <1>6, Zenon DEF ApplyDefaults
<1>8. x = [text |-> u, unauthenticated |-> a, insecure |-> b, qos |-> q, discovery |-> d,
           outputs |-> p, inputs |-> y, entities |-> s]
  BY <1>1, <1>7, UpdateDefaults, Zenon DEF Parts
<1>9. /\ x.text = u /\ x.unauthenticated = a /\ x.insecure = b /\ x.qos = q
      /\ x.discovery = d /\ x.outputs = p /\ x.inputs = y /\ x.entities = s
  BY <1>8
<1>10. x.text \in [Field -> Text]
  <2>1. c.text \in [Field -> Text]
    BY DEF IsConfig
  <2> QED BY <1>3, <1>9, <2>1, DefaultTextsType
<1>11. \A k \in DOMAIN x.outputs : k \in Text /\ x.outputs[k] \in OutputConfig
  <2>1. \A k \in DOMAIN c.outputs : k \in Text /\ DefaultOutput(c.outputs[k]) \in OutputConfig
    BY DefaultOutputType DEF IsConfig
  <2> QED BY <1>4, <1>9, <2>1
<1>12. \A k \in DOMAIN x.inputs : k \in Text /\ x.inputs[k] \in InputConfig
  <2>1. \A k \in DOMAIN c.inputs : k \in Text /\ DefaultInput(c.inputs[k]) \in InputConfig
    BY DefaultInputType DEF IsConfig
  <2> QED BY <1>5, <1>9, <2>1
<1>13. /\ <<x.unauthenticated, x.insecure>> = <<c.unauthenticated, c.insecure>>
       /\ x.qos = c.qos /\ x.discovery = c.discovery /\ x.entities = c.entities
  BY <1>2, <1>9, Zenon
<1>14. x = [text |-> x.text, unauthenticated |-> x.unauthenticated, insecure |-> x.insecure,
           qos |-> x.qos, discovery |-> x.discovery, outputs |-> x.outputs,
           inputs |-> x.inputs, entities |-> x.entities]
  BY <1>8, <1>9, Zenon
<1>15. IsConfig(x)
  BY <1>10, <1>11, <1>12, <1>13, <1>14, Zenon DEF IsConfig
<1> QED BY <1>6, <1>15, Zenon

-----------------------------------------------------------------------------
\* a is a prefix of b.
Prefix(a, b) == Len(a) \in 0..Len(b) /\ a = SubSeq(b, 1, Len(a))

\* The first k bytes are a prefix.
LEMMA SubSeqPrefix ==
    ASSUME NEW b \in Text, NEW k \in 0..Len(b)
    PROVE  SubSeq(b, 1, k) \in Text /\ Len(SubSeq(b, 1, k)) = k /\ Prefix(SubSeq(b, 1, k), b)
<1>1. SubSeq(b, 1, k) \in Text
  BY SubSeqProperties DEF Text
<1>2. Len(SubSeq(b, 1, k)) = k
  <2>1. Len(b) \in Nat /\ k <= Len(b) /\ k \in Nat
    BY DEF Text
  <2> QED BY <2>1, SubSeqProperties DEF Text
<1> QED BY <1>1, <1>2 DEF Prefix

\* A prefix of a prefix is one.
LEMMA PrefixTransitive ==
    ASSUME NEW a \in Text, NEW b \in Text, NEW c \in Text, Prefix(a, b), Prefix(b, c)
    PROVE  Prefix(a, c)
<1>1. Len(a) \in Nat /\ Len(b) \in Nat /\ Len(c) \in Nat
  BY DEF Text
<1>2. Len(a) \in 0..Len(b) /\ Len(b) \in 0..Len(c)
  BY DEF Prefix
<1>3. Len(a) \in 0..Len(c)
  BY <1>1, <1>2
<1>4. PICK k : k = Len(a)
  OBVIOUS
<1>5. PICK m : m = Len(b)
  OBVIOUS
<1>6. SubSeq(SubSeq(c, 1, m), 1, k) = SubSeq(c, 1, k)
  <2>1. PICK d \in Text : d = SubSeq(c, 1, m) /\ Len(d) = m
    BY <1>2, <1>5, SubSeqPrefix
  <2>2. k \in 0..m /\ k \in 0..Len(c) /\ m \in 0..Len(c)
    BY <1>2, <1>3, <1>4, <1>5
  <2>3. SubSeq(d, 1, k) \in Text /\ SubSeq(c, 1, k) \in Text
        /\ Len(SubSeq(d, 1, k)) = k /\ Len(SubSeq(c, 1, k)) = k
    BY <2>1, <2>2, SubSeqPrefix
  <2>4. ASSUME NEW i \in 1..k PROVE SubSeq(d, 1, k)[i] = SubSeq(c, 1, k)[i]
    <3>1. i \in 1..m /\ k <= m /\ m <= Len(c) /\ k <= Len(c)
      BY <1>1, <2>2, <1>4, <1>5
    <3>2. SubSeq(d, 1, k)[i] = d[i]
      BY <2>1, <2>2, <3>1, SubSeqProperties DEF Text
    <3>3. d[i] = c[i]
      BY <2>1, <2>2, <3>1, SubSeqProperties DEF Text
    <3>4. SubSeq(c, 1, k)[i] = c[i]
      BY <2>2, <3>1, SubSeqProperties DEF Text
    <3> QED BY <3>2, <3>3, <3>4
  <2>5. SubSeq(d, 1, k) = SubSeq(c, 1, k)
    BY <2>3, <2>4, SeqEqual DEF Text
  <2> QED BY <2>1, <2>5
<1>7. a = SubSeq(c, 1, k)
  BY <1>4, <1>5, <1>6, Zenon DEF Prefix
<1> QED BY <1>3, <1>4, <1>7 DEF Prefix

\* Removing the final newline leaves a prefix.
LEMMA ChompPrefix ==
    ASSUME NEW b \in Text
    PROVE  Chomp(b) \in Text /\ Prefix(Chomp(b), b)
<1> DEFINE n == Len(b)
<1>1. n \in Nat /\ n \in 0..n
  BY DEF Text
<1>2. Prefix(b, b)
  BY <1>1, SubSeqFull DEF Prefix, Text
<1>3. n # 0 => n - 1 \in 0..n
  BY <1>1
<1>4. n > 1 => n - 2 \in 0..n
  BY <1>1
<1>5. CASE n = 0 \/ b[n] # "\n"
  <2>1. Chomp(b) = b
    BY <1>5, Zenon DEF Chomp
  <2> QED BY <1>2, <2>1
<1>6. CASE ~(n = 0 \/ b[n] # "\n") /\ (n > 1 /\ b[n - 1] = "\r")
  <2>1. Chomp(b) = SubSeq(b, 1, n - 2)
    BY <1>6, Zenon DEF Chomp
  <2>2. n - 2 \in 0..n
    BY <1>4, <1>6
  <2> QED BY <2>1, <2>2, SubSeqPrefix
<1>7. CASE ~(n = 0 \/ b[n] # "\n") /\ ~(n > 1 /\ b[n - 1] = "\r")
  <2>1. Chomp(b) = SubSeq(b, 1, n - 1)
    BY <1>7, Zenon DEF Chomp
  <2>2. n - 1 \in 0..n
    BY <1>3, <1>7
  <2> QED BY <2>1, <2>2, SubSeqPrefix
<1> QED BY <1>5, <1>6, <1>7

\* What the LimitReader lets through is a prefix.
LEMMA LimitedPrefix ==
    ASSUME NEW b \in Text
    PROVE  Limited(b) \in Text /\ Prefix(Limited(b), b)
<1>1. Len(b) \in Nat /\ MaxCredentialFileSize + 1 \in Nat
  BY SizeAssumption DEF Text
<1>2. PICK k : k = Min({Len(b), MaxCredentialFileSize + 1})
  OBVIOUS
<1>3. k \in {Len(b), MaxCredentialFileSize + 1} /\ k <= Len(b)
  <2> DEFINE T == {Len(b), MaxCredentialFileSize + 1}
  <2>1. T \subseteq Nat /\ T # {} /\ Len(b) \in T
    BY <1>1
  <2> HIDE DEF T
  <2>2. Min(T) \in T /\ Min(T) <= Len(b)
    BY <2>1, MinOf
  <2> QED BY <1>2, <2>2 DEF T
<1>4. k \in 0..Len(b)
  BY <1>1, <1>3
<1>5. Limited(b) = SubSeq(b, 1, k)
  BY <1>2, Zenon DEF Limited
<1> QED BY <1>4, <1>5, SubSeqPrefix

\* The password that is read is a non-empty prefix of the file, within the limit.
LEMMA PasswordOfFile ==
    ASSUME NEW b \in Text, Acceptable(Limited(b))
    PROVE  LET p == Chomp(Limited(b)) IN
           /\ p \in Text /\ Len(p) \in 1..MaxCredentialFileSize /\ ~Contains(p, {"NUL"})
           /\ Len(p) <= Len(b) /\ SubSeq(b, 1, Len(p)) = p
<1>1. PICK l \in Text : l = Limited(b) /\ Prefix(l, b)
  BY LimitedPrefix
<1>2. PICK p \in Text : p = Chomp(l) /\ Prefix(p, l)
  BY ChompPrefix
<1>3. Prefix(p, b)
  BY <1>1, <1>2, PrefixTransitive
<1>4. Len(l) <= MaxCredentialFileSize /\ p # << >> /\ ~Contains(p, {"NUL"})
  BY <1>1, <1>2, Zenon DEF Acceptable
<1>5. Len(p) \in 0..Len(l) /\ Len(p) \in 0..Len(b)
  BY <1>2, <1>3, Zenon DEF Prefix
<1>6. Len(p) # 0
  BY <1>4, EmptySeq DEF Text
<1>7. Len(l) \in Nat /\ Len(b) \in Nat
  BY DEF Text
<1>8. Len(p) \in 1..MaxCredentialFileSize /\ Len(p) <= Len(b)
  BY <1>4, <1>5, <1>6, <1>7, SizeAssumption
<1>9. SubSeq(b, 1, Len(p)) = p
  BY <1>3, Zenon DEF Prefix
<1> QED BY <1>1, <1>2, <1>4, <1>8, <1>9, Zenon

-----------------------------------------------------------------------------
\* What a concatenation contains is in one of its parts.
LEMMA ContainsConcat ==
    ASSUME NEW a \in Text, NEW b \in Text, NEW S, Contains(a \o b, S)
    PROVE  Contains(a, S) \/ Contains(b, S)
<1>1. PICK i \in DOMAIN (a \o b) : (a \o b)[i] \in S
  BY DEF Contains
<1>2. Len(a) \in Nat /\ Len(b) \in Nat /\ DOMAIN a = 1..Len(a) /\ DOMAIN b = 1..Len(b)
  BY LenProperties DEF Text
<1>3. i \in 1..(Len(a) + Len(b))
  BY ConcatProperties, LenProperties DEF Text
<1>4. CASE i <= Len(a)
  <2>1. i \in DOMAIN a /\ (a \o b)[i] = a[i]
    BY <1>2, <1>3, <1>4, ConcatProperties DEF Text
  <2> QED BY <1>1, <2>1 DEF Contains
<1>5. CASE ~(i <= Len(a))
  <2>1. i - Len(a) \in DOMAIN b /\ (a \o b)[i] = b[i - Len(a)]
    BY <1>2, <1>3, <1>5, ConcatProperties DEF Text
  <2> QED BY <1>1, <2>1 DEF Contains
<1> QED BY <1>4, <1>5

\* Texts of two characters and of one.
LEMMA Pair ==
    ASSUME NEW x \in Char, NEW y \in Char
    PROVE  /\ <<x, y>> \in Text /\ Len(<<x, y>>) = 2
           /\ \A S : Contains(<<x, y>>, S) => x \in S \/ y \in S
           /\ <<x>> \in Text /\ Len(<<x>>) = 1
           /\ \A S : Contains(<<x>>, S) => x \in S
<1>1. <<x, y>> \in Text /\ Len(<<x, y>>) = 2 /\ <<x>> \in Text /\ Len(<<x>>) = 1
  BY DEF Text
<1>2. \A S : Contains(<<x, y>>, S) => x \in S \/ y \in S
  BY DEF Contains
<1>3. \A S : Contains(<<x>>, S) => x \in S
  BY DEF Contains
<1> QED BY <1>1, <1>2, <1>3

\* t is the topic with base b, identifier x after position m and suffix s.
IsTopic(t, m, b, x, s) ==
    /\ t \in Text /\ m \in Nat
    /\ Len(t) = m + Len(x) + 2
    /\ \A k \in 1..Len(x) : t[m + k] = x[k]
    /\ \A S : Contains(t, S) => Contains(b, S) \/ Contains(x, S) \/ "/" \in S \/ s \in S

\* entityTopic yields such a topic.
LEMMA TopicConcat ==
    ASSUME NEW b \in Text, NEW x \in Text, NEW s \in Char
    PROVE  IsTopic(b \o <<"/">> \o x \o <<"/", s>>, Len(b \o <<"/">>), b, x, s)
<1>1. "/" \in Char
  BY DefaultAssumption
<1>2. PICK e \in Text : /\ e = <<"/", s>> /\ Len(e) = 2
                        /\ \A S : Contains(e, S) => "/" \in S \/ s \in S
  BY <1>1, Pair
<1>3. PICK c \in Text : c = <<"/">> /\ \A S : Contains(c, S) => "/" \in S
  BY <1>1, Pair
<1>4. PICK p : p = b \o c
  OBVIOUS
<1>5. p \in Text
  BY <1>4, ConcatProperties DEF Text
<1>6. PICK q : q = p \o x
  OBVIOUS
<1>7. q \in Text /\ Len(q) = Len(p) + Len(x) /\ \A k \in 1..Len(x) : q[Len(p) + k] = x[k]
  BY <1>5, <1>6, ConcatProperties DEF Text
<1>8. PICK t : t = q \o e
  OBVIOUS
<1>9. t \in Text /\ Len(t) = Len(q) + 2 /\ \A k \in 1..Len(q) : t[k] = q[k]
  BY <1>2, <1>7, <1>8, ConcatProperties DEF Text
<1>10. Len(p) \in Nat /\ Len(x) \in Nat
  BY <1>5 DEF Text
<1>11. \A k \in 1..Len(x) : t[Len(p) + k] = x[k]
  <2>1. \A k \in 1..Len(x) : Len(p) + k \in 1..Len(q)
    BY <1>7, <1>10
  <2> QED BY <1>7, <1>9, <2>1
<1>12. Len(t) = Len(p) + Len(x) + 2
  BY <1>7, <1>9, <1>10
<1>13. ASSUME NEW S, Contains(t, S)
       PROVE  Contains(b, S) \/ Contains(x, S) \/ "/" \in S \/ s \in S
  <2>1. Contains(q, S) \/ Contains(e, S)
    BY <1>7, <1>8, <1>13, ContainsConcat
  <2>2. Contains(q, S) => Contains(p, S) \/ Contains(x, S)
    BY <1>5, <1>6, ContainsConcat
  <2>3. Contains(p, S) => Contains(b, S) \/ Contains(c, S)
    BY <1>4, ContainsConcat
  <2> QED BY <1>2, <1>3, <2>1, <2>2, <2>3
<1>14. t = b \o <<"/">> \o x \o <<"/", s>> /\ p = b \o <<"/">>
  BY <1>2, <1>3, <1>4, <1>6, <1>8, Zenon
<1>15. IsTopic(t, Len(p), b, x, s)
  BY <1>9, <1>10, <1>11, <1>12, <1>13, Zenon DEF IsTopic
<1> QED BY <1>14, <1>15, Zenon

\* Topics of entities with different identifiers differ.
LEMMA TopicInjective ==
    ASSUME NEW b \in Text, NEW x \in Text, NEW y \in Text, NEW s \in Char, NEW u \in Char,
           b \o <<"/">> \o x \o <<"/", s>> = b \o <<"/">> \o y \o <<"/", u>>
    PROVE  x = y
<1>1. PICK m, t : m = Len(b \o <<"/">>) /\ t = b \o <<"/">> \o x \o <<"/", s>>
  OBVIOUS
<1>2. IsTopic(b \o <<"/">> \o x \o <<"/", s>>, Len(b \o <<"/">>), b, x, s)
  BY TopicConcat
<1>3. IsTopic(b \o <<"/">> \o y \o <<"/", u>>, Len(b \o <<"/">>), b, y, u)
  BY TopicConcat
<1>4. IsTopic(t, m, b, x, s) /\ IsTopic(t, m, b, y, u)
  BY <1>1, <1>2, <1>3, Zenon
<1>5. m \in Nat /\ Len(x) \in Nat /\ Len(y) \in Nat
  BY <1>4 DEF IsTopic, Text
<1>6. Len(x) = Len(y)
  BY <1>4, <1>5 DEF IsTopic
<1>7. \A k \in 1..Len(x) : x[k] = y[k]
  BY <1>4, <1>6, Zenon DEF IsTopic
<1> QED BY <1>6, <1>7, SeqEqual DEF Text

\* The command topic of an entity,
LEMMA TopicOf ==
    ASSUME IsConfig(cfg), NEW i \in DOMAIN cfg.entities
    PROVE  \E s \in {"set", "press"} :
              /\ Topic(i)
                   = cfg.text["base_topic"] \o <<"/">> \o cfg.entities[i].text["id"] \o <<"/", s>>
              /\ s \in Char /\ cfg.text["base_topic"] \in Text
              /\ cfg.entities[i].text["id"] \in Text
<1>1. cfg.text["base_topic"] \in Text
  <2>1. cfg.text \in [Field -> Text] /\ "base_topic" \in Field
    BY DEF IsConfig, Field
  <2> QED BY <2>1
<1>2. cfg.entities[i].text["id"] \in Text
  <2>1. cfg.entities[i].text \in [EntityField -> Text] /\ "id" \in EntityField
    BY DEF IsConfig, IsEntity, EntityField
  <2> QED BY <2>1
<1>3. "set" \in Char /\ "press" \in Char
  BY SuffixAssumption
<1>4. PICK s \in {"set", "press"} :
         s = IF cfg.entities[i].text["type"] = <<"switch">> THEN "set" ELSE "press"
  OBVIOUS
<1>5. Topic(i) = cfg.text["base_topic"] \o <<"/">> \o cfg.entities[i].text["id"] \o <<"/", s>>
  BY <1>4, Zenon DEF Topic, CommandTopic, EntityTopic
<1> QED BY <1>1, <1>2, <1>3, <1>5

\* which is a text.
LEMMA TopicTypes ==
    ASSUME IsConfig(cfg), NEW i \in DOMAIN cfg.entities
    PROVE  Topic(i) \in Text
<1>1. PICK s \in {"set", "press"} :
         /\ Topic(i) = cfg.text["base_topic"] \o <<"/">> \o cfg.entities[i].text["id"] \o <<"/", s>>
         /\ s \in Char /\ cfg.text["base_topic"] \in Text /\ cfg.entities[i].text["id"] \in Text
  BY TopicOf
<1>2. PICK b \in Text, x \in Text : b = cfg.text["base_topic"] /\ x = cfg.entities[i].text["id"]
  BY <1>1, Zenon
<1>3. b \o <<"/">> \o x \o <<"/", s>> \in Text
  BY <1>1, TopicConcat DEF IsTopic
<1> QED BY <1>1, <1>2, <1>3, Zenon

\* An identifier contains no wildcard.
LEMMA IDWithout ==
    ASSUME NEW t, IsID(t)
    PROVE  ~Contains(t, {"+", "#"})
BY DEF IsID, Contains, Lower, Digit

\* An accepted configuration's topics can all be subscribed.
LEMMA Subscribable ==
    ASSUME IsConfig(cfg), ValidRest(cfg)
    PROVE  ~Unsubscribable
<1>1. ASSUME NEW i \in Commanded, NEW j \in Commanded, i # j, Topic(i) = Topic(j) PROVE FALSE
  <2>1. i \in DOMAIN cfg.entities /\ j \in DOMAIN cfg.entities
    BY DEF Commanded
  <2>2. cfg.entities[i].text["id"] # cfg.entities[j].text["id"]
    BY <1>1, <2>1, Zenon DEF ValidRest, ValidEntities
  <2>3. PICK s \in {"set", "press"} :
           /\ Topic(i)
                = cfg.text["base_topic"] \o <<"/">> \o cfg.entities[i].text["id"] \o <<"/", s>>
           /\ s \in Char /\ cfg.text["base_topic"] \in Text /\ cfg.entities[i].text["id"] \in Text
    BY <2>1, TopicOf
  <2>4. PICK u \in {"set", "press"} :
           /\ Topic(j)
                = cfg.text["base_topic"] \o <<"/">> \o cfg.entities[j].text["id"] \o <<"/", u>>
           /\ u \in Char /\ cfg.entities[j].text["id"] \in Text
    BY <2>1, TopicOf
  <2>5. PICK b \in Text, x \in Text, y \in Text :
           /\ b = cfg.text["base_topic"]
           /\ x = cfg.entities[i].text["id"] /\ y = cfg.entities[j].text["id"]
    BY <2>3, <2>4, Zenon
  <2>6. b \o <<"/">> \o x \o <<"/", s>> = b \o <<"/">> \o y \o <<"/", u>>
    BY <1>1, <2>3, <2>4, <2>5, Zenon
  <2>7. x = y
    <3>1. s \in Char /\ u \in Char
      BY <2>3, <2>4, Zenon
    <3> QED BY <2>6, <3>1, TopicInjective
  <2> QED BY <2>2, <2>5, <2>7, Zenon
<1>2. ASSUME NEW i \in Commanded, Contains(Topic(i), {"+", "#"}) PROVE FALSE
  <2>1. i \in DOMAIN cfg.entities
    BY DEF Commanded
  <2>2. PICK s \in {"set", "press"} :
           /\ Topic(i)
                = cfg.text["base_topic"] \o <<"/">> \o cfg.entities[i].text["id"] \o <<"/", s>>
           /\ s \in Char /\ cfg.text["base_topic"] \in Text /\ cfg.entities[i].text["id"] \in Text
    BY <2>1, TopicOf
  <2>3. ~Contains(cfg.text["base_topic"], {"+", "#"})
    BY Zenon DEF ValidRest, ValidDevice, TopicPrefix
  <2>4. ~Contains(cfg.entities[i].text["id"], {"+", "#"})
    <3>1. IsID(cfg.entities[i].text["id"])
      BY <2>1, Zenon DEF ValidRest, ValidEntities, ValidEntity
    <3> QED BY <3>1, IDWithout
  <2>5. "/" \notin {"+", "#"} /\ s \notin {"+", "#"}
    OBVIOUS
  <2>6. PICK b \in Text, x \in Text : b = cfg.text["base_topic"] /\ x = cfg.entities[i].text["id"]
    BY <2>2, Zenon
  <2>7. PICK t, m : t = b \o <<"/">> \o x \o <<"/", s>> /\ IsTopic(t, m, b, x, s)
    BY <2>2, TopicConcat
  <2>8. Contains(t, {"+", "#"}) => Contains(b, {"+", "#"}) \/ Contains(x, {"+", "#"})
    BY <2>5, <2>7, Zenon DEF IsTopic
  <2> QED BY <1>2, <2>2, <2>3, <2>4, <2>6, <2>7, <2>8, Zenon
<1> QED BY <1>1, <1>2, Zenon DEF Unsubscribable

-----------------------------------------------------------------------------
\* A checked duration with a positive default is positive.
LEMMA DurationPositive ==
    ASSUME NEW t, t # << >> => PositiveDuration(t), NEW d \in Int, d > 0
    PROVE  ~(DurationOr(t, d) <= 0)
<1>1. CASE t \in DOMAIN ParseDuration
  <2>1. t # << >>
    BY <1>1, DurationAssumption
  <2>2. ParseDuration[t] > 0 /\ ParseDuration[t] \in Int
    BY <1>1, <2>1, DurationAssumption DEF PositiveDuration
  <2>3. DurationOr(t, d) = ParseDuration[t]
    BY <1>1 DEF DurationOr
  <2> QED BY <2>2, <2>3
<1>2. CASE t \notin DOMAIN ParseDuration
  BY <1>2 DEF DurationOr
<1> QED BY <1>1, <1>2

\* New cannot fail on a configuration that Validate accepted.
LEMMA ClientCanBeBuilt ==
    ASSUME ValidMQTT(cfg), ValidRest(cfg)
    PROVE  ~Unbuildable
<1>1. PICK u : u = ParseURL[cfg.text["broker"]]
  OBVIOUS
<1>2. PICK scheme, host, port : scheme = u.scheme /\ host = u.host /\ port = u.port
  OBVIOUS
<1>3. scheme = "unix" \/ (host # "none" /\ 1 <= port)
  <2>1. ValidBroker(cfg)
    BY DEF ValidMQTT
  <2> QED BY <1>1, <1>2, <2>1 DEF ValidBroker
<1>4. ~(1 <= Unset)
  BY DEF Unset
<1>5. ~(u.scheme # "unix" /\ (u.host = "none" \/ u.port = Unset))
  <2>1. ~(scheme # "unix" /\ (host = "none" \/ port = Unset))
    BY <1>3, <1>4
  <2> QED BY <1>2, <2>1, Zenon
<1>6. IsSecure(cfg) => ValidTLS(cfg)
  BY DEF ValidRest
<1>7. MQTTQoS(cfg) \in 0..2
  BY DEF ValidRest, ValidDevice
<1>8. ASSUME NEW t \in {"keep_alive", "connect_timeout"}
      PROVE  cfg.text[t] # << >> => PositiveDuration(cfg.text[t])
  BY Zenon DEF ValidRest, ValidDevice, Given
<1>9. ~(DurationOr(cfg.text["keep_alive"], 30) <= 0)
  BY <1>8, DurationPositive
<1>10. ~(DurationOr(cfg.text["connect_timeout"], 10) <= 0)
  BY <1>8, DurationPositive
<1> QED BY <1>1, <1>5, <1>6, <1>7, <1>9, <1>10 DEF Unbuildable

\* On a machine that the configuration suits, no request for a line fails.
LEMMA LinesAvailable ==
    ASSUME ValidRest(cfg), Suited,
           NEW ds, ds \subseteq Declared(cfg), open \subseteq Declared(cfg)
    PROVE  ~Unavailable(ds)
<1>1. \A d \in ds : Exists(d)
  BY DEF Suited
<1>2. ASSUME NEW d \in ds, NEW e \in ds \cup open, d # e, Physical(d) = Physical(e)
      PROVE  FALSE
  <2>1. d \in Declared(cfg) /\ e \in Declared(cfg)
    BY <1>2
  <2>2. Key(cfg, d) = Key(cfg, e)
    BY <1>2, <2>1, Zenon DEF Suited
  <2>3. Key(cfg, d) # Key(cfg, e)
    BY <1>2, <2>1, Zenon DEF ValidRest, ValidGPIO, Distinct
  <2> QED BY <2>2, <2>3
<1> QED BY <1>1, <1>2, Zenon DEF Unavailable

\* The kernel is asked for what the inputs of an accepted configuration say.
LEMMA InputsSound ==
    ASSUME ValidRest(cfg), NEW n \in DOMAIN cfg.inputs
    PROVE  /\ ~(/\ cfg.inputs[n].debounce # << >>
                /\ cfg.inputs[n].debounce \notin DOMAIN ParseDuration)
           /\ ~Misrequested(n)
<1>1. PICK b, t : b = cfg.inputs[n].bias /\ t = cfg.inputs[n].debounce
  OBVIOUS
<1>2. b \in {<<"disabled">>, <<"pull_up">>, <<"pull_down">>} /\ (t # << >> => PositiveDuration(t))
  BY <1>1, Zenon DEF ValidRest, ValidGPIO
<1>3. t # << >> => t \in DOMAIN ParseDuration /\ ~(ParseDuration[t] <= 0)
  <2>1. ASSUME t # << >> PROVE t \in DOMAIN ParseDuration /\ ~(ParseDuration[t] <= 0)
    <3>1. t \in DOMAIN ParseDuration /\ ParseDuration[t] > 0
      BY <1>2, <2>1, Zenon DEF PositiveDuration
    <3>2. ParseDuration[t] \in Int
      BY <3>1, DurationAssumption
    <3> QED BY <3>1, <3>2
  <2> QED BY <2>1
<1>4. b \in {<<"pull_up">>, <<"pull_down">>, <<"disabled">>}
  BY <1>2, Zenon
<1> QED BY <1>1, <1>3, <1>4, Zenon DEF Misrequested

\* No action of an accepted configuration can fail.
LEMMA ActionSound ==
    ASSUME ValidRest(cfg), open = Declared(cfg), NEW a, ValidAction(cfg, a)
    PROVE  ~ActionFault(a)
<1>1. PICK type : type = a.text["type"]
  OBVIOUS
<1>2. <<"gpio">> # <<"command">> /\ <<"gpio">> # <<"delay">> /\ <<"gpio">> # <<"mqtt">>
      /\ <<"command">> # <<"delay">> /\ <<"command">> # <<"mqtt">> /\ <<"delay">> # <<"mqtt">>
  OBVIOUS
<1>3. CASE type = <<"gpio">>
  <2>1. a.text["gpio"] \in DOMAIN cfg.outputs /\ a.value # Unset
    BY <1>1, <1>2, <1>3, Zenon DEF ValidAction
  <2>2. <<"output", a.text["gpio"]>> \in open
    BY <2>1 DEF Declared
  <2>3. ActionFault(a) = (<<"output", a.text["gpio"]>> \notin open \/ a.value = Unset)
    BY <1>1, <1>2, <1>3 DEF ActionFault
  <2> QED BY <2>1, <2>2, <2>3
<1>4. CASE type = <<"command">>
  <2>1. /\ IsAbs(a.text["command"])
        /\ a.text["timeout"] # << >> => PositiveDuration(a.text["timeout"])
    BY <1>1, <1>2, <1>4, Zenon DEF ValidAction, ValidCommand
  <2>2. ~(DurationOr(a.text["timeout"], 10) <= 0)
    BY <2>1, DurationPositive
  <2>3. ActionFault(a) = (~IsAbs(a.text["command"]) \/ DurationOr(a.text["timeout"], 10) <= 0)
    BY <1>1, <1>2, <1>4 DEF ActionFault
  <2> QED BY <2>1, <2>2, <2>3
<1>5. CASE type = <<"delay">>
  <2>1. a.text["duration"] \in DOMAIN ParseDuration
    BY <1>1, <1>2, <1>5, Zenon DEF ValidAction, PositiveDuration
  <2>2. ActionFault(a) = (a.text["duration"] \notin DOMAIN ParseDuration)
    BY <1>1, <1>2, <1>5 DEF ActionFault
  <2> QED BY <2>1, <2>2
<1>6. CASE type = <<"mqtt">>
  <2>1. /\ a.text["topic"] # << >> /\ ~Contains(a.text["topic"], {"+", "#"})
        /\ a.qos = Unset \/ a.qos \in 0..2
    BY <1>1, <1>2, <1>6, Zenon DEF ValidAction, TopicPrefix
  <2>2. MQTTQoS(cfg) \in 0..2
    BY DEF ValidRest, ValidDevice
  <2>3. ActionFault(a) = (\/ a.text["topic"] = << >> \/ Contains(a.text["topic"], {"+", "#"})
                          \/ (IF a.qos = Unset THEN MQTTQoS(cfg) ELSE a.qos) \notin 0..2)
    BY <1>1, <1>2, <1>6 DEF ActionFault
  <2> QED BY <2>1, <2>2, <2>3, Zenon
<1> QED BY <1>1, <1>3, <1>4, <1>5, <1>6, Zenon DEF ValidAction

\* validateEntities has checked the list that a command executes.
LEMMA ListsSound ==
    ASSUME ValidRest(cfg), open = Declared(cfg), NEW i \in DOMAIN cfg.entities,
           NEW list \in Lists(cfg.entities[i]), NEW k \in DOMAIN list
    PROVE  ~ActionFault(list[k])
<1>1. PICK e : e = cfg.entities[i]
  OBVIOUS
<1>2. ValidEntity(cfg, e)
  BY <1>1, Zenon DEF ValidRest, ValidEntities
<1>3. /\ <<"switch">> # <<"button">> /\ <<"switch">> # <<"binary_sensor">>
      /\ <<"button">> # <<"binary_sensor">>
  OBVIOUS
<1>4. ValidActions(cfg, list)
  <2>1. CASE e.text["type"] = <<"switch">>
    <3>1. Lists(e) = {e.on, e.off}
      BY <1>3, <2>1 DEF Lists
    <3>2. ValidActions(cfg, e.on) /\ ValidActions(cfg, e.off)
      BY <1>2, <1>3, <2>1, Zenon DEF ValidEntity
    <3> QED BY <1>1, <3>1, <3>2, Zenon
  <2>2. CASE e.text["type"] = <<"button">>
    <3>1. Lists(e) = {e.press}
      BY <1>3, <2>2 DEF Lists
    <3>2. ValidActions(cfg, e.press)
      BY <1>2, <1>3, <2>2, Zenon DEF ValidEntity
    <3> QED BY <1>1, <3>1, <3>2, Zenon
  <2>3. CASE e.text["type"] = <<"binary_sensor">>
    <3>1. Lists(e) = {}
      BY <1>3, <2>3 DEF Lists
    <3> QED BY <1>1, <3>1, Zenon
  <2> QED BY <1>2, <2>1, <2>2, <2>3, Zenon DEF ValidEntity
<1>5. ValidAction(cfg, list[k])
  BY <1>4, Zenon DEF ValidActions
<1> QED BY <1>5, ActionSound

\* The line that shows the state of an entity is open.
LEMMA StatesReadable ==
    ASSUME ValidRest(cfg), open = Declared(cfg), NEW i \in DOMAIN cfg.entities,
           NEW t, t = cfg.entities[i].text
    PROVE  /\ ~(/\ t["type"] = <<"switch">> /\ t["state_type"] = <<"gpio">>
                /\ <<"output", t["state_gpio"]>> \notin open)
           /\ ~(/\ t["type"] = <<"binary_sensor">>
                /\ <<"input", t["source_gpio"]>> \notin open)
<1>1. ValidEntity(cfg, cfg.entities[i])
  BY Zenon DEF ValidRest, ValidEntities
<1>2. /\ <<"switch">> # <<"button">> /\ <<"switch">> # <<"binary_sensor">>
      /\ <<"button">> # <<"binary_sensor">> /\ <<"memory">> # <<"gpio">>
  OBVIOUS
<1>3. t["type"] = <<"switch">> /\ t["state_type"] = <<"gpio">>
      => t["state_gpio"] \in DOMAIN cfg.outputs
  BY <1>1, <1>2, Zenon DEF ValidEntity
<1>4. t["type"] = <<"binary_sensor">> => t["source_gpio"] \in DOMAIN cfg.inputs
  BY <1>1, <1>2, Zenon DEF ValidEntity
<1>5. \A n \in DOMAIN cfg.outputs : <<"output", n>> \in Declared(cfg)
  BY DEF Declared
<1>6. \A n \in DOMAIN cfg.inputs : <<"input", n>> \in Declared(cfg)
  BY DEF Declared
<1> QED BY <1>3, <1>4, <1>5, <1>6, Zenon

-----------------------------------------------------------------------------
\* The inductive invariant holds at first,
LEMMA InitIInv == Init => IInv
<1> SUFFICES ASSUME Init PROVE IInv
  OBVIOUS
<1>1. PICK in \in Inputs : raw = in[1] /\ env = in[2]
  BY DEF Init
<1>2. IsConfig(raw) /\ \A v \in DOMAIN env : {v, env[v]} \subseteq Text
  BY <1>1, InputAssumption, Zenon
<1>3. Sources
  BY <1>2 DEF Sources, IsEnvironment
<1>4. << >> \in Text /\ << >> \in {<< >>}
  BY DEF Text
<1>5. path \in Inode \cup {NoInode}
  BY DEF Init
<1>6. file \in [Inode -> [bytes : Text, regular : BOOLEAN, private : BOOLEAN]]
  <2>1. PICK B : /\ B \subseteq Text
                 /\ file \in [Inode -> [bytes : B, regular : {TRUE}, private : {TRUE}]]
    <3>1. CASE Given(raw, "password_file")
      BY <3>1, FileAssumption DEF Init
    <3>2. CASE ~Given(raw, "password_file")
      BY <1>4, <3>2 DEF Init
    <3> QED BY <3>1, <3>2
  <2> QED BY <2>1
<1>7. TypeOK
  <2>1. /\ cfg = raw /\ stage = "decoded" /\ step = "idle" /\ handle = NoInode
        /\ vetted = NoInode /\ password = << >> /\ open = {} /\ topics = {}
        /\ fault = FALSE /\ changes = 0
    BY DEF Init, NoPassword
  <2>2. password \in Text
    BY <1>4, <2>1, Zenon
  <2>3. IsConfig(cfg)
    BY <1>2, <2>1, Zenon
  <2>4. 0 \in 0..MaxChanges
    BY SizeAssumption
  <2>5. stage = "decoded" /\ step = "idle" /\ handle = NoInode /\ vetted = NoInode
        /\ open = {} /\ topics = {} /\ fault = FALSE /\ changes = 0
    BY <2>1
  <2> QED BY <1>5, <1>6, <2>2, <2>3, <2>4, <2>5 DEF TypeOK
<1>8. Loaded /\ Validated /\ Opened /\ Vetted
  BY DEF Init, Loaded, Validated, Accepted, Opened, Vetted
<1> QED BY <1>3, <1>7, <1>8 DEF IInv

\* and every action keeps it.
LEMMA StepExpandConfig == IInv /\ ExpandConfig => IInv'
<1> SUFFICES ASSUME IInv, ExpandConfig PROVE IInv'
  OBVIOUS
<1> USE DEF IInv
<1>1. cfg = raw /\ IsConfig(raw) /\ IsEnvironment(env)
  BY DEF ExpandConfig, Loaded, Sources
<1>2. IsConfig(cfg')
  BY <1>1, ExpandConfigType DEF ExpandConfig
<1>3. open = {}
  BY DEF ExpandConfig, Opened
<1>4. TypeOK'
  BY <1>2, <1>3 DEF TypeOK, ExpandConfig, files, reading, daemon
<1>5. Sources'
  BY DEF Sources, ExpandConfig, input
<1>6. Loaded'
  BY <1>1 DEF Loaded, ExpandConfig, input
<1>7. Validated'
  BY DEF Validated, Accepted, ExpandConfig, reading
<1>8. Opened' /\ Vetted'
  BY <1>3 DEF Opened, Vetted, Validated, ExpandConfig, reading, daemon
<1> QED BY <1>4, <1>5, <1>6, <1>7, <1>8

\* applyDefaults keeps the invariant.
LEMMA StepDefaults == IInv /\ Defaults => IInv'
<1> SUFFICES ASSUME IInv, Defaults PROVE IInv'
  OBVIOUS
<1> USE DEF IInv
<1>1. IsConfig(cfg')
  BY ApplyDefaultsType DEF Defaults, TypeOK
<1>2. open = {} /\ step = "idle"
  BY DEF Defaults, Opened, Validated
<1>3. TypeOK'
  BY <1>1, <1>2 DEF TypeOK, Defaults, files, reading, daemon
<1>4. Sources' /\ Loaded'
  BY DEF Sources, Loaded, Defaults, input
<1>5. Validated' /\ Opened' /\ Vetted'
  BY <1>2 DEF Validated, Accepted, Opened, Vetted, Defaults, reading, daemon
<1> QED BY <1>3, <1>4, <1>5

\* validateMQTT keeps the invariant.
LEMMA StepValidateMQTT == IInv /\ ValidateMQTT => IInv'
<1> SUFFICES ASSUME IInv, ValidateMQTT PROVE IInv'
  OBVIOUS
<1> USE DEF IInv
<1>1. TypeOK'
  BY DEF TypeOK, ValidateMQTT, files, daemon
<1>2. Sources' /\ Loaded'
  BY DEF Sources, Loaded, ValidateMQTT, input
<1>3. Validated'
  BY DEF Validated, Accepted, ValidateMQTT
<1>4. Opened' /\ Vetted'
  BY DEF Opened, Vetted, ValidateMQTT, daemon
<1> QED BY <1>1, <1>2, <1>3, <1>4

\* The rest of Validate keeps the invariant.
LEMMA StepValidateRest == IInv /\ ValidateRest => IInv'
<1> SUFFICES ASSUME IInv, ValidateRest PROVE IInv'
  OBVIOUS
<1> USE DEF IInv
<1>1. TypeOK'
  BY DEF TypeOK, ValidateRest, files, daemon
<1>2. Sources' /\ Loaded'
  BY DEF Sources, Loaded, ValidateRest, input
<1>3. Validated'
  BY DEF Validated, Accepted, ValidateRest
<1>4. Opened' /\ Vetted'
  BY DEF Opened, Vetted, Validated, ValidateRest, daemon
<1> QED BY <1>1, <1>2, <1>3, <1>4

\* The start of MQTTPassword keeps the invariant.
LEMMA StepClientPassword == IInv /\ ClientPassword => IInv'
<1> SUFFICES ASSUME IInv, ClientPassword PROVE IInv'
  OBVIOUS
<1> USE DEF IInv
<1>1. cfg.text["password"] \in Text
  <2>1. cfg.text \in [Field -> Text] /\ "password" \in Field
    BY DEF TypeOK, IsConfig, Field
  <2> QED BY <2>1
<1>2. TypeOK'
  BY <1>1 DEF TypeOK, ClientPassword, files, daemon
<1>3. Sources' /\ Loaded'
  BY DEF Sources, Loaded, ClientPassword, input
<1>4. Validated'
  BY DEF Validated, Accepted, ClientPassword
<1>5. Opened' /\ Vetted'
  BY DEF Opened, Vetted, ClientPassword, daemon
<1> QED BY <1>2, <1>3, <1>4, <1>5

\* Opening the password file keeps the invariant.
LEMMA StepOpen == IInv /\ Open => IInv'
<1> SUFFICES ASSUME IInv, Open PROVE IInv'
  OBVIOUS
<1> USE DEF IInv
<1>1. TypeOK'
  BY FileAssumption DEF TypeOK, Open, Refuse, files, daemon
<1>2. Sources' /\ Loaded'
  BY DEF Sources, Loaded, Validated, Open, Refuse, input
<1>3. Validated'
  BY DEF Validated, Accepted, Open, Refuse
<1>4. Opened' /\ Vetted'
  BY DEF Opened, Vetted, Validated, Open, Refuse, daemon
<1> QED BY <1>1, <1>2, <1>3, <1>4

\* Examining the open file keeps the invariant.
LEMMA StepStat == IInv /\ Stat => IInv'
<1> SUFFICES ASSUME IInv, Stat PROVE IInv'
  OBVIOUS
<1> USE DEF IInv
<1>1. \/ step' = "read" /\ vetted' = handle /\ UNCHANGED <<stage, handle>>
      \/ Refuse /\ UNCHANGED vetted
  BY Zenon DEF Stat, Examined
<1>2. step = "stat" /\ UNCHANGED <<input, cfg, files, password, daemon>>
  BY DEF Stat
<1>3. TypeOK'
  BY <1>1, <1>2, FileAssumption DEF TypeOK, Refuse, files, daemon
<1>4. Sources' /\ Loaded'
  BY <1>1, <1>2 DEF Sources, Loaded, Validated, Refuse, input
<1>5. Validated'
  BY <1>1, <1>2 DEF Validated, Accepted, Refuse
<1>6. Opened' /\ Vetted'
  BY <1>1, <1>2 DEF Opened, Vetted, Validated, Refuse, daemon
<1> QED BY <1>3, <1>4, <1>5, <1>6

\* Reading the file keeps the invariant: the password is what PasswordOfFile says.
LEMMA StepRead == IInv /\ Read => IInv'
<1> SUFFICES ASSUME IInv, Read PROVE IInv'
  OBVIOUS
<1> USE DEF IInv
<1>1. step = "read" /\ UNCHANGED <<input, cfg, files, vetted, daemon>>
  BY DEF Read
<1>2. handle \in Inode /\ handle # NoInode /\ vetted = handle
  BY <1>1 DEF TypeOK, Vetted
<1>3. PICK b \in Text : b = file[handle].bytes
  BY <1>2 DEF TypeOK
<1>4. PICK p : p = Chomp(Limited(b))
  OBVIOUS
<1>5. \/ Refuse /\ UNCHANGED password
      \/ /\ Acceptable(Limited(b)) /\ handle' = NoInode
         /\ \/ stage = "client" /\ stage' = "built" /\ step' = "idle" /\ password' = p
            \/ stage # "client" /\ step' = "rest" /\ UNCHANGED <<stage, password>>
  BY <1>3, <1>4, Zenon DEF Read
<1>6. CASE Refuse /\ UNCHANGED password
  <2>1. TypeOK'
    BY <1>1, <1>6, FileAssumption DEF TypeOK, Refuse, files, daemon
  <2>2. Sources' /\ Loaded'
    BY <1>1, <1>6 DEF Sources, Loaded, Refuse, input
  <2>3. Validated'
    BY <1>1, <1>6 DEF Validated, Accepted, Refuse
  <2>4. Opened' /\ Vetted'
    BY <1>1, <1>6 DEF Opened, Vetted, Validated, Refuse, daemon
  <2> QED BY <2>1, <2>2, <2>3, <2>4
<1>7. CASE /\ Acceptable(Limited(b)) /\ handle' = NoInode
           /\ stage = "client" /\ stage' = "built" /\ step' = "idle" /\ password' = p
  <2>1. /\ p \in Text /\ Len(p) \in 1..MaxCredentialFileSize /\ ~Contains(p, {"NUL"})
        /\ Len(p) <= Len(b) /\ SubSeq(b, 1, Len(p)) = p
    BY <1>4, <1>7, PasswordOfFile, Zenon
  <2>2. Checked'
    <3>1. vetted' = handle /\ file'[vetted'].bytes = b /\ password' = p
      BY <1>1, <1>2, <1>3, <1>7 DEF files
    <3> QED BY <1>2, <2>1, <3>1, Zenon DEF Checked
  <2>3. TypeOK'
    BY <1>1, <1>7, <2>1, FileAssumption DEF TypeOK, files, daemon
  <2>4. Sources' /\ Loaded'
    BY <1>1, <1>7 DEF Sources, Loaded, input
  <2>5. Validated'
    BY <1>1, <1>7 DEF Validated, Accepted
  <2>6. Opened' /\ Vetted'
    BY <1>1, <1>7, <2>2 DEF Opened, Vetted, Validated, daemon
  <2> QED BY <2>3, <2>4, <2>5, <2>6
<1>8. CASE /\ Acceptable(Limited(b)) /\ handle' = NoInode
           /\ stage # "client" /\ step' = "rest" /\ UNCHANGED <<stage, password>>
  <2>1. TypeOK'
    BY <1>1, <1>8, FileAssumption DEF TypeOK, files, daemon
  <2>2. Sources' /\ Loaded'
    BY <1>1, <1>8 DEF Sources, Loaded, input
  <2>3. Validated'
    BY <1>1, <1>8 DEF Validated, Accepted
  <2>4. Opened' /\ Vetted'
    BY <1>1, <1>8 DEF Opened, Vetted, Validated, daemon
  <2> QED BY <2>1, <2>2, <2>3, <2>4
<1> QED BY <1>5, <1>6, <1>7, <1>8

\* Others change files only while the password file is read.
LEMMA StepFiles ==
    IInv /\ Change
         /\ path' \in Inode \cup {NoInode}
         /\ file' \in [Inode -> [bytes : Text, regular : BOOLEAN, private : BOOLEAN]]
    => IInv'
<1> SUFFICES ASSUME IInv, Change, path' \in Inode \cup {NoInode},
                    file' \in [Inode -> [bytes : Text, regular : BOOLEAN, private : BOOLEAN]]
             PROVE  IInv'
  OBVIOUS
<1> USE DEF IInv
<1>1. step \in {"open", "stat", "read"} /\ UNCHANGED <<input, cfg, stage, reading, daemon>>
  BY DEF Change
<1>2. stage \in {"load", "new", "client"}
  BY <1>1 DEF Validated
<1>3. changes' \in 0..MaxChanges
  <2>1. changes \in 0..MaxChanges
    BY DEF TypeOK
  <2>2. changes < MaxChanges /\ changes' = changes + 1
    BY DEF Change
  <2> QED BY <2>1, <2>2, SizeAssumption
<1>4. TypeOK'
  BY <1>1, <1>3 DEF TypeOK, reading, daemon
<1>5. Sources' /\ Loaded'
  BY <1>1 DEF Sources, Loaded, input
<1>6. Validated'
  BY <1>1 DEF Validated, Accepted, reading
<1>7. Opened' /\ Vetted'
  BY <1>1, <1>2 DEF Opened, Vetted, reading, daemon
<1> QED BY <1>4, <1>5, <1>6, <1>7

\* Another file at the path changes nothing of what is open or vetted.
LEMMA StepSwap == IInv /\ Swap => IInv'
<1> SUFFICES ASSUME IInv, Swap PROVE IInv'
  OBVIOUS
<1>1. Change /\ path' \in Inode \cup {NoInode}
  BY DEF Swap
<1>2. file' \in [Inode -> [bytes : Text, regular : BOOLEAN, private : BOOLEAN]]
  BY DEF Swap, IInv, TypeOK
<1> QED BY <1>1, <1>2, StepFiles

\* Appending to the vetted file keeps the password its prefix.
LEMMA StepGrow == ASSUME NEW i \in Inode PROVE IInv /\ Grow(i) => IInv'
<1> SUFFICES ASSUME IInv, Grow(i) PROVE IInv'
  OBVIOUS
<1>1. PICK c \in {"x", "\n", "NUL"} : file' = [file EXCEPT ![i].bytes = Append(@, c)]
  BY DEF Grow
<1>2. c \in Char
  BY SuffixAssumption
<1>3. file \in [Inode -> [bytes : Text, regular : BOOLEAN, private : BOOLEAN]]
  BY DEF IInv, TypeOK
<1>4. PICK b \in Text : b = file[i].bytes
  BY <1>3
<1>5. PICK d \in Text : d = Append(b, c)
  BY <1>2, AppendProperties DEF Text
<1>6. file' = [file EXCEPT ![i].bytes = d]
  BY <1>1, <1>4, <1>5, Zenon
<1>7. file' \in [Inode -> [bytes : Text, regular : BOOLEAN, private : BOOLEAN]]
  BY <1>3, <1>6
<1>8. Change /\ path' \in Inode \cup {NoInode}
  BY DEF Grow, IInv, TypeOK
<1> QED BY <1>7, <1>8, StepFiles

\* A change of the mode keeps the invariant.
LEMMA StepChmod == ASSUME NEW i \in Inode PROVE IInv /\ Chmod(i) => IInv'
<1> SUFFICES ASSUME IInv, Chmod(i) PROVE IInv'
  OBVIOUS
<1>1. file \in [Inode -> [bytes : Text, regular : BOOLEAN, private : BOOLEAN]]
  BY DEF IInv, TypeOK
<1>2. file' \in [Inode -> [bytes : Text, regular : BOOLEAN, private : BOOLEAN]]
  <2>1. CASE file' = [file EXCEPT ![i].private = ~@]
    BY <1>1, <2>1
  <2>2. CASE file' = [file EXCEPT ![i].regular = ~@]
    BY <1>1, <2>2
  <2> QED BY <2>1, <2>2 DEF Chmod
<1>3. Change /\ path' \in Inode \cup {NoInode}
  BY DEF Chmod, IInv, TypeOK
<1> QED BY <1>2, <1>3, StepFiles

\* run() fails, or goes from one stage after the validation to a later one.
LEMMA StepRun ==
    ASSUME IInv, step = "idle", UNCHANGED <<input, cfg, files, reading>>,
           topics' \subseteq Text, fault' \in BOOLEAN,
           \/ Fail
           \/ /\ stage \in {"built", "client built", "outputs", "registered", "running"}
              /\ \/ stage' \in {"client built", "checked"} /\ open = {} /\ open' = {}
                 \/ stage' \in {"outputs", "registered"} /\ open' = {"output"} \X DOMAIN cfg.outputs
                 \/ stage' = "running" /\ open' = Declared(cfg)
    PROVE  IInv'
<1> USE DEF IInv
<1>1. CASE Fail
  <2>1. TypeOK'
    BY <1>1 DEF TypeOK, Fail, files, reading
  <2>2. Sources' /\ Loaded'
    BY <1>1 DEF Sources, Loaded, Fail, input
  <2>3. Validated'
    BY <1>1 DEF Validated, Accepted, Fail, reading
  <2>4. Opened' /\ Vetted'
    BY <1>1 DEF Opened, Vetted, Fail, reading
  <2> QED BY <2>1, <2>2, <2>3, <2>4
<1>2. CASE /\ stage \in {"built", "client built", "outputs", "registered", "running"}
           /\ \/ stage' \in {"client built", "checked"} /\ open = {} /\ open' = {}
              \/ stage' \in {"outputs", "registered"} /\ open' = {"output"} \X DOMAIN cfg.outputs
              \/ stage' = "running" /\ open' = Declared(cfg)
  <2>1. open' \subseteq Declared(cfg)
    BY <1>2 DEF Declared
  <2>2. stage' \in {"client built", "checked", "outputs", "registered", "running"}
    BY <1>2
  <2>3. TypeOK'
    BY <2>1, <2>2 DEF TypeOK, files, reading
  <2>4. Sources' /\ Loaded'
    BY <2>2 DEF Sources, Loaded, input
  <2>5. Validated'
    BY <1>2, <2>2 DEF Validated, Accepted, reading
  <2>6. Opened'
    BY <1>2 DEF Opened
  <2>7. Vetted'
    <3>1. Checked => Checked'
      BY Zenon DEF Checked, files, reading
    <3> QED BY <1>2, <3>1 DEF Vetted, reading
  <2> QED BY <2>3, <2>4, <2>5, <2>6, <2>7
<1> QED BY <1>1, <1>2

\* The rest of New keeps the invariant.
LEMMA StepNewClient == IInv /\ NewClient => IInv'
<1> SUFFICES ASSUME IInv, NewClient PROVE IInv'
  OBVIOUS
<1>1. stage = "built" /\ UNCHANGED <<input, cfg, files, reading, topics>>
  BY DEF NewClient
<1>2. Fail \/ (stage' = "client built" /\ UNCHANGED <<fault, open>>)
  BY DEF NewClient
<1>3. step = "idle" /\ open = {}
  BY <1>1 DEF IInv, TypeOK, Validated, Opened
<1>4. topics' \subseteq Text /\ fault' \in BOOLEAN
  BY <1>1, <1>2 DEF IInv, TypeOK, Fail
<1> QED BY <1>1, <1>2, <1>3, <1>4, StepRun

\* --check keeps the invariant.
LEMMA StepCheck == IInv /\ Check => IInv'
<1> SUFFICES ASSUME IInv, Check PROVE IInv'
  OBVIOUS
<1>1. /\ stage = "client built" /\ stage' = "checked"
      /\ UNCHANGED <<input, cfg, files, reading, daemon>>
  BY DEF Check
<1>2. step = "idle" /\ open = {} /\ open' = {}
  BY <1>1 DEF IInv, TypeOK, Validated, Opened, daemon
<1>3. topics' \subseteq Text /\ fault' \in BOOLEAN
  BY <1>1 DEF IInv, TypeOK, daemon
<1> QED BY <1>1, <1>2, <1>3, StepRun

\* OpenOutputs keeps the invariant.
LEMMA StepOpenOutputs == IInv /\ OpenOutputs => IInv'
<1> SUFFICES ASSUME IInv, OpenOutputs PROVE IInv'
  OBVIOUS
<1>1. stage = "client built" /\ UNCHANGED <<input, cfg, files, reading, topics>>
  BY DEF OpenOutputs
<1>2. Fail \/ (open' = {"output"} \X DOMAIN cfg.outputs /\ stage' = "outputs" /\ UNCHANGED fault)
  BY Zenon DEF OpenOutputs
<1>3. step = "idle"
  BY <1>1 DEF IInv, TypeOK, Validated
<1>4. topics' \subseteq Text /\ fault' \in BOOLEAN
  BY <1>1, <1>2 DEF IInv, TypeOK, Fail
<1> QED BY <1>1, <1>2, <1>3, <1>4, StepRun

\* Registering the subscriptions keeps the invariant.
LEMMA StepRegister == IInv /\ Register => IInv'
<1> SUFFICES ASSUME IInv, Register PROVE IInv'
  OBVIOUS
<1>1. stage = "outputs" /\ UNCHANGED <<input, cfg, files, reading>>
  BY DEF Register
<1>2. \/ Fail /\ UNCHANGED topics
      \/ /\ topics' = {Topic(i) : i \in Commanded}
         /\ stage' = "registered" /\ UNCHANGED <<fault, open>>
  BY Zenon DEF Register
<1>3. step = "idle" /\ open = {"output"} \X DOMAIN cfg.outputs
  BY <1>1 DEF IInv, TypeOK, Validated, Opened
<1>4. \A i \in Commanded : Topic(i) \in Text
  BY TopicTypes DEF Commanded, IInv, TypeOK
<1>5. topics' \subseteq Text
  <2>1. topics \subseteq Text
    BY DEF IInv, TypeOK
  <2>2. CASE UNCHANGED topics
    BY <2>1, <2>2
  <2>3. CASE topics' = {Topic(i) : i \in Commanded}
    BY <1>4, <2>3
  <2> QED BY <1>2, <2>2, <2>3
<1>6. fault' \in BOOLEAN
  BY <1>2 DEF IInv, TypeOK, Fail
<1>7. Fail \/ (stage' = "registered" /\ open' = {"output"} \X DOMAIN cfg.outputs)
  BY <1>2, <1>3
<1> QED BY <1>1, <1>3, <1>5, <1>6, <1>7, StepRun

\* OpenInputs keeps the invariant.
LEMMA StepOpenInputs == IInv /\ OpenInputs => IInv'
<1> SUFFICES ASSUME IInv, OpenInputs PROVE IInv'
  OBVIOUS
<1>1. stage = "registered" /\ UNCHANGED <<input, cfg, files, reading, topics>>
  BY DEF OpenInputs
<1>2. \/ Fail
      \/ /\ open' = open \cup ({"input"} \X DOMAIN cfg.inputs)
         /\ stage' = "running" /\ UNCHANGED fault
  BY Zenon DEF OpenInputs
<1>3. step = "idle" /\ open = {"output"} \X DOMAIN cfg.outputs
  BY <1>1 DEF IInv, TypeOK, Validated, Opened
<1>4. Fail \/ (stage' = "running" /\ open' = Declared(cfg))
  BY <1>2, <1>3, Zenon DEF Declared
<1>5. topics' \subseteq Text /\ fault' \in BOOLEAN
  BY <1>1, <1>2 DEF IInv, TypeOK, Fail
<1> QED BY <1>1, <1>3, <1>4, <1>5, StepRun

\* Commands and readings keep the invariant.
LEMMA StepUse == ASSUME NEW i \in DOMAIN cfg.entities
                 PROVE  IInv /\ (Execute(i) \/ ReadState(i)) => IInv'
<1> SUFFICES ASSUME IInv, Execute(i) \/ ReadState(i) PROVE IInv'
  OBVIOUS
<1>1. stage = "running" /\ UNCHANGED <<input, cfg, stage, files, reading, open, topics>>
  BY DEF Execute, ReadState
<1>2. fault' \in BOOLEAN
  <2>1. CASE Execute(i)
    BY <2>1 DEF Execute
  <2>2. CASE ReadState(i)
    BY <2>2 DEF ReadState
  <2> QED BY <2>1, <2>2
<1>3. step = "idle" /\ open' = Declared(cfg) /\ topics' \subseteq Text
  BY <1>1 DEF IInv, TypeOK, Validated, Opened
<1> QED BY <1>1, <1>2, <1>3, StepRun

\* load, New, the reading of the password file and run() keep the invariant
\* whatever others do to the files.
THEOREM Invariant == Spec => []IInv
<1>1. IInv /\ [Next]_vars => IInv'
  <2> SUFFICES ASSUME IInv, [Next]_vars PROVE IInv'
    OBVIOUS
  <2>1. CASE UNCHANGED vars
    <3> USE <2>1 DEF IInv, vars, input, files, reading, daemon
    <3>1. TypeOK'
      BY DEF TypeOK
    <3>2. Sources' /\ Loaded' /\ Validated' /\ Opened'
      BY DEF Sources, Loaded, Validated, Opened
    <3>3. Vetted'
      BY DEF Vetted, Checked
    <3> QED BY <3>1, <3>2, <3>3
  <2>2. ASSUME NEW i \in Inode, Grow(i) \/ Chmod(i) PROVE IInv'
    BY <2>2, StepGrow, StepChmod
  <2>3. ASSUME NEW i \in DOMAIN cfg.entities, Execute(i) \/ ReadState(i) PROVE IInv'
    BY <2>3, StepUse
  <2> QED BY <2>1, <2>2, <2>3, StepExpandConfig, StepDefaults, StepValidateMQTT,
             StepValidateRest, StepClientPassword, StepOpen, StepStat, StepRead, StepSwap,
             StepNewClient, StepCheck, StepOpenOutputs, StepRegister, StepOpenInputs DEF Next
<1> QED BY <1>1, InitIInv, PTL DEF Spec

\* Expansion, defaults, New and run() keep every variable in its type; the
\* password file is open exactly from Open to the end of Read.
THEOREM TypeCorrect == Spec => []TypeOK
<1>1. IInv => TypeOK
  BY DEF IInv
<1> QED BY <1>1, Invariant, PTL

\* SetPassword gets a non-empty, bounded prefix without NUL of the very file that
\* f.Stat found regular and private, however files are swapped, grow or change
\* mode between Open, Stat and Read.
THEOREM PasswordFromVettedFile == Spec => []CredentialChecked
<1>1. IInv => CredentialChecked
  BY Zenon DEF IInv, Vetted, Checked, CredentialChecked
<1> QED BY <1>1, Invariant, PTL

\* In the expanded configuration every variable's text stands verbatim in every
\* text of the mqtt and device sections, for every configuration and environment.
THEOREM ExpandedVerbatim == Spec => []InsertedVerbatim
<1>1. ASSUME IInv, stage = "expanded", NEW f \in Field, NEW v \in DOMAIN env,
             Unmarked(raw.text[f]), \A u \in DOMAIN env \ {v} : Unmarked(env[u])
      PROVE  cfg.text[f] = Replaced(Expand(raw.text[f], [env EXCEPT ![v] = <<Marker>>]).text,
                                    Marker, env[v])
  <2>1. IsConfig(raw) /\ IsEnvironment(env)
    BY <1>1 DEF IInv, Sources
  <2>2. ExpandedParts(cfg, raw, env) /\ ~EnvironmentMissing(raw, env)
    BY <1>1, <2>1, ExpandParts DEF IInv, Loaded
  <2>3. raw.text \in [Field -> Text]
    BY <2>1 DEF IsConfig
  <2>4. PICK t \in Text : t = raw.text[f]
    BY <2>3
  <2>5. cfg.text[f] = Expand(t, env).text /\ ~Expand(t, env).missing
    <3>1. cfg.text = ExpandEach(raw.text, env) /\ ~MissingIn(raw.text, env)
      BY <2>2, Zenon DEF ExpandedParts, EnvironmentMissing
    <3>2. f \in DOMAIN raw.text
      BY <2>3
    <3> QED BY <2>4, <3>1, <3>2 DEF ExpandEach, MissingIn
  <2>6. Agree(Expand(t, env), Expand(t, [env EXCEPT ![v] = <<Marker>>]), env[v])
    BY <1>1, <2>1, <2>4, Verbatim
  <2> QED BY <2>4, <2>5, <2>6, Zenon DEF Agree
<1>2. IInv => InsertedVerbatim
  BY <1>1, Zenon DEF InsertedVerbatim
<1> QED BY <1>2, Invariant, PTL

\* Every text of the mqtt and device sections can be written with doubled dollars,
\* and one without $$ and ${NAME} is left as it is by expandEnvironment.
THEOREM AnyTextExpressible == Spec => []LiteralsExpressible
<1>1. ASSUME IInv, NEW f \in Field
      PROVE  /\ stage = "expanded" /\ Literal(raw.text[f]) => cfg.text[f] = raw.text[f]
             /\ Expand(Doubled(raw.text[f]), env) = Expanded(raw.text[f])
  <2>1. IsConfig(raw) /\ IsEnvironment(env)
    BY <1>1 DEF IInv, Sources
  <2>2. raw.text \in [Field -> Text]
    BY <2>1 DEF IsConfig
  <2>3. PICK t \in Text : t = raw.text[f]
    BY <2>2
  <2>4. Expand(Doubled(t), env) = Expanded(t)
    BY DoublingStands
  <2>5. ASSUME stage = "expanded", Literal(t) PROVE cfg.text[f] = t
    <3>1. ExpandedParts(cfg, raw, env)
      BY <1>1, <2>1, <2>5, ExpandParts DEF IInv, Loaded
    <3>2. cfg.text = ExpandEach(raw.text, env) /\ f \in DOMAIN raw.text
      BY <2>2, <3>1 DEF ExpandedParts
    <3>3. cfg.text[f] = Expand(t, env).text
      BY <2>3, <3>2 DEF ExpandEach
    <3>4. Expand(t, env) = Expanded(t)
      BY <2>5, LiteralStands
    <3>5. Expanded(t).text = t
      BY DEF Expanded
    <3> QED BY <3>3, <3>4, <3>5, Zenon
  <2> QED BY <2>3, <2>4, <2>5, Zenon
<1>2. IInv => LiteralsExpressible
  BY <1>1, Zenon DEF LiteralsExpressible
<1> QED BY <1>2, Invariant, PTL

\* No step on an accepted configuration that suits the machine meets an error.
LEMMA FaultNever == ~fault /\ IInv /\ Suited /\ [Next]_vars => ~fault'
<1> SUFFICES ASSUME ~fault, IInv, Suited, [Next]_vars PROVE ~fault'
  OBVIOUS
<1>1. fault = FALSE /\ IsConfig(cfg)
  BY DEF IInv, TypeOK
<1>2. stage \in Accepted => ValidMQTT(cfg) /\ ValidRest(cfg)
  BY DEF IInv, Validated
<1>3. CASE NewClient
  <2>1. ValidMQTT(cfg) /\ ValidRest(cfg)
    BY <1>2, <1>3 DEF NewClient, Accepted
  <2>2. UNCHANGED fault
    BY <1>3, <2>1, ClientCanBeBuilt DEF NewClient
  <2> QED BY <2>2
<1>4. CASE OpenOutputs
  <2>1. stage = "client built" /\ ValidRest(cfg)
    BY <1>2, <1>4 DEF OpenOutputs, Accepted
  <2>3. {"output"} \X DOMAIN cfg.outputs \subseteq Declared(cfg) /\ open \subseteq Declared(cfg)
    BY DEF Declared, IInv, TypeOK
  <2>4. ~Unavailable({"output"} \X DOMAIN cfg.outputs)
    BY <2>1, <2>3, LinesAvailable
  <2>5. UNCHANGED fault
    BY <1>4, <2>4, Zenon DEF OpenOutputs
  <2> QED BY <2>5
<1>5. CASE Register
  <2>1. ValidRest(cfg)
    BY <1>2, <1>5 DEF Register, Accepted
  <2>2. ~Unsubscribable
    BY <1>1, <2>1, Subscribable
  <2> QED BY <1>5, <2>2 DEF Register
<1>6. CASE OpenInputs
  <2>1. stage = "registered" /\ ValidRest(cfg)
    BY <1>2, <1>6 DEF OpenInputs, Accepted
  <2>3. {"input"} \X DOMAIN cfg.inputs \subseteq Declared(cfg) /\ open \subseteq Declared(cfg)
    BY DEF Declared, IInv, TypeOK
  <2>4. ~Unavailable({"input"} \X DOMAIN cfg.inputs)
    BY <2>1, <2>3, LinesAvailable
  <2>5. \A n \in DOMAIN cfg.inputs :
           /\ ~(/\ cfg.inputs[n].debounce # << >>
                /\ cfg.inputs[n].debounce \notin DOMAIN ParseDuration)
           /\ ~Misrequested(n)
    BY <2>1, InputsSound
  <2>6. UNCHANGED fault
    BY <1>6, <2>4, <2>5, Zenon DEF OpenInputs
  <2> QED BY <2>6
<1>7. ASSUME NEW i \in DOMAIN cfg.entities, Execute(i) PROVE ~fault'
  <2>1. ValidRest(cfg) /\ open = Declared(cfg)
    BY <1>2, <1>7 DEF Execute, Accepted, IInv, Opened
  <2>2. \A list \in Lists(cfg.entities[i]) : \A k \in DOMAIN list : ~ActionFault(list[k])
    BY <2>1, ListsSound
  <2> QED BY <1>7, <2>2, Zenon DEF Execute
<1>8. ASSUME NEW i \in DOMAIN cfg.entities, ReadState(i) PROVE ~fault'
  <2>1. ValidRest(cfg) /\ open = Declared(cfg)
    BY <1>2, <1>8 DEF ReadState, Accepted, IInv, Opened
  <2>2. PICK t : t = cfg.entities[i].text
    OBVIOUS
  <2>3. /\ ~(/\ t["type"] = <<"switch">> /\ t["state_type"] = <<"gpio">>
             /\ <<"output", t["state_gpio"]>> \notin open)
        /\ ~(/\ t["type"] = <<"binary_sensor">>
             /\ <<"input", t["source_gpio"]>> \notin open)
    BY <2>1, <2>2, StatesReadable
  <2> QED BY <1>8, <2>2, <2>3, Zenon DEF ReadState
<1>9. CASE \/ ExpandConfig \/ Defaults \/ ValidateMQTT \/ ValidateRest \/ ClientPassword
           \/ Open \/ Stat \/ Read \/ Check
  BY <1>9 DEF ExpandConfig, Defaults, ValidateMQTT, ValidateRest, ClientPassword,
              Open, Stat, Read, Check, daemon
<1>10. CASE Swap \/ \E i \in Inode : Grow(i) \/ Chmod(i)
  BY <1>10 DEF Swap, Grow, Chmod, Change, daemon
<1>11. CASE UNCHANGED vars
  BY <1>11 DEF vars, daemon
<1> QED BY <1>3, <1>4, <1>5, <1>6, <1>7, <1>8, <1>9, <1>10, <1>11 DEF Next

\* Only steps of run() and of the running daemon meet errors; none of them
\* changes the configuration.
LEMMA FaultStages ==
    ASSUME IInv, [Next]_vars, Faulted, fault'
    PROVE  cfg' = cfg /\ Faulted'
<1>1. CASE fault
  <2>1. stage \in {"failed", "running"} /\ step = "idle"
    BY <1>1 DEF Faulted, IInv, TypeOK, Validated
  <2>2. CASE \E i \in DOMAIN cfg.entities : Execute(i) \/ ReadState(i)
    BY <2>1, <2>2 DEF Execute, ReadState, Faulted
  <2>3. CASE UNCHANGED vars
    BY <2>1, <2>3 DEF vars, Faulted
  <2>4. CASE Next /\ ~\E i \in DOMAIN cfg.entities : Execute(i) \/ ReadState(i)
    BY <2>1, <2>4, Zenon DEF Next, ExpandConfig, Defaults, ValidateMQTT, ValidateRest,
       ClientPassword, Open, Stat, Read, Swap, Grow, Chmod, Change,
       NewClient, Check, OpenOutputs, Register, OpenInputs
  <2> QED BY <2>2, <2>3, <2>4
<1>2. CASE ~fault
  <2>1. CASE NewClient \/ OpenOutputs \/ Register \/ OpenInputs
    <3>1. cfg' = cfg /\ (Fail \/ UNCHANGED fault)
      BY <2>1, Zenon DEF NewClient, OpenOutputs, Register, OpenInputs
    <3> QED BY <1>2, <3>1 DEF Fail, Faulted
  <2>2. CASE \E i \in DOMAIN cfg.entities : Execute(i) \/ ReadState(i)
    BY <2>2 DEF Execute, ReadState, Faulted
  <2>3. CASE \/ ExpandConfig \/ Defaults \/ ValidateMQTT \/ ValidateRest \/ ClientPassword
             \/ Open \/ Stat \/ Read \/ Check
    <3>1. UNCHANGED fault
      BY <2>3 DEF ExpandConfig, Defaults, ValidateMQTT, ValidateRest, ClientPassword,
                  Open, Stat, Read, Check, daemon
    <3> QED BY <1>2, <3>1
  <2>4. CASE Swap \/ \E i \in Inode : Grow(i) \/ Chmod(i)
    <3>1. UNCHANGED fault
      BY <2>4 DEF Swap, Grow, Chmod, Change, daemon
    <3> QED BY <1>2, <3>1
  <2>5. CASE UNCHANGED vars
    BY <1>2, <2>5 DEF vars, daemon
  <2> QED BY <2>1, <2>2, <2>3, <2>4, <2>5 DEF Next
<1> QED BY <1>1, <1>2

\* What Validate accepts, run() can use: New, OpenOutputs, the subscriptions,
\* OpenInputs, every action and every reading of a state succeed, as far as the
\* configuration can make them fail, unless the machine lacks a declared chip or
\* offset or a line is declared under two names of its chip.
THEOREM AcceptedRuns == Spec => []AcceptedIsUsable
<1>1. Init => AcceptedIsUsable /\ Faulted
  BY DEF Init, AcceptedIsUsable, Faulted
<1>2. AcceptedIsUsable /\ Faulted /\ IInv /\ [Next]_vars => AcceptedIsUsable' /\ Faulted'
  <2> SUFFICES ASSUME AcceptedIsUsable, Faulted, IInv, [Next]_vars
               PROVE  AcceptedIsUsable' /\ Faulted'
    OBVIOUS
  <2>1. CASE fault'
    <3>1. cfg' = cfg /\ Faulted'
      BY <2>1, FaultStages
    <3>2. ~Suited
      BY <2>1, FaultNever DEF AcceptedIsUsable
    <3>3. Suited' <=> Suited
      BY <3>1 DEF Suited, Exists, Physical
    <3> QED BY <3>1, <3>2, <3>3 DEF AcceptedIsUsable
  <2>2. CASE ~fault'
    BY <2>2 DEF AcceptedIsUsable, Faulted
  <2> QED BY <2>1, <2>2
<1> QED BY <1>1, <1>2, Invariant, PTL DEF Spec
====
