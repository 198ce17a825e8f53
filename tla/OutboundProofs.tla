--------------------------- MODULE OutboundProofs ---------------------------
(***************************************************************************)
(* Theorems about what the upstream is sent, for any requests of clients,  *)
(* any workers' keys, any number of attempts and any changes of settings.  *)
(***************************************************************************)
EXTENDS Outbound, SequenceTheorems, TLAPS

----------------------------------------------------------------------------
(* The body. *)

\* A name without its last word.
LEMMA FrontOf ==
    ASSUME NEW W, NEW name \in Seq(W), Len(name) > 1
    PROVE  /\ Front(name) \in Seq(W) /\ Len(Front(name)) = Len(name) - 1
           /\ Front(name)[1] = name[1]
BY SubSeqProperties DEF Front

\* Names of one, two and three words.
LEMMA ShortNames ==
    ASSUME NEW W, NEW a \in W, NEW b \in W, NEW c \in W
    PROVE  /\ <<a>> \in Seq(W)
           /\ <<a, b>> \in Seq(W) /\ Len(<<a, b>>) = 2
           /\ <<a, b, c>> \in Seq(W) /\ Len(<<a, b, c>>) = 3
OBVIOUS

\* The table's names, and the only one of a single word.
Words == {"deepseek", "v4", "pro", "flash", "glm", "5.2", "mimo", "v2.5", "qwen3.6", "qwen3.7",
          "plus", "max", "grok", "4.5", "hy3", "kimi", "k3"}

LEMMA TableNames ==
    \A name \in HighOrMax \cup Graded :
        name \in Seq(Words) /\ (name = <<"hy3">> \/ Len(name) # 1)
<1> DEFINE Good(name) == name \in Seq(Words) /\ (name = <<"hy3">> \/ Len(name) # 1)
<1>1. /\ \A a, b \in Words : Good(<<a, b>>)
      /\ \A a, b, c \in Words : Good(<<a, b, c>>)
      /\ "hy3" \in Words => Good(<<"hy3">>)
  BY ShortNames
<1>2. /\ "deepseek" \in Words /\ "v4" \in Words /\ "pro" \in Words /\ "flash" \in Words
      /\ "glm" \in Words /\ "5.2" \in Words /\ "mimo" \in Words /\ "v2.5" \in Words
      /\ "qwen3.6" \in Words /\ "qwen3.7" \in Words /\ "plus" \in Words /\ "max" \in Words
      /\ "grok" \in Words /\ "4.5" \in Words /\ "hy3" \in Words /\ "kimi" \in Words /\ "k3" \in Words
  BY DEF Words
<1> HIDE DEF Words
<1> HIDE DEF Good
<1>3. \A name \in HighOrMax : Good(name)
  BY <1>1, <1>2, Zenon DEF HighOrMax
<1>4. \A name \in Graded : Good(name)
  BY <1>1, <1>2, Zenon DEF Graded
<1> QED
  BY <1>3, <1>4 DEF Good

\* No base model of the table is another one with a level behind it.
LEMMA BaseIsNoAlias == \A model \in DOMAIN EffortTiers : ~IsAlias(model)
<1> SUFFICES ASSUME NEW model \in HighOrMax \cup Graded, Len(model) > 1
             PROVE  Front(model) \notin HighOrMax \cup Graded
  BY DEF IsAlias, EffortTiers
<1>2. Len(Front(model)) = Len(model) - 1 /\ Front(model)[1] = model[1]
  BY TableNames, FrontOf
<1>3. CASE model = <<"deepseek", "v4", "pro">> \/ model = <<"deepseek", "v4", "flash">>
  <2>1. Len(Front(model)) = 2 /\ Front(model)[1] = "deepseek"
    BY <1>2, <1>3
  <2> QED
    BY <2>1 DEF HighOrMax, Graded
<1>4. CASE model \in {<<"glm", "5.2">>, <<"mimo", "v2.5">>, <<"qwen3.6", "plus">>, <<"qwen3.7", "max">>,
                      <<"qwen3.7", "plus">>, <<"grok", "4.5">>, <<"kimi", "k3">>}
  <2>1. Len(Front(model)) = 1 /\ Front(model)[1] # "hy3"
    BY <1>2, <1>4
  <2>2. Front(model) # <<"hy3">>
    BY <2>1
  <2> QED
    BY <2>1, <2>2, TableNames
<1>5. model # <<"hy3">>
  OBVIOUS
<1> QED
  BY <1>3, <1>4, <1>5 DEF HighOrMax, Graded

\* What an alias stands for is a name that is no alias.
LEMMA BaseModelIsBase ==
    \A model \in Models : BaseModel(model) \in Models /\ ~IsAlias(BaseModel(model))
<1> SUFFICES ASSUME NEW model \in Models
             PROVE  BaseModel(model) \in Models /\ ~IsAlias(BaseModel(model))
  OBVIOUS
<1>1. CASE IsAlias(model)
  <2>1. Front(model) \in DOMAIN EffortTiers /\ BaseModel(model) = Front(model)
    BY <1>1 DEF IsAlias, BaseModel
  <2>2. Front(model) \in Seq(STRING)
    BY <1>1, FrontOf DEF Models, IsAlias
  <2> QED
    BY <2>1, <2>2, BaseIsNoAlias DEF Models
<1>2. CASE ~IsAlias(model)
  BY <1>2 DEF BaseModel
<1> QED
  BY <1>1, <1>2

\* One turn: what the two corrections give, which nothing corrects again.
Fixed(thinking, turn) == WithSystemRole(IF thinking THEN WithReasoning(turn) ELSE turn)

LEMMA FixedTurn ==
    ASSUME NEW turn \in Turn, NEW thinking \in BOOLEAN
    PROVE  /\ Fixed(thinking, turn) \in Turn
           /\ Fixed(thinking, turn).role # "developer"
           /\ thinking /\ Fixed(thinking, turn).role = "assistant"
                => Fixed(thinking, turn).reasoning # "absent"
           /\ turn.reasoning = "text" => Fixed(thinking, turn).reasoning = "text"
           /\ Fixed(thinking, Fixed(thinking, turn)) = Fixed(thinking, turn)
<1> DEFINE r == IF thinking THEN WithReasoning(turn) ELSE turn
           f == WithSystemRole(r)
<1>1. /\ r \in Turn /\ r.role = turn.role
      /\ thinking /\ r.role = "assistant" => r.reasoning # "absent"
      /\ turn.reasoning = "text" => r.reasoning = "text"
  BY DEF Turn, Roles, WithReasoning
<1> HIDE DEF r
<1>2. /\ f \in Turn /\ f.role # "developer" /\ f.reasoning = r.reasoning
      /\ f.role = "assistant" => r.role = "assistant"
  BY <1>1 DEF Turn, Roles, WithSystemRole
<1> HIDE DEF f
<1>3. Fixed(thinking, f) = f
  BY <1>1, <1>2 DEF Fixed, WithReasoning, WithSystemRole
<1>4. Fixed(thinking, turn) = f
  BY DEF Fixed, f, r
<1> QED
  BY <1>1, <1>2, <1>3, <1>4

\* The same for a turn among messages of either form.
Corrected(form, thinking, turn) == IF form = "list" THEN Fixed(thinking, turn) ELSE turn

\* What it gives suits the upstream and keeps what the client said.
TurnFits(form, thinking, turn, t) ==
    /\ form = "list" => t.role # "developer"
    /\ form = "list" /\ thinking /\ t.role = "assistant" => t.reasoning # "absent"
    /\ turn.reasoning = "text" => t.reasoning = "text"
    /\ form # "list" => t = turn

LEMMA CorrectedTurn ==
    ASSUME NEW turn \in Turn, NEW thinking \in BOOLEAN, NEW form
    PROVE  /\ Corrected(form, thinking, turn) \in Turn
           /\ TurnFits(form, thinking, turn, Corrected(form, thinking, turn))
           /\ Corrected(form, thinking, Corrected(form, thinking, turn)) = Corrected(form, thinking, turn)
BY FixedTurn DEF Corrected, TurnFits

\* Forward's correction of an object, field by field.
LEMMA TransformedObject ==
    ASSUME NEW b \in Body, b.kind = "object"
    PROVE  LET t == Transform(b)
               thinking == IsThinking(BaseModel(b.model))
           IN  /\ t \in Body /\ t.kind = "object" /\ t.metadata = FALSE
               /\ t.model = BaseModel(b.model)
               /\ t.effort = IF IsAlias(b.model) /\ b.effort = "absent" THEN Last(b.model)
                                                                         ELSE b.effort
               /\ t.messages = b.messages
               /\ Len(t.turns) = Len(b.turns)
               /\ \A i \in DOMAIN b.turns : t.turns[i] = Corrected(b.messages, thinking, b.turns[i])
<1> DEFINE model == BaseModel(b.model)
           thinking == IsThinking(model)
           turns == CorrectedTurns(b, thinking)
           effort == IF IsAlias(b.model) /\ b.effort = "absent" THEN Last(b.model) ELSE b.effort
           t == Transform(b)
<1>1. /\ b.model \in Models /\ b.turns \in Seq(Turn) /\ b.effort \in STRING
      /\ thinking \in BOOLEAN
  BY DEF Body, IsThinking
<1>2. model \in Models
  BY <1>1, BaseModelIsBase
<1>3. effort \in STRING
  <2>1. CASE IsAlias(b.model)
    BY <1>1, <2>1 DEF IsAlias, Last, Models
  <2> QED
    BY <1>1, <2>1
<1>4. /\ turns \in Seq(Turn) /\ Len(turns) = Len(b.turns)
      /\ \A i \in DOMAIN b.turns : turns[i] = Corrected(b.messages, thinking, b.turns[i])
  <2>1. CASE b.messages # "list"
    BY <1>1, <2>1 DEF CorrectedTurns, Corrected
  <2>2. CASE b.messages = "list"
    <3> DEFINE replayed == IF thinking THEN MapTurns(WithReasoning, b.turns) ELSE b.turns
    <3>1. /\ DOMAIN replayed = DOMAIN b.turns
          /\ \A i \in DOMAIN b.turns :
                replayed[i] = IF thinking THEN WithReasoning(b.turns[i]) ELSE b.turns[i]
      BY DEF MapTurns
    <3>2. turns = MapTurns(WithSystemRole, replayed)
      BY <2>2 DEF CorrectedTurns
    <3> HIDE DEF replayed
    <3>3. turns = [i \in DOMAIN b.turns |-> WithSystemRole(replayed[i])]
      BY <3>1, <3>2 DEF MapTurns
    <3> HIDE DEF turns
    <3>4. \A i \in DOMAIN b.turns : turns[i] = Fixed(thinking, b.turns[i])
      BY <3>1, <3>3 DEF Fixed
    <3>5. DOMAIN turns = 1..Len(b.turns) /\ Len(b.turns) \in Nat
      BY <1>1, <3>3
    <3>6. \A i \in 1..Len(b.turns) : turns[i] \in Turn
      <4> HIDE DEF thinking
      <4>1. \A i \in 1..Len(b.turns) : b.turns[i] \in Turn
        BY <1>1
      <4> QED
        BY <1>1, <3>4, <3>5, <4>1, FixedTurn
    <3>7. turns \in [1..Len(b.turns) -> Turn]
      BY <1>1, <3>3, <3>5, <3>6
    <3>8. turns \in Seq(Turn)
      BY <3>5, <3>7, SeqDef
    <3> QED
      BY <1>1, <2>2, <3>4, <3>5, <3>8 DEF Corrected
  <2> QED
    BY <2>1, <2>2
<1>5. t = [b EXCEPT !.metadata = FALSE, !.model = model, !.effort = effort, !.turns = turns]
  BY DEF Transform, Body
<1> HIDE DEF t, turns, effort, model
<1>6. /\ t \in Body /\ t.kind = "object" /\ t.metadata = FALSE
      /\ t.model = model /\ t.effort = effort /\ t.messages = b.messages /\ t.turns = turns
  BY <1>2, <1>3, <1>4, <1>5 DEF Body
<1> QED
  BY <1>4, <1>6 DEF t, effort, model

\* Bodies that differ in no field are one.
LEMMA SameBody ==
    ASSUME NEW a \in Body, NEW b \in Body,
           a.kind = b.kind, a.model = b.model, a.metadata = b.metadata, a.effort = b.effort,
           a.messages = b.messages, a.turns = b.turns
    PROVE  a = b
BY DEF Body

\* What is corrected once is not corrected again.
LEMMA TransformTwice ==
    ASSUME NEW b \in Body
    PROVE  Transform(Transform(b)) = Transform(b)
<1>1. CASE b.kind # "object"
  BY <1>1 DEF Transform
<1>2. CASE b.kind = "object"
  <2> DEFINE t == Transform(b)
             u == Transform(t)
             thinking == IsThinking(BaseModel(b.model))
  <2>1. /\ t \in Body /\ t.kind = "object" /\ t.metadata = FALSE
        /\ t.model = BaseModel(b.model) /\ t.messages = b.messages
        /\ Len(t.turns) = Len(b.turns)
        /\ \A i \in DOMAIN b.turns : t.turns[i] = Corrected(b.messages, thinking, b.turns[i])
    BY <1>2, TransformedObject
  <2> HIDE DEF t
  <2>2. ~IsAlias(t.model) /\ BaseModel(t.model) = t.model
    BY <2>1, BaseModelIsBase DEF BaseModel, Body
  <2>2a. IsThinking(BaseModel(t.model)) = thinking
    BY <2>1, <2>2
  <2> HIDE DEF thinking
  <2>3. /\ u \in Body /\ u.kind = "object" /\ u.metadata = FALSE
        /\ u.model = BaseModel(t.model) /\ u.effort = t.effort /\ u.messages = t.messages
        /\ Len(u.turns) = Len(t.turns)
        /\ \A i \in DOMAIN t.turns : u.turns[i] = Corrected(t.messages, thinking, t.turns[i])
    BY <2>1, <2>2, <2>2a, TransformedObject
  <2> HIDE DEF u
  <2>4. thinking \in BOOLEAN
    BY DEF thinking, IsThinking
  <2>5. /\ b.turns \in Seq(Turn) /\ t.turns \in Seq(Turn) /\ u.turns \in Seq(Turn)
    BY <2>1, <2>3 DEF Body
  <2>6. \A i \in 1..Len(t.turns) : u.turns[i] = t.turns[i]
    BY <2>1, <2>3, <2>4, <2>5, CorrectedTurn
  <2>7. u.turns = t.turns
    BY <2>3, <2>5, <2>6, SeqEqual
  <2>8. u = t
    BY <2>1, <2>2, <2>3, <2>7, SameBody
  <2> QED
    BY <2>8 DEF u, t
<1> QED
  BY <1>1, <1>2

\* What is corrected fits the upstream and still says what the client said.
Fits(b) ==
    b.kind = "object" =>
        /\ ~b.metadata
        /\ ~IsAlias(b.model)
        /\ b.messages = "list" =>
              \A i \in DOMAIN b.turns :
                  /\ b.turns[i].role # "developer"
                  /\ IsThinking(b.model) /\ b.turns[i].role = "assistant"
                        => b.turns[i].reasoning # "absent"

Keeps(b, t) ==
    /\ b.kind # "object" => t = b
    /\ b.effort # "absent" => t.effort = b.effort
    /\ t.messages = b.messages
    /\ t.messages # "list" => t.turns = b.turns
    /\ Len(t.turns) = Len(b.turns)
    /\ \A i \in DOMAIN t.turns : b.turns[i].reasoning = "text" => t.turns[i].reasoning = "text"

LEMMA TransformRight ==
    ASSUME NEW b \in Body
    PROVE  Fits(Transform(b)) /\ Keeps(b, Transform(b))
<1>1. CASE b.kind # "object"
  BY <1>1 DEF Transform, Fits, Keeps
<1>2. CASE b.kind = "object"
  <2> DEFINE t == Transform(b)
             thinking == IsThinking(BaseModel(b.model))
  <2>1. /\ t \in Body /\ t.kind = "object" /\ t.metadata = FALSE
        /\ t.model = BaseModel(b.model)
        /\ t.effort = IF IsAlias(b.model) /\ b.effort = "absent" THEN Last(b.model) ELSE b.effort
        /\ t.messages = b.messages
        /\ Len(t.turns) = Len(b.turns)
        /\ \A i \in DOMAIN b.turns : t.turns[i] = Corrected(b.messages, thinking, b.turns[i])
    BY <1>2, TransformedObject
  <2> HIDE DEF t
  <2>2. ~IsAlias(t.model)
    BY <2>1, BaseModelIsBase DEF Body
  <2>3. thinking \in BOOLEAN /\ thinking = IsThinking(t.model)
    BY <2>1 DEF IsThinking
  <2> HIDE DEF thinking
  <2>4. /\ b.turns \in Seq(Turn) /\ t.turns \in Seq(Turn)
        /\ DOMAIN t.turns = DOMAIN b.turns
    BY <2>1 DEF Body
  <2>5. \A i \in DOMAIN t.turns : TurnFits(b.messages, thinking, b.turns[i], t.turns[i])
    <3> SUFFICES ASSUME NEW i \in DOMAIN t.turns
                 PROVE  TurnFits(b.messages, thinking, b.turns[i], t.turns[i])
      OBVIOUS
    <3>1. b.turns[i] \in Turn /\ t.turns[i] = Corrected(b.messages, thinking, b.turns[i])
      BY <2>1, <2>4
    <3> QED
      BY <2>3, <3>1, CorrectedTurn
  <2>5a. b.messages # "list" => t.turns = b.turns
    BY <2>1, <2>4, <2>5, SeqEqual DEF TurnFits
  <2>6. Fits(t)
    BY <2>1, <2>2, <2>3, <2>5 DEF Fits, TurnFits
  <2>7. Keeps(b, t)
    BY <1>2, <2>1, <2>5, <2>5a DEF Keeps, TurnFits
  <2> QED
    BY <2>6, <2>7 DEF t
<1> QED
  BY <1>1, <1>2

----------------------------------------------------------------------------
(* The headers. *)

Values == {Absent, Gateway} \cup {Client(name) : name \in Names \cup {"x-session-affinity"}}
          \cup {<<"fresh", n>> : n \in Nat}
Headers == [Names -> Values]

\* The client's values are not absent ones.
LEMMA ClientIsGiven == \A name : Client(name) # Absent
BY DEF Client, Absent

\* Setting one header leaves the others alone; filling one leaves it alone, too,
\* when it is there.
LEMMA SetHeader ==
    ASSUME NEW h \in Headers, NEW name \in Names, NEW value \in Values
    PROVE  /\ Set(h, name, value) \in Headers
           /\ Set(h, name, value)[name] = value
           /\ \A other \in Names \ {name} : Set(h, name, value)[other] = h[other]
BY DEF Set, Headers

LEMMA FillHeader ==
    ASSUME NEW h \in Headers, NEW name \in Names, NEW value \in Values
    PROVE  /\ Fill(h, name, value) \in Headers
           /\ \A other \in Names :
                 other # name \/ h[name] # Absent => Fill(h, name, value)[other] = h[other]
BY SetHeader DEF Fill

\* What is on the list of names.
LEMMA SomeNames ==
    /\ "x-opencode-session" \in Names /\ "x-opencode-request" \in Names
    /\ "x-opencode-project" \in Names /\ "x-opencode-client" \in Names
    /\ "x-title" \in Names /\ "User-Agent" \in Names /\ "x-source" \in Names
    /\ "x-opencode-session" \in Forwarded
BY DEF Names, Forwarded, Identity, Metadata

\* Where the client's choice of a session is found.
LEMMA SourceOfSession ==
    ASSUME NEW names
    PROVE  /\ SessionSource(names) \in {"none", "x-opencode-session", "x-session-affinity", "x-session-id"}
           /\ SessionSource(names) = "x-opencode-session" => "x-opencode-session" \in names
<1> DEFINE first == SelectInSeq(SessionHeaders, LAMBDA name : name \in names)
           I == {i \in 1..Len(SessionHeaders) : SessionHeaders[i] \in names}
<1>1. first = IF I # {} THEN Min(I) ELSE 0
  BY DEF SelectInSeq
<1>2. I # {} => Min(I) \in I
  <2>1. /\ Len(SessionHeaders) = 3
    BY DEF SessionHeaders
  <2>2. SUFFICES ASSUME I # {} PROVE \E i \in I : \A j \in I : i <= j
    BY DEF Min
  <2>3. CASE 1 \in I
    BY <2>1, <2>3
  <2>4. CASE 1 \notin I /\ 2 \in I
    BY <2>1, <2>4
  <2>5. CASE 1 \notin I /\ 2 \notin I
    BY <2>1, <2>2, <2>5
  <2> QED
    BY <2>3, <2>4, <2>5
<1>3. SessionSource(names) = IF first = 0 THEN "none" ELSE SessionHeaders[first]
  BY DEF SessionSource
<1> HIDE DEF first
<1>4. first # 0 => first \in 1..3 /\ SessionHeaders[first] \in names
  <2>1. Len(SessionHeaders) = 3
    BY DEF SessionHeaders
  <2> QED
    BY <1>1, <1>2, <2>1
<1> QED
  BY <1>3, <1>4 DEF SessionHeaders

\* The headers an attempt begins with.
LEMMA SelectedHeaders ==
    ASSUME NEW key, NEW names
    PROVE  /\ Selected(key, names) \in Headers
           /\ Selected(key, names)["User-Agent"] # Gateway
           /\ "x-opencode-session" \in names
                => Selected(key, names)["x-opencode-session"] = Client("x-opencode-session")
<1> DEFINE value(name) == CASE name = "Content-Type" -> Gateway
                            [] name = "Authorization" -> IF key = "" THEN Absent ELSE Gateway
                            [] name \in Forwarded \cap names -> Client(name)
                            [] OTHER -> Absent
<1>1. Selected(key, names) = [name \in Names |-> value(name)]
  BY DEF Selected
<1>2. \A name \in Names : value(name) \in Values
  <2>1. Absent \in Values /\ Gateway \in Values /\ \A name \in Names : Client(name) \in Values
    BY DEF Values
  <2>2. Absent \in Values /\ (IF key = "" THEN Absent ELSE Gateway) \in Values
    BY <2>1
  <2> HIDE DEF Values
  <2> QED
    BY <2>1, <2>2
<1>3. "x-opencode-session" \in names => value("x-opencode-session") = Client("x-opencode-session")
  BY SomeNames
<1>4. value("User-Agent") # Gateway
  <2>1. value("User-Agent") \in {Client("User-Agent"), Absent}
    OBVIOUS
  <2> HIDE DEF value
  <2> QED
    BY <2>1 DEF Client, Absent, Gateway
<1> HIDE DEF value
<1> QED
  BY <1>1, <1>2, <1>3, <1>4, SomeNames DEF Headers

\* The session of an attempt is the client's choice, wherever that is.
HasSession(h, names) ==
    SessionSource(names) # "none" => h["x-opencode-session"] = Client(SessionSource(names))

LEMMA AffineHeaders ==
    ASSUME NEW names, NEW h \in Headers, Fresh \in Values,
           "x-opencode-session" \in names => h["x-opencode-session"] = Client("x-opencode-session")
    PROVE  /\ Affine(h, names) \in Headers /\ HasSession(Affine(h, names), names)
           /\ Affine(h, names)["User-Agent"] = h["User-Agent"]
<1>1. SessionSource(names) \in {"none", "x-opencode-session", "x-session-affinity", "x-session-id"}
  BY SourceOfSession
<1>2. CASE SessionSource(names) \in {"none", "x-opencode-session"}
  BY <1>2, SourceOfSession DEF Affine, HasSession
<1>3. CASE SessionSource(names) \in {"x-session-affinity", "x-session-id"}
  <2> DEFINE value == Client(SessionSource(names))
             g == Set(h, "x-opencode-session", value)
  <2>1. value \in Values
    <3>1. SessionSource(names) \in Names \cup {"x-session-affinity"}
      BY <1>3 DEF Names, Forwarded, Metadata
    <3> QED
      BY <3>1 DEF Values
  <2>2. Affine(h, names) = Fill(g, "x-opencode-request", Fresh)
    BY <1>3 DEF Affine
  <2> HIDE DEF value
  <2>3. g \in Headers /\ g["x-opencode-session"] = value /\ g["User-Agent"] = h["User-Agent"]
    BY <2>1, SomeNames, SetHeader
  <2> HIDE DEF g
  <2> DEFINE f == Fill(g, "x-opencode-request", Fresh)
  <2>4. /\ f \in Headers /\ f["x-opencode-session"] = g["x-opencode-session"]
        /\ f["User-Agent"] = g["User-Agent"]
    <3>1. "x-opencode-request" # "x-opencode-session" /\ "x-opencode-request" # "User-Agent"
      OBVIOUS
    <3> QED
      BY <2>3, <3>1, SomeNames, FillHeader
  <2> HIDE DEF f
  <2>5. Affine(h, names) = f
    BY <2>2 DEF f
  <2> QED
    BY <2>3, <2>4, <2>5 DEF HasSession, value
<1> QED
  BY <1>1, <1>2, <1>3

\* What the disguise replaces, whatever it starts from.
Replaced == {"x-opencode-client", "x-opencode-project", "x-title"}
Hidden(h) == \A name \in Replaced : h[name] = Gateway

LEMMA DisguisedHeaders ==
    ASSUME NEW names, NEW h \in Headers, Fresh \in Values, HasSession(h, names)
    PROVE  /\ Disguised(h) \in Headers /\ HasSession(Disguised(h), names)
           /\ Hidden(Disguised(h))
           /\ cli.agent => Disguised(h)["User-Agent"] = Gateway
<1> DEFINE agent == IF cli.agent THEN Set(h, "User-Agent", Gateway) ELSE h
           identity == [name \in Names |->
                           IF name \in {"x-opencode-client", "x-opencode-project", "x-title", "x-source"}
                           THEN Gateway ELSE agent[name]]
           filled == Fill(identity, "x-opencode-request", Fresh)
           d == Fill(filled, "x-opencode-session", Fresh)
<1>1. Gateway \in Values
  BY DEF Values
<1>2. /\ agent \in Headers /\ agent["x-opencode-session"] = h["x-opencode-session"]
      /\ cli.agent => agent["User-Agent"] = Gateway
  BY <1>1, SomeNames, SetHeader
<1> HIDE DEF agent
<1>3. /\ identity \in Headers /\ identity["x-opencode-session"] = h["x-opencode-session"]
      /\ \A name \in Replaced : identity[name] = Gateway
      /\ cli.agent => identity["User-Agent"] = Gateway
  BY <1>1, <1>2, SomeNames DEF Headers, Replaced
<1> HIDE DEF identity
<1>4. /\ filled \in Headers
      /\ \A name \in Names \ {"x-opencode-request"} : filled[name] = identity[name]
  BY <1>3, SomeNames, FillHeader
<1> HIDE DEF filled
<1>5. /\ d \in Headers
      /\ \A name \in Names : name # "x-opencode-session" \/ filled["x-opencode-session"] # Absent
                                => d[name] = filled[name]
  BY <1>4, SomeNames, FillHeader
<1>6. d = Disguised(h)
  BY DEF Disguised, filled, identity, agent
<1> HIDE DEF d
<1>7. HasSession(d, names)
  BY <1>3, <1>4, <1>5, SomeNames, ClientIsGiven DEF HasSession
<1>8. Hidden(d) /\ (cli.agent => d["User-Agent"] = Gateway)
  BY <1>3, <1>4, <1>5, SomeNames DEF Hidden, Replaced
<1> QED
  BY <1>5, <1>6, <1>7, <1>8

----------------------------------------------------------------------------
(***************************************************************************)
(* The invariant.  Between Receive and Return the body is the corrected    *)
(* one of the client's; the headers under construction and the ones sent   *)
(* have the client's session; each that was sent shows one identity, the   *)
(* gateway's if an agent was set throughout; and an agent that was set     *)
(* throughout so far is still set.                                         *)
(***************************************************************************)
CallTyped ==
    /\ pc \in {"idle", "attempt", "disguise"}
    /\ asked \in Asked \cup {Nothing}
    /\ versions = IF pc = "idle" THEN 0 ELSE 1
    /\ cli \in [agent : BOOLEAN, synthesize : BOOLEAN]
    /\ steady \in BOOLEAN /\ (steady => pc = "disguise" /\ cli.agent)

BodyCorrected ==
    /\ pc = "idle" => body = Plain("blank")
    /\ pc # "idle" => asked.body \in Body /\ body = Transform(asked.body)

HeaderBuilt ==
    /\ pc = "disguise" => header \in Headers /\ HasSession(header, asked.names) /\ Len(sent) < MaxAttempts
    /\ pc # "disguise" => header = <<>>

\* An attempt that was covered has the gateway's agent, and that goes with the rest.
OneIdentity(h, cover) ==
    /\ cover => h["User-Agent"] = Gateway
    /\ h["User-Agent"] = Gateway => Hidden(h)

AttemptsSent ==
    /\ sent \in Seq(Headers) /\ Len(sent) <= MaxAttempts
    /\ pc = "idle" => sent = <<>>
    /\ \A i \in 1..Len(sent) : HasSession(sent[i], asked.names)
    /\ covered \in Seq(BOOLEAN) /\ Len(covered) = Len(sent)
    /\ \A i \in 1..Len(sent) : OneIdentity(sent[i], covered[i])

OutInv == CallTyped /\ BodyCorrected /\ HeaderBuilt /\ AttemptsSent

\* Headers that are built are told from none.
LEMMA BuiltHeaders == \A h \in Headers : h # <<>> /\ DOMAIN h = Names
<1> SUFFICES ASSUME NEW h \in Headers PROVE h # <<>> /\ DOMAIN h = Names
  OBVIOUS
<1>1. DOMAIN h = Names /\ "x-title" \in Names
  BY SomeNames DEF Headers
<1>2. DOMAIN <<>> = {}
  OBVIOUS
<1> QED
  BY <1>1, <1>2

\* An invariant state is as the properties want it.
LEMMA OutInvProperties ==
    OutInv => OutTypeOK /\ BodyFitsUpstream /\ BodyKeepsRequest /\ OneSession /\ IdentityReplaced
<1> SUFFICES ASSUME OutInv
             PROVE OutTypeOK /\ BodyFitsUpstream /\ BodyKeepsRequest /\ OneSession /\ IdentityReplaced
  OBVIOUS
<1>1. OutTypeOK
  <2>1. pc = "disguise" <=> header # <<>>
    BY BuiltHeaders DEF OutInv, HeaderBuilt
  <2>2. \A i \in DOMAIN sent : DOMAIN sent[i] = Names
    BY BuiltHeaders DEF OutInv, AttemptsSent
  <2> QED
    BY <2>1, <2>2 DEF OutInv, CallTyped, AttemptsSent, OutTypeOK
<1>2. BodyFitsUpstream
  <2>1. CASE pc = "idle"
    BY <2>1 DEF OutInv, BodyCorrected, Plain, BodyFitsUpstream
  <2>2. CASE pc # "idle"
    <3>1. Fits(body)
      BY <2>2, TransformRight DEF OutInv, BodyCorrected
    <3> QED
      BY <3>1 DEF Fits, BodyFitsUpstream
  <2> QED
    BY <2>1, <2>2
<1>3. BodyKeepsRequest
  <2> SUFFICES ASSUME pc # "idle" PROVE Keeps(asked.body, body) /\ Transform(body) = body
    BY DEF BodyKeepsRequest, Keeps
  <2> QED
    BY TransformRight, TransformTwice DEF OutInv, BodyCorrected
<1>4. OneSession /\ IdentityReplaced
  <2>1. DOMAIN sent = 1..Len(sent)
    BY DEF OutInv, AttemptsSent
  <2>2. OneSession
    BY <2>1 DEF OutInv, AttemptsSent, HasSession, OneSession
  <2>3. IdentityReplaced
    BY <2>1 DEF OutInv, AttemptsSent, OneIdentity, Hidden, Replaced, IdentityReplaced
  <2> QED
    BY <2>2, <2>3
<1> QED
  BY <1>1, <1>2, <1>3, <1>4

\* At the start.
LEMMA OutInitInv == OutInit => OutInv
<1> SUFFICES ASSUME OutInit PROVE OutInv
  OBVIOUS
<1>1. CallTyped /\ BodyCorrected /\ HeaderBuilt
  BY DEF OutInit, CallTyped, BodyCorrected, HeaderBuilt
<1>2. AttemptsSent
  BY OutAssumption DEF OutInit, AttemptsSent
<1> QED
  BY <1>1, <1>2 DEF OutInv

\* A request comes: its body is corrected, and nothing has been sent.
LEMMA ReceiveKeepsInv ==
    ASSUME OutInv, NEW request \in Asked, NEW v1 \in BOOLEAN, Receive(request, v1)
    PROVE  OutInv'
<1>1. request.body \in Body
  BY OutAssumption
<1>2. /\ pc = "idle" /\ pc' = "attempt" /\ asked' = request /\ body' = Transform(request.body)
      /\ versions' = 1 /\ UNCHANGED <<header, sent, cli, steady, covered>>
  BY DEF Receive, Versions
<1>3. CallTyped' /\ BodyCorrected' /\ HeaderBuilt'
  BY <1>1, <1>2 DEF OutInv, CallTyped, BodyCorrected, HeaderBuilt
<1>4. AttemptsSent'
  <2>1. sent = <<>> /\ sent \in Seq(Headers) /\ Len(sent) <= MaxAttempts /\ Len(sent) = 0
    BY <1>2 DEF OutInv, AttemptsSent
  <2>2. covered \in Seq(BOOLEAN) /\ Len(covered) = Len(sent)
    BY DEF OutInv, AttemptsSent
  <2> QED
    BY <1>2, <2>1, <2>2 DEF AttemptsSent
<1> QED
  BY <1>3, <1>4 DEF OutInv

\* An attempt is sent with headers that have the session and show one identity.
LEMMA SendKeepsInv ==
    ASSUME OutInv, NEW h \in Headers, NEW cover \in BOOLEAN, Send(h, cover),
           Len(sent) < MaxAttempts, pc # "idle",
           HasSession(h, asked.names), OneIdentity(h, cover),
           UNCHANGED <<asked, body, versions, cli>>
    PROVE  OutInv'
<1>1. /\ pc' = "attempt" /\ header' = <<>> /\ sent' = Append(sent, h)
      /\ sent \in Seq(Headers) /\ covered \in Seq(BOOLEAN) /\ Len(covered) = Len(sent)
      /\ covered' = Append(covered, cover) /\ steady' = FALSE
  BY DEF Send, OutInv, AttemptsSent
<1>2. CallTyped' /\ BodyCorrected' /\ HeaderBuilt'
  BY <1>1 DEF OutInv, CallTyped, BodyCorrected, HeaderBuilt
<1>3. /\ sent' \in Seq(Headers) /\ Len(sent') = Len(sent) + 1 /\ Len(sent) \in Nat
      /\ \A i \in 1..Len(sent') : sent'[i] = IF i = Len(sent) + 1 THEN h ELSE sent[i]
      /\ covered' \in Seq(BOOLEAN) /\ Len(covered') = Len(sent')
      /\ \A i \in 1..Len(sent') : covered'[i] = IF i = Len(sent) + 1 THEN cover ELSE covered[i]
  BY <1>1
<1>4. AttemptsSent'
  <2>1. \A i \in 1..Len(sent') : i = Len(sent) + 1 \/ i \in 1..Len(sent)
    BY <1>3
  <2>2. \A i \in 1..Len(sent') : HasSession(sent'[i], asked.names)
    BY <1>3, <2>1 DEF OutInv, AttemptsSent
  <2>3. \A i \in 1..Len(sent') : OneIdentity(sent'[i], covered'[i])
    BY <1>3, <2>1 DEF OutInv, AttemptsSent
  <2>4. Len(sent') <= MaxAttempts
    BY <1>3, OutAssumption
  <2> QED
    BY <1>1, <1>3, <2>2, <2>3, <2>4 DEF AttemptsSent
<1> QED
  BY <1>2, <1>4 DEF OutInv

\* An attempt's place in the request is a number.
LEMMA FreshIsValue == OutInv => Fresh \in Values
BY DEF OutInv, AttemptsSent, Fresh, Values

LEMMA BuildKeepsInv ==
    ASSUME OutInv, NEW key \in Keys, Build(key)
    PROVE  OutInv'
<1> DEFINE s == Selected(key, asked.names)
           h == Affine(s, asked.names)
<1>1. h \in Headers /\ HasSession(h, asked.names) /\ h["User-Agent"] # Gateway
  <2>1. /\ s \in Headers /\ s["User-Agent"] # Gateway
        /\ "x-opencode-session" \in asked.names => s["x-opencode-session"] = Client("x-opencode-session")
    BY SelectedHeaders
  <2> HIDE DEF s
  <2> QED
    BY <2>1, FreshIsValue, AffineHeaders
<1>2. /\ pc = "attempt" /\ Len(sent) < MaxAttempts
      /\ IF cli.agent \/ cli.synthesize
         THEN header' = h /\ pc' = "disguise" /\ steady' = cli.agent /\ UNCHANGED <<sent, covered>>
         ELSE Send(h, FALSE)
      /\ UNCHANGED <<asked, body, versions, cli>>
  BY DEF Build
<1> HIDE DEF h
<1>3. CASE cli.agent \/ cli.synthesize
  <2>1. CallTyped' /\ BodyCorrected' /\ AttemptsSent'
    BY <1>2, <1>3 DEF OutInv, CallTyped, BodyCorrected, AttemptsSent
  <2>2. HeaderBuilt'
    BY <1>1, <1>2, <1>3 DEF HeaderBuilt
  <2> QED
    BY <2>1, <2>2 DEF OutInv
<1>4. CASE ~(cli.agent \/ cli.synthesize)
  BY <1>1, <1>2, <1>4, SendKeepsInv DEF OneIdentity
<1> QED
  BY <1>3, <1>4

LEMMA DisguiseKeepsInv == OutInv /\ Disguise => OutInv'
<1> SUFFICES ASSUME OutInv, Disguise PROVE OutInv'
  OBVIOUS
<1>1. /\ pc = "disguise" /\ header \in Headers /\ HasSession(header, asked.names)
      /\ Len(sent) < MaxAttempts
  BY DEF OutInv, HeaderBuilt, Disguise
<1> DEFINE d == Disguised(header)
<1>2. /\ d \in Headers /\ HasSession(d, asked.names)
      /\ Hidden(d) /\ (cli.agent => d["User-Agent"] = Gateway)
  BY <1>1, FreshIsValue, DisguisedHeaders
<1>3. Send(d, steady) /\ UNCHANGED <<asked, body, versions, cli>>
  BY DEF Disguise
<1> HIDE DEF d
<1>4. steady \in BOOLEAN /\ OneIdentity(d, steady)
  BY <1>2 DEF OutInv, CallTyped, OneIdentity
<1> QED
  BY <1>1, <1>2, <1>3, <1>4, SendKeepsInv

LEMMA ReturnKeepsInv == OutInv /\ Return => OutInv'
<1> SUFFICES ASSUME OutInv, Return PROVE OutInv'
  OBVIOUS
<1>1. /\ pc = "attempt" /\ pc' = "idle" /\ asked' = Nothing /\ body' = Plain("blank")
      /\ versions' = 0 /\ sent' = <<>> /\ covered' = <<>> /\ UNCHANGED <<header, cli, steady>>
  BY DEF Return
<1>2. CallTyped' /\ BodyCorrected' /\ HeaderBuilt'
  BY <1>1 DEF OutInv, CallTyped, BodyCorrected, HeaderBuilt
<1>3. AttemptsSent'
  BY <1>1, OutAssumption DEF AttemptsSent
<1> QED
  BY <1>2, <1>3 DEF OutInv

\* The settings change, and it is remembered whether an agent was set throughout.
LEMMA ChangeKeepsInv ==
    ASSUME OutInv, NEW settings \in [agent : BOOLEAN, synthesize : BOOLEAN], ChangeSettings(settings)
    PROVE  OutInv'
<1>1. /\ cli' = settings /\ UNCHANGED <<pc, asked, body, versions, header, sent, covered>>
      /\ steady' = (steady /\ settings.agent)
  BY DEF ChangeSettings, OutInv, CallTyped
<1>2. CallTyped' /\ BodyCorrected' /\ HeaderBuilt'
  BY <1>1 DEF OutInv, CallTyped, BodyCorrected, HeaderBuilt
<1>3. AttemptsSent'
  BY <1>1 DEF OutInv, AttemptsSent
<1> QED
  BY <1>2, <1>3 DEF OutInv

\* Every step preserves the invariant.
LEMMA OutNextInv == OutInv /\ [OutNext]_outVars => OutInv'
<1> SUFFICES ASSUME OutInv, [OutNext]_outVars PROVE OutInv'
  OBVIOUS
<1>1. CASE OutNext
  BY <1>1, ReceiveKeepsInv, BuildKeepsInv, DisguiseKeepsInv, ReturnKeepsInv, ChangeKeepsInv DEF OutNext
<1>2. CASE UNCHANGED outVars
  <2>1. CallTyped' /\ BodyCorrected' /\ HeaderBuilt'
    BY <1>2 DEF outVars, OutInv, CallTyped, BodyCorrected, HeaderBuilt
  <2>2. AttemptsSent'
    BY <1>2 DEF outVars, OutInv, AttemptsSent
  <2> QED
    BY <2>1, <2>2 DEF OutInv
<1> QED
  BY <1>1, <1>2

\* The invariant holds in every state of every execution.
THEOREM OutInvariant == OutSpec => []OutInv
<1> QED
  BY OutInitInv, OutNextInv, PTL DEF OutSpec

\* The types of the variables.
THEOREM OutTypesHold == OutSpec => []OutTypeOK
<1> QED
  BY OutInvariant, OutInvProperties, PTL

\* Whatever a client sends as an object, the upstream can read.
THEOREM BodiesFit == OutSpec => []BodyFitsUpstream
<1> QED
  BY OutInvariant, OutInvProperties, PTL

\* The correction keeps what the client asked for, and is not repeated by a second
\* gateway behind this one.
THEOREM BodiesKeepRequests == OutSpec => []BodyKeepsRequest
<1> QED
  BY OutInvariant, OutInvProperties, PTL

\* All attempts of a request are in the session the client has named.
THEOREM SessionIsKept == OutSpec => []OneSession
<1> QED
  BY OutInvariant, OutInvProperties, PTL

\* An attempt whose headers were built while a user agent was configured throughout
\* replaces the identity of the client, and no attempt mixes two.
THEOREM IdentityIsReplaced == OutSpec => []IdentityReplaced
<1> QED
  BY OutInvariant, OutInvProperties, PTL

=============================================================================
