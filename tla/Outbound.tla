------------------------------ MODULE Outbound ------------------------------
(***************************************************************************)
(* What the upstream is sent: transformRequestBody and buildUpstreamURL of *)
(* internal/relayproxy/relay.go, buildOutboundHeaders of headers.go.       *)
(*                                                                         *)
(* Forward fixes body and URL once; every attempt builds its headers anew, *)
(* from settings which the administrator may have changed since, or        *)
(* changes while they are read.                                            *)
(***************************************************************************)
EXTENDS Naturals, Sequences, SequencesExt

CONSTANTS
    Asked,        \* the requests of clients in this instance: body and headers
    Keys,         \* the API keys of the workers; "" is none
    ThinkingWords, \* the words that a pattern of thinkingModelPatterns finds something in
    MaxAttempts   \* MaxWorkerAttempts

VARIABLES
    pc,       \* where Forward is: idle, between attempts, or in the headers of one
    asked,    \* the request as the client sent it
    body,     \* outBody
    versions, \* how often the upstream URL has the path segment /v1
    header,   \* the headers under construction
    sent,     \* the headers of the attempts so far
    cli,      \* the settings that disguise the gateway: a user agent, the old flag
    steady,   \* history: a user agent was set ever since the headers under construction were begun
    covered   \* history: for each attempt that was sent, whether that was so up to its end

outVars == <<pc, asked, body, versions, header, sent, cli, steady, covered>>

----------------------------------------------------------------------------
(* The body.  A model's name is the sequence of its words, which dashes     *)
(* join; <<>> is a model that is missing or no string.                      *)

Roles == {"assistant", "developer", "system", "user"}
Turn == [role : Roles, reasoning : {"absent", "blank", "text"}]   \* absent, or no string
Models == Seq(STRING)

\* A body is blank, no JSON object (opaque), or an object.  The messages are a
\* list of turns, or missing; or malformed: no list, or one with other things
\* than objects between its turns.
Body == [kind : {"blank", "opaque", "object"}, model : Models, metadata : BOOLEAN,
         effort : STRING, messages : {"absent", "malformed", "list"}, turns : Seq(Turn)]
Plain(kind) == [kind |-> kind, model |-> <<>>, metadata |-> FALSE,
                effort |-> "absent", messages |-> "absent", turns |-> <<>>]

ASSUME OutAssumption ==
    /\ Asked \subseteq [body : Body, names : SUBSET STRING]
    /\ MaxAttempts \in Nat

\* The patterns find their own words, in capitals as well, and none of the others
\* in the table of aliases.
ASSUME PatternAssumption ==
    /\ {"deepseek", "kimi", "k2", "minimax", "mimo"} \subseteq ThinkingWords
    /\ {"v4", "pro", "flash", "glm", "5.2", "v2.5", "qwen3.6", "qwen3.7", "plus", "max",
        "grok", "4.5", "hy3", "k3"} \cap ThinkingWords = {}

Graded == {<<"deepseek", "v4", "pro">>, <<"grok", "4.5">>, <<"hy3">>, <<"kimi", "k3">>}
HighOrMax == {<<"deepseek", "v4", "flash">>, <<"glm", "5.2">>, <<"mimo", "v2.5">>,
              <<"qwen3.6", "plus">>, <<"qwen3.7", "max">>, <<"qwen3.7", "plus">>}
EffortTiers ==
    [name \in HighOrMax \cup Graded |->
        CASE name = <<"deepseek", "v4", "pro">> -> {"low", "medium", "high", "max"}
          [] name = <<"grok", "4.5">> -> {"low", "medium", "high"}
          [] name = <<"hy3">> -> {"none", "low", "high"}
          [] name = <<"kimi", "k3">> -> {"max"}
          [] OTHER -> {"high", "max"}]

\* An alias is a base model of the table with one of its levels behind it.
IsAlias(model) ==
    /\ Len(model) > 1
    /\ Front(model) \in DOMAIN EffortTiers
    /\ Last(model) \in EffortTiers[Front(model)]

BaseModel(model) == IF IsAlias(model) THEN Front(model) ELSE model

\* A dash ends a word for the patterns too, and none of them has one: they find
\* something in a name exactly if they do in one of its words.
IsThinking(model) == Range(model) \cap ThinkingWords # {}

\* What is blank is replaced by one space, which is as blank.
WithReasoning(turn) ==
    IF turn.role = "assistant" /\ turn.reasoning = "absent"
    THEN [turn EXCEPT !.reasoning = "blank"] ELSE turn

WithSystemRole(turn) ==
    IF turn.role = "developer" THEN [turn EXCEPT !.role = "system"] ELSE turn

MapTurns(Op(_), turns) == [i \in DOMAIN turns |-> Op(turns[i])]

\* The turns of a list; what is malformed cannot be read and is left as it is.
CorrectedTurns(b, thinking) ==
    IF b.messages # "list" THEN b.turns
    ELSE MapTurns(WithSystemRole, IF thinking THEN MapTurns(WithReasoning, b.turns) ELSE b.turns)

\* Mutants: only aliases are worked on; the alias decides the effort.
TransformAliases(b) ==
    IF ~IsAlias(b.model) THEN b
    ELSE [b EXCEPT !.metadata = FALSE, !.model = BaseModel(@),
                   !.effort = IF @ = "absent" THEN Last(b.model) ELSE @,
                   !.turns = CorrectedTurns(b, TRUE)]

TransformForcingEffort(b) ==
    LET model == BaseModel(b.model)
    IN  IF b.kind # "object" THEN b
        ELSE [b EXCEPT !.metadata = FALSE, !.model = model,
                       !.effort = IF IsAlias(b.model) THEN Last(b.model) ELSE @,
                       !.turns = CorrectedTurns(b, IsThinking(model))]

\* A body that is no object keeps its bytes.
Transform(b) ==
    LET model == BaseModel(b.model)
    IN  IF b.kind # "object" THEN b
        ELSE [b EXCEPT !.metadata = FALSE,
                       !.model = model,
                       !.effort = IF IsAlias(b.model) /\ @ = "absent" THEN Last(b.model) ELSE @,
                       !.turns = CorrectedTurns(b, IsThinking(model))]

----------------------------------------------------------------------------
(* The headers.  A client's are the set of names it sends; a value is the   *)
(* place it comes from.                                                     *)

Identity == {"x-opencode-session", "x-opencode-request", "x-opencode-project", "x-opencode-client"}
Metadata == {"x-session-id", "x-title"}
Forwarded == Identity \cup Metadata \cup {"User-Agent"}
Names == Forwarded \cup {"Content-Type", "Authorization", "x-source"}

Absent == <<"absent">>
Gateway == <<"gateway">>            \* a fixed text, a worker's key or a setting
Client(name) == <<"client", name>>  \* what the client sent under that name
Fresh == <<"fresh", Len(sent)>>     \* random: differs from attempt to attempt

Set(h, name, value) == [h EXCEPT ![name] = value]
Fill(h, name, value) == IF h[name] = Absent THEN Set(h, name, value) ELSE h

\* The client's own key is dropped with everything else that is not on the list.
Selected(key, names) ==
    [name \in Names |->
        CASE name = "Content-Type" -> Gateway
          [] name = "Authorization" -> IF key = "" THEN Absent ELSE Gateway
          [] name \in Forwarded \cap names -> Client(name)
          [] OTHER -> Absent]

\* The header the client's choice of a session is in.
SessionHeaders == <<"x-opencode-session", "x-session-affinity", "x-session-id">>
SessionSource(names) ==
    LET first == SelectInSeq(SessionHeaders, LAMBDA name : name \in names)
    IN  IF first = 0 THEN "none" ELSE SessionHeaders[first]

\* Mutant: a session of its own for every attempt.
AffineFresh(h, names) ==
    IF SessionSource(names) = "none" THEN h
    ELSE Fill(Fill(h, "x-opencode-session", Fresh), "x-opencode-request", Fresh)

Affine(h, names) ==
    IF SessionSource(names) \in {"none", "x-opencode-session"} THEN h
    ELSE Fill(Set(h, "x-opencode-session", Client(SessionSource(names))), "x-opencode-request", Fresh)

DisguisedKeepingTitle(h) ==     \* mutant
    LET agent == IF cli.agent THEN Set(h, "User-Agent", Gateway) ELSE h
        identity == [name \in Names |->
                        IF name \in {"x-opencode-client", "x-opencode-project", "x-source"}
                        THEN Gateway ELSE agent[name]]
    IN  Fill(Fill(identity, "x-opencode-request", Fresh), "x-opencode-session", Fresh)

Disguised(h) ==
    LET agent == IF cli.agent THEN Set(h, "User-Agent", Gateway) ELSE h
        identity == [name \in Names |->
                        IF name \in {"x-opencode-client", "x-opencode-project", "x-title", "x-source"}
                        THEN Gateway ELSE agent[name]]
    IN  Fill(Fill(identity, "x-opencode-request", Fresh), "x-opencode-session", Fresh)

----------------------------------------------------------------------------
\* The path of the client starts with /v1, which a base URL that ends with it (v1)
\* does not get again.  Mutant: it does.
VersionsKeepingPrefix(v1) == (IF v1 THEN 1 ELSE 0) + 1
Versions(v1) == (IF v1 THEN 1 ELSE 0) + (IF v1 THEN 0 ELSE 1)

Nothing == [body |-> Plain("blank"), names |-> {}]

OutInit ==
    /\ pc = "idle" /\ asked = Nothing
    /\ body = Plain("blank") /\ versions = 0
    /\ header = <<>> /\ sent = <<>>
    /\ cli \in [agent : BOOLEAN, synthesize : BOOLEAN]
    /\ steady = FALSE /\ covered = <<>>

\* Forward begins.
Receive(request, v1) ==
    /\ pc = "idle" /\ pc' = "attempt"
    /\ asked' = request /\ body' = Transform(request.body)
    /\ versions' = Versions(v1)
    /\ UNCHANGED <<header, sent, cli, steady, covered>>

Send(h, agentKept) ==
    /\ sent' = Append(sent, h) /\ header' = <<>> /\ pc' = "attempt"
    /\ covered' = Append(covered, agentKept)
    /\ steady' = FALSE

\* An attempt builds its headers up to the look at the settings.
Build(key) ==
    /\ pc = "attempt" /\ Len(sent) < MaxAttempts
    /\ LET h == Affine(Selected(key, asked.names), asked.names)
       IN  IF cli.agent \/ cli.synthesize
           THEN /\ header' = h /\ pc' = "disguise" /\ steady' = cli.agent
                /\ UNCHANGED <<sent, covered>>
           ELSE Send(h, FALSE)
    /\ UNCHANGED <<asked, body, versions, cli>>

\* The settings are read again; the attempt is sent.
Disguise ==
    /\ pc = "disguise"
    /\ Send(Disguised(header), steady)
    /\ UNCHANGED <<asked, body, versions, cli>>

Return ==
    /\ pc = "attempt" /\ pc' = "idle"
    /\ asked' = Nothing /\ body' = Plain("blank") /\ versions' = 0 /\ sent' = <<>>
    /\ covered' = <<>>
    /\ UNCHANGED <<header, cli, steady>>

\* PUT /admin/api/settings writes the fields the attempts read, without a lock.
ChangeSettings(settings) ==
    /\ cli' = settings
    /\ steady' = (steady /\ settings.agent)
    /\ UNCHANGED <<pc, asked, body, versions, header, sent, covered>>

OutNext ==
    \/ \E request \in Asked, v1 \in BOOLEAN : Receive(request, v1)
    \/ \E key \in Keys : Build(key)
    \/ Disguise
    \/ Return
    \/ \E settings \in [agent : BOOLEAN, synthesize : BOOLEAN] : ChangeSettings(settings)

OutSpec == OutInit /\ [][OutNext]_outVars

----------------------------------------------------------------------------
(* Properties. *)

OutTypeOK ==
    /\ pc \in {"idle", "attempt", "disguise"}
    /\ asked \in Asked \cup {Nothing}
    /\ versions \in {0, 1} /\ (versions = 0 <=> pc = "idle")
    /\ pc = "disguise" <=> header # <<>>
    /\ Len(sent) <= MaxAttempts
    /\ \A i \in DOMAIN sent : DOMAIN sent[i] = Names
    /\ cli \in [agent : BOOLEAN, synthesize : BOOLEAN]
    /\ steady => pc = "disguise" /\ cli.agent
    /\ Len(covered) = Len(sent) /\ covered \in Seq(BOOLEAN)

\* relay.go:414-421 and headers of the functions it calls: what a client sends as
\* an object has no client_metadata and no alias for a model, and if its messages
\* are a list of objects there is no developer among them, and reasoning in every
\* assistant's turn of a thinking model.
BodyFitsUpstream ==
    body.kind = "object" =>
        /\ ~body.metadata
        /\ ~IsAlias(body.model)
        /\ body.messages = "list" =>
              \A i \in DOMAIN body.turns :
                  /\ body.turns[i].role # "developer"
                  /\ IsThinking(body.model) /\ body.turns[i].role = "assistant"
                        => body.turns[i].reasoning # "absent"

\* The client still gets what it asked for: its own effort, its text, its turns in
\* their order, and messages as they were if they are no list of objects.  And a
\* body that was fixed once is not changed by another gateway.
BodyKeepsRequest ==
    pc # "idle" =>
        /\ asked.body.kind # "object" => body = asked.body
        /\ asked.body.effort # "absent" => body.effort = asked.body.effort
        /\ body.messages = asked.body.messages
        /\ body.messages # "list" => body.turns = asked.body.turns
        /\ Len(body.turns) = Len(asked.body.turns)
        /\ \A i \in DOMAIN body.turns :
              asked.body.turns[i].reasoning = "text" => body.turns[i].reasoning = "text"
        /\ Transform(body) = body

\* headers.go:52-54: all attempts of a request are one session if the client has
\* named one, under whichever name, and whatever the settings are meanwhile.
OneSession ==
    SessionSource(asked.names) # "none" =>
        \A i \in DOMAIN sent : sent[i]["x-opencode-session"] = Client(SessionSource(asked.names))

\* headers.go:68-72: no identity of the client's is passed on by an attempt while
\* whose headers were built a user agent was configured, whatever else changed then
\* or between the attempts.  And no attempt mixes two identities: with the agent of
\* the gateway go its client, project and title, also when the settings change
\* between the two times they are read.  TestBuildOutboundHeaders
\* (relay_test.go:112-146) demands the opposite of client and project: the code
\* fails that test, as it must to do what its own comment says.
IdentityReplaced ==
    \A i \in DOMAIN sent :
        /\ covered[i] => sent[i]["User-Agent"] = Gateway
        /\ sent[i]["User-Agent"] = Gateway =>
              \A name \in {"x-title", "x-opencode-project", "x-opencode-client"} :
                  sent[i][name] = Gateway

=============================================================================
