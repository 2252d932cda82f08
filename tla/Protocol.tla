------------------------------ MODULE Protocol ------------------------------
(***************************************************************************)
(* What a POST to the service is taken for, before any tool runs: the      *)
(* checks of do_POST (server.py) and of AgentXMcp.handle (mcp.py), in the  *)
(* order in which the code makes them.  Two protocol profiles are served   *)
(* from one endpoint: the initialize-era one ("legacy") and the stateless  *)
(* one ("new").  Beside the code's decision stands the contract of         *)
(* docs/agentx-service.md, which speaks of neither order nor profile code. *)
(*                                                                         *)
(* A message is a record; each field holds one of the few values the       *)
(* checks tell apart, see Fields.                                          *)
(***************************************************************************)
EXTENDS Naturals, Sequences, FiniteSets

Tools == {"plan", "submit", "list", "get", "cancel", "artifacts", "report"}

Fields ==
    [path |-> {"mcp", "other"},
     token |-> {"right", "wrong", "broken"}, \* the Authorization header
     body |-> {"fits", "empty", "large", "garbled"},
     origin |-> {"none", "listed", "unlisted"},
     type |-> {"json", "other"},        \* Content-Type
     object |-> BOOLEAN,                \* the body is a JSON object
     jsonrpc |-> BOOLEAN,               \* jsonrpc is "2.0"
     id |-> {"given", "absent", "invalid"},
     method |-> {"initialize", "ping", "tools/list", "tools/call",
                 "server/discover", "other", "not_text"},
     params |-> BOOLEAN,                \* params are an object
     meta |-> {"missing", "new", "legacy", "other"}, \* the version in a complete _meta
     client |-> BOOLEAN,                \* client information, where given, is well formed
     versionHeader |-> {"none", "new", "legacy", "other"},
     methodHeader |-> BOOLEAN,          \* Mcp-Method is the method
     nameHeader |-> Tools \cup {"none", "other", "broken"}, \* Mcp-Name, decoded
     cursor |-> BOOLEAN,
     name |-> Tools \cup {"none", "other"},
     arguments |-> BOOLEAN]             \* arguments are an object

Message(m) == \A f \in DOMAIN Fields : m[f] \in Fields[f]

\* A message, with arguments args, whose fields are those of the valid call of
\* a tool.
NewCall(tool, args) ==
    [path |-> "mcp", token |-> "right", body |-> "fits", origin |-> "none",
     type |-> "json", object |-> TRUE, jsonrpc |-> TRUE, id |-> "given",
     method |-> "tools/call", params |-> TRUE, meta |-> "new", client |-> TRUE,
     versionHeader |-> "new", methodHeader |-> TRUE, nameHeader |-> tool,
     cursor |-> FALSE, name |-> tool, arguments |-> TRUE, args |-> args]

LegacyCall(tool, args) ==
    [NewCall(tool, args) EXCEPT !.meta = "missing", !.versionHeader = "legacy",
                                !.methodHeader = FALSE, !.nameHeader = "none"]

\* What _submit_http sends.
CommandLineCall(args) == NewCall("submit", args)

-----------------------------------------------------------------------------
(* Verdicts.  A request ends with an error or a result of the protocol, is *)
(* noted without an answer, is dropped with its connection, or calls a     *)
(* tool.                                                                   *)

Refuse(status) == [kind |-> "error", status |-> status]
Succeed == [kind |-> "result", status |-> 200]
Noted == [kind |-> "noted", status |-> 202]
Drop == [kind |-> "dropped", status |-> 0]
CallTool == [kind |-> "call", status |-> 200]

\* The verdict of the first check that fails, checks being <<failed, verdict>>.
FirstFailure(checks, otherwise) ==
    LET failed == {i \in DOMAIN checks : checks[i][1]}
    IN  IF failed = {} THEN otherwise
        ELSE checks[CHOOSE i \in failed : \A j \in failed : i <= j][2]

\* The tail of both profiles for a call.
ToolVerdict(m, refusal) ==
    IF m.name \in Tools /\ m.arguments THEN CallTool ELSE Refuse(refusal)

\* Mutant: a notification is refused only where its method is known.
LegacyVerdictIdLate(m) ==
    FirstFailure(
        <<<<~m.jsonrpc \/ m.method = "not_text" \/ ~m.params, Refuse(400)>>,
          <<m.method = "initialize" /\ ~m.client, Refuse(400)>>,
          <<m.method \in {"initialize", "ping"}, Succeed>>,
          <<m.method = "tools/list" /\ m.cursor, Refuse(200)>>,
          <<m.method = "tools/list", Succeed>>,
          <<m.method = "tools/call", ToolVerdict(m, 200)>>,
          <<m.id = "absent", Noted>>,
          <<m.id = "invalid", Refuse(400)>>>>,
        Refuse(200))

LegacyVerdict(m) ==
    FirstFailure(
        <<<<~m.jsonrpc \/ m.method = "not_text" \/ ~m.params, Refuse(400)>>,
          <<m.id = "absent", Noted>>,
          <<m.id = "invalid", Refuse(400)>>,
          <<m.method = "initialize" /\ ~m.client, Refuse(400)>>,
          <<m.method \in {"initialize", "ping"}, Succeed>>,
          <<m.method = "tools/list" /\ m.cursor, Refuse(200)>>,
          <<m.method = "tools/list", Succeed>>,
          <<m.method # "tools/call", Refuse(200)>>>>,
        ToolVerdict(m, 200))

NewVerdict(m) ==
    FirstFailure(
        <<<<~m.jsonrpc \/ m.id # "given" \/ m.method = "not_text" \/ ~m.params,
            Refuse(400)>>,
          <<m.meta = "missing" \/ ~m.client, Refuse(400)>>,
          <<m.versionHeader # m.meta \/ ~m.methodHeader, Refuse(400)>>,
          \* _decoded_header lets the ValueError of a non-ASCII value escape
          <<m.method = "tools/call" /\ m.nameHeader = "broken", Drop>>,
          <<m.method = "tools/call" /\ m.nameHeader # m.name, Refuse(400)>>,
          <<m.meta # "new", Refuse(400)>>,
          <<m.method = "server/discover", Succeed>>,
          <<m.method = "tools/list" /\ m.cursor, Refuse(400)>>,
          <<m.method = "tools/list", Succeed>>,
          <<m.method # "tools/call", Refuse(404)>>>>,
        ToolVerdict(m, 400))

\* handle: which of the profiles.
Verdict(m) ==
    FirstFailure(
        <<<<m.origin = "unlisted", Refuse(403)>>,
          <<m.type # "json", Refuse(415)>>,
          <<~m.object, Refuse(400)>>>>,
        IF m.method = "initialize" \/ m.versionHeader = "legacy"
        THEN LegacyVerdict(m) ELSE NewVerdict(m))

\* do_POST.
PostVerdict(m) ==
    FirstFailure(
        <<<<m.path # "mcp", Refuse(404)>>,
          \* compare_digest takes no text outside ASCII and raises a TypeError
          <<m.token = "broken", Drop>>,
          <<m.token = "wrong", Refuse(401)>>,
          <<m.body \in {"empty", "large"}, Refuse(413)>>,
          <<m.body = "garbled", Refuse(400)>>>>,
        Verdict(m))

-----------------------------------------------------------------------------
(* The contract: an authenticated, well-formed request of an allowed       *)
(* origin, that names a tool and waits for an answer, under either         *)
(* profile; under the new one the headers say what the body says.          *)
Contract(m) ==
    /\ m.path = "mcp" /\ m.token = "right" /\ m.body = "fits" /\ m.origin # "unlisted"
    /\ m.type = "json" /\ m.object /\ m.jsonrpc /\ m.id = "given"
    /\ m.method = "tools/call" /\ m.params /\ m.arguments /\ m.name \in Tools
    /\ \/ m.versionHeader = "legacy"
       \/ /\ m.versionHeader = "new" /\ m.meta = "new" /\ m.client
          /\ m.methodHeader /\ m.nameHeader = m.name
=============================================================================
