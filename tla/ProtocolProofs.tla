--------------------------- MODULE ProtocolProofs ---------------------------
(***************************************************************************)
(* The checks of do_POST and of both protocol profiles, taken in the order *)
(* of the code, let through exactly what the contract asks for.            *)
(***************************************************************************)
EXTENDS Protocol, TLAPS

\* The first of some places, if any.
LEMMA FirstExists ==
    ASSUME NEW S \in SUBSET (1..10), S # {}
    PROVE  \E i \in S : \A j \in S : i <= j
<1> SUFFICES ASSUME \A i \in S : \E j \in S : j < i PROVE FALSE
  OBVIOUS
<1>1. S \cap (1..2) = {}
  OBVIOUS
<1>2. S \cap (1..4) = {}
  BY <1>1
<1>3. S \cap (1..6) = {}
  BY <1>2
<1>4. S \cap (1..8) = {}
  BY <1>3
<1>5. S \cap (1..10) = {}
  BY <1>4
<1> QED
  BY <1>5

\* A chain of checks that never calls by itself calls when none fails.
LEMMA FirstFailureCalls ==
    ASSUME NEW checks, NEW otherwise, DOMAIN checks \subseteq 1..10,
           \A i \in DOMAIN checks : checks[i][2].kind # "call"
    PROVE  FirstFailure(checks, otherwise).kind = "call" <=>
              (\A i \in DOMAIN checks : ~checks[i][1]) /\ otherwise.kind = "call"
<1> DEFINE failed == {i \in DOMAIN checks : checks[i][1]}
<1>1. CASE failed = {}
  BY <1>1 DEF FirstFailure
<1>2. CASE failed # {}
  <2>1. \E i \in failed : \A j \in failed : i <= j
    BY <1>2, FirstExists
  <2> QED
    BY <1>2, <2>1 DEF FirstFailure
<1> QED
  BY <1>1, <1>2

-----------------------------------------------------------------------------
(* The profiles                                                            *)

\* The initialize-era profile.
LEMMA LegacyCalls ==
    ASSUME NEW m, Message(m)
    PROVE  LegacyVerdict(m).kind = "call" <=>
              /\ m.jsonrpc /\ m.id = "given" /\ m.method = "tools/call" /\ m.params
              /\ m.arguments /\ m.name \in Tools
<1> DEFINE checks ==
        <<<<~m.jsonrpc \/ m.method = "not_text" \/ ~m.params, Refuse(400)>>,
          <<m.id = "absent", Noted>>,
          <<m.id = "invalid", Refuse(400)>>,
          <<m.method = "initialize" /\ ~m.client, Refuse(400)>>,
          <<m.method \in {"initialize", "ping"}, Succeed>>,
          <<m.method = "tools/list" /\ m.cursor, Refuse(200)>>,
          <<m.method = "tools/list", Succeed>>,
          <<m.method # "tools/call", Refuse(200)>>>>
<1>1. LegacyVerdict(m) = FirstFailure(checks, ToolVerdict(m, 200))
  BY DEF LegacyVerdict
<1>2. DOMAIN checks = 1..8
  OBVIOUS
<1>3. \A i \in DOMAIN checks : checks[i][2].kind # "call"
  BY DEF Refuse, Noted, Succeed
<1>4. LegacyVerdict(m).kind = "call" <=>
         (\A i \in DOMAIN checks : ~checks[i][1]) /\ ToolVerdict(m, 200).kind = "call"
  <2> HIDE DEF checks
  <2> QED
    BY <1>1, <1>2, <1>3, FirstFailureCalls
<1>5. (\A i \in DOMAIN checks : ~checks[i][1]) <=>
         /\ ~(~m.jsonrpc \/ m.method = "not_text" \/ ~m.params)
         /\ m.id # "absent" /\ m.id # "invalid"
         /\ ~(m.method = "initialize" /\ ~m.client)
         /\ m.method \notin {"initialize", "ping"}
         /\ ~(m.method = "tools/list" /\ m.cursor) /\ m.method # "tools/list"
         /\ m.method = "tools/call"
  <2>1. /\ checks[1][1] <=> (~m.jsonrpc \/ m.method = "not_text" \/ ~m.params)
        /\ checks[2][1] <=> m.id = "absent"
        /\ checks[3][1] <=> m.id = "invalid"
        /\ checks[4][1] <=> (m.method = "initialize" /\ ~m.client)
        /\ checks[5][1] <=> m.method \in {"initialize", "ping"}
        /\ checks[6][1] <=> (m.method = "tools/list" /\ m.cursor)
        /\ checks[7][1] <=> m.method = "tools/list"
        /\ checks[8][1] <=> m.method # "tools/call"
    OBVIOUS
  <2>2. (\A i \in 1..8 : ~checks[i][1]) <=>
          ~checks[1][1] /\ ~checks[2][1] /\ ~checks[3][1] /\ ~checks[4][1] /\
          ~checks[5][1] /\ ~checks[6][1] /\ ~checks[7][1] /\ ~checks[8][1]
    <3> HIDE DEF checks
    <3> QED
      OBVIOUS
  <2> HIDE DEF checks
  <2> QED
    BY <1>2, <2>1, <2>2
<1>6. ToolVerdict(m, 200).kind = "call" <=> m.name \in Tools /\ m.arguments
  BY DEF ToolVerdict, CallTool, Refuse
<1>7. m.id \in {"given", "absent", "invalid"} /\ m.method \in Fields.method /\ m.jsonrpc \in BOOLEAN /\ m.params \in BOOLEAN
  BY DEF Message, Fields
<1> QED
  BY <1>4, <1>5, <1>6, <1>7
\* The stateless profile.
LEMMA NewCalls ==
    ASSUME NEW m, Message(m)
    PROVE  NewVerdict(m).kind = "call" <=>
              /\ m.jsonrpc /\ m.id = "given" /\ m.method = "tools/call" /\ m.params
              /\ m.arguments /\ m.name \in Tools
              /\ m.versionHeader = "new" /\ m.meta = "new" /\ m.client
              /\ m.methodHeader /\ m.nameHeader = m.name
<1> DEFINE checks ==
        <<<<~m.jsonrpc \/ m.id # "given" \/ m.method = "not_text" \/ ~m.params, Refuse(400)>>,
          <<m.meta = "missing" \/ ~m.client, Refuse(400)>>,
          <<m.versionHeader # m.meta \/ ~m.methodHeader, Refuse(400)>>,
          <<m.method = "tools/call" /\ m.nameHeader = "broken", Drop>>,
          <<m.method = "tools/call" /\ m.nameHeader # m.name, Refuse(400)>>,
          <<m.meta # "new", Refuse(400)>>,
          <<m.method = "server/discover", Succeed>>,
          <<m.method = "tools/list" /\ m.cursor, Refuse(400)>>,
          <<m.method = "tools/list", Succeed>>,
          <<m.method # "tools/call", Refuse(404)>>>>
           otherwise == ToolVerdict(m, 400)
<1>1. NewVerdict(m) = FirstFailure(checks, otherwise)
  BY DEF NewVerdict
<1>2. DOMAIN checks = 1..10
  OBVIOUS
<1>3. \A i \in DOMAIN checks : checks[i][2].kind # "call"
  BY DEF Refuse, Drop, Succeed
<1>4. NewVerdict(m).kind = "call" <=>
         (\A i \in DOMAIN checks : ~checks[i][1]) /\ otherwise.kind = "call"
  <2> HIDE DEF checks, otherwise
  <2> QED
    BY <1>1, <1>2, <1>3, FirstFailureCalls
<1>5. (\A i \in DOMAIN checks : ~checks[i][1]) <=>
         /\ ~(~m.jsonrpc \/ m.id # "given" \/ m.method = "not_text" \/ ~m.params)
         /\ ~(m.meta = "missing" \/ ~m.client)
         /\ ~(m.versionHeader # m.meta \/ ~m.methodHeader)
         /\ ~(m.method = "tools/call" /\ m.nameHeader = "broken")
         /\ ~(m.method = "tools/call" /\ m.nameHeader # m.name)
         /\ ~(m.meta # "new")
         /\ ~(m.method = "server/discover")
         /\ ~(m.method = "tools/list" /\ m.cursor)
         /\ ~(m.method = "tools/list")
         /\ ~(m.method # "tools/call")
  <2>1. /\ checks[1][1] <=> (~m.jsonrpc \/ m.id # "given" \/ m.method = "not_text" \/ ~m.params)
        /\ checks[2][1] <=> (m.meta = "missing" \/ ~m.client)
        /\ checks[3][1] <=> (m.versionHeader # m.meta \/ ~m.methodHeader)
        /\ checks[4][1] <=> (m.method = "tools/call" /\ m.nameHeader = "broken")
        /\ checks[5][1] <=> (m.method = "tools/call" /\ m.nameHeader # m.name)
        /\ checks[6][1] <=> (m.meta # "new")
        /\ checks[7][1] <=> (m.method = "server/discover")
        /\ checks[8][1] <=> (m.method = "tools/list" /\ m.cursor)
        /\ checks[9][1] <=> (m.method = "tools/list")
        /\ checks[10][1] <=> (m.method # "tools/call")
    OBVIOUS
  <2>2. (\A i \in 1..10 : ~checks[i][1]) <=>
          ~checks[1][1] /\ ~checks[2][1] /\ ~checks[3][1] /\ ~checks[4][1] /\
          ~checks[5][1] /\ ~checks[6][1] /\ ~checks[7][1] /\ ~checks[8][1] /\
          ~checks[9][1] /\ ~checks[10][1]
    <3> HIDE DEF checks
    <3> QED
      OBVIOUS
  <2> HIDE DEF checks
  <2> QED
    BY <1>2, <2>1, <2>2
<1>6. otherwise.kind = "call" <=> m.name \in Tools /\ m.arguments
  BY DEF ToolVerdict, CallTool, Refuse
<1>7. m.name \in Tools => m.name # "broken"
  BY DEF Tools
<1> HIDE DEF checks, otherwise
<1> QED
  BY <1>4, <1>5, <1>6, <1>7

\* What both profiles ask for, and the stateless one beside it.
CalledBy(m) ==
    /\ m.jsonrpc /\ m.id = "given" /\ m.method = "tools/call" /\ m.params
    /\ m.arguments /\ m.name \in Tools
    /\ \/ m.versionHeader = "legacy"
       \/ /\ m.versionHeader = "new" /\ m.meta = "new" /\ m.client
          /\ m.methodHeader /\ m.nameHeader = m.name

\* handle: which of the profiles, once origin, type and body are right.
LEMMA VerdictCalls ==
    ASSUME NEW m, Message(m)
    PROVE  Verdict(m).kind = "call" <=>
              /\ m.origin # "unlisted" /\ m.type = "json" /\ m.object /\ CalledBy(m)
<1> DEFINE checks ==
        <<<<m.origin = "unlisted", Refuse(403)>>,
          <<m.type # "json", Refuse(415)>>,
          <<~m.object, Refuse(400)>>>>
           otherwise == IF m.method = "initialize" \/ m.versionHeader = "legacy"
                        THEN LegacyVerdict(m) ELSE NewVerdict(m)
<1>1. Verdict(m) = FirstFailure(checks, otherwise)
  BY DEF Verdict
<1>2. DOMAIN checks = 1..3
  OBVIOUS
<1>3. \A i \in DOMAIN checks : checks[i][2].kind # "call"
  BY DEF Refuse
<1>4. Verdict(m).kind = "call" <=>
         (\A i \in DOMAIN checks : ~checks[i][1]) /\ otherwise.kind = "call"
  <2> HIDE DEF checks, otherwise
  <2> QED
    BY <1>1, <1>2, <1>3, FirstFailureCalls
<1>5. (\A i \in DOMAIN checks : ~checks[i][1]) <=>
         /\ ~(m.origin = "unlisted")
         /\ ~(m.type # "json")
         /\ ~(~m.object)
  <2>1. /\ checks[1][1] <=> (m.origin = "unlisted")
        /\ checks[2][1] <=> (m.type # "json")
        /\ checks[3][1] <=> (~m.object)
    OBVIOUS
  <2>2. (\A i \in 1..3 : ~checks[i][1]) <=>
          ~checks[1][1] /\ ~checks[2][1] /\ ~checks[3][1]
    <3> HIDE DEF checks
    <3> QED
      OBVIOUS
  <2> HIDE DEF checks
  <2> QED
    BY <1>2, <2>1, <2>2
<1>6. otherwise.kind = "call" <=> CalledBy(m)
  BY LegacyCalls, NewCalls DEF CalledBy
<1>7. m.origin \in Fields.origin /\ m.object \in BOOLEAN
  BY DEF Message, Fields
<1> HIDE DEF checks, otherwise
<1> QED
  BY <1>4, <1>5, <1>6, <1>7

\* do_POST.
LEMMA PostCalls ==
    ASSUME NEW m, Message(m)
    PROVE  PostVerdict(m).kind = "call" <=>
              /\ m.path = "mcp" /\ m.token = "right" /\ m.body = "fits"
              /\ m.origin # "unlisted" /\ m.type = "json" /\ m.object /\ CalledBy(m)
<1> DEFINE checks ==
        <<<<m.path # "mcp", Refuse(404)>>,
          <<m.token = "broken", Drop>>,
          <<m.token = "wrong", Refuse(401)>>,
          <<m.body \in {"empty", "large"}, Refuse(413)>>,
          <<m.body = "garbled", Refuse(400)>>>>
           otherwise == Verdict(m)
<1>1. PostVerdict(m) = FirstFailure(checks, otherwise)
  BY DEF PostVerdict
<1>2. DOMAIN checks = 1..5
  OBVIOUS
<1>3. \A i \in DOMAIN checks : checks[i][2].kind # "call"
  BY DEF Refuse, Drop
<1>4. PostVerdict(m).kind = "call" <=>
         (\A i \in DOMAIN checks : ~checks[i][1]) /\ otherwise.kind = "call"
  <2> HIDE DEF checks, otherwise
  <2> QED
    BY <1>1, <1>2, <1>3, FirstFailureCalls
<1>5. (\A i \in DOMAIN checks : ~checks[i][1]) <=>
         /\ ~(m.path # "mcp")
         /\ ~(m.token = "broken")
         /\ ~(m.token = "wrong")
         /\ ~(m.body \in {"empty", "large"})
         /\ ~(m.body = "garbled")
  <2>1. /\ checks[1][1] <=> (m.path # "mcp")
        /\ checks[2][1] <=> (m.token = "broken")
        /\ checks[3][1] <=> (m.token = "wrong")
        /\ checks[4][1] <=> (m.body \in {"empty", "large"})
        /\ checks[5][1] <=> (m.body = "garbled")
    OBVIOUS
  <2>2. (\A i \in 1..5 : ~checks[i][1]) <=>
          ~checks[1][1] /\ ~checks[2][1] /\ ~checks[3][1] /\ ~checks[4][1] /\
          ~checks[5][1]
    <3> HIDE DEF checks
    <3> QED
      OBVIOUS
  <2> HIDE DEF checks
  <2> QED
    BY <1>2, <2>1, <2>2
<1>6. otherwise.kind = "call" <=> m.origin # "unlisted" /\ m.type = "json" /\ m.object /\ CalledBy(m)
  BY VerdictCalls
<1>7. m.body \in {"fits", "empty", "large", "garbled"} /\ m.token \in {"right", "wrong", "broken"}
  BY DEF Message, Fields
<1> HIDE DEF checks, otherwise
<1> QED
  BY <1>4, <1>5, <1>6, <1>7

\* Whatever its fields hold, and in whichever profile, a message runs a tool if
\* and only if the contract asks for it (server.py do_POST, mcp.py handle).
THEOREM VerdictIsContract ==
    ASSUME NEW m, Message(m)
    PROVE  PostVerdict(m).kind = "call" <=> Contract(m)
BY PostCalls DEF CalledBy, Contract

-----------------------------------------------------------------------------
(* Kinds of verdicts                                                       *)

\* The verdict of a chain of checks is one of its verdicts.
LEMMA FirstFailureIsOne ==
    ASSUME NEW checks, NEW otherwise, NEW Kinds, DOMAIN checks \subseteq 1..10,
           \A i \in DOMAIN checks : checks[i][2].kind \in Kinds, otherwise.kind \in Kinds
    PROVE  FirstFailure(checks, otherwise).kind \in Kinds
<1> DEFINE failed == {i \in DOMAIN checks : checks[i][1]}
<1>1. CASE failed = {}
  BY <1>1 DEF FirstFailure
<1>2. CASE failed # {}
  <2>1. \E i \in failed : \A j \in failed : i <= j
    BY <1>2, FirstExists
  <2> QED
    BY <1>2, <2>1 DEF FirstFailure
<1> QED
  BY <1>1, <1>2

\* Whatever a message is, it gets a verdict of one of these kinds.
VerdictKinds == {"error", "result", "noted", "dropped", "call"}

LEMMA VerdictKind ==
    ASSUME NEW m
    PROVE  PostVerdict(m).kind \in VerdictKinds
<1> DEFINE K == VerdictKinds
<1>1. ASSUME NEW status PROVE ToolVerdict(m, status).kind \in K
  BY DEF ToolVerdict, CallTool, Refuse, VerdictKinds
<1>2. LegacyVerdict(m).kind \in K
  <2> DEFINE checks ==
        <<<<~m.jsonrpc \/ m.method = "not_text" \/ ~m.params, Refuse(400)>>,
          <<m.id = "absent", Noted>>,
          <<m.id = "invalid", Refuse(400)>>,
          <<m.method = "initialize" /\ ~m.client, Refuse(400)>>,
          <<m.method \in {"initialize", "ping"}, Succeed>>,
          <<m.method = "tools/list" /\ m.cursor, Refuse(200)>>,
          <<m.method = "tools/list", Succeed>>,
          <<m.method # "tools/call", Refuse(200)>>>>
  <2>1. LegacyVerdict(m) = FirstFailure(checks, ToolVerdict(m, 200))
    BY DEF LegacyVerdict
  <2>2. DOMAIN checks \subseteq 1..10
    OBVIOUS
  <2>3. \A i \in DOMAIN checks : checks[i][2].kind \in K
    BY DEF Refuse, Noted, Succeed, VerdictKinds
  <2> HIDE DEF checks, K
  <2> QED
    BY <1>1, <2>1, <2>2, <2>3, FirstFailureIsOne
<1>3. NewVerdict(m).kind \in K
  <2> DEFINE checks ==
        <<<<~m.jsonrpc \/ m.id # "given" \/ m.method = "not_text" \/ ~m.params, Refuse(400)>>,
          <<m.meta = "missing" \/ ~m.client, Refuse(400)>>,
          <<m.versionHeader # m.meta \/ ~m.methodHeader, Refuse(400)>>,
          <<m.method = "tools/call" /\ m.nameHeader = "broken", Drop>>,
          <<m.method = "tools/call" /\ m.nameHeader # m.name, Refuse(400)>>,
          <<m.meta # "new", Refuse(400)>>,
          <<m.method = "server/discover", Succeed>>,
          <<m.method = "tools/list" /\ m.cursor, Refuse(400)>>,
          <<m.method = "tools/list", Succeed>>,
          <<m.method # "tools/call", Refuse(404)>>>>
  <2>1. NewVerdict(m) = FirstFailure(checks, ToolVerdict(m, 400))
    BY DEF NewVerdict
  <2>2. DOMAIN checks \subseteq 1..10
    OBVIOUS
  <2>3. \A i \in DOMAIN checks : checks[i][2].kind \in K
    BY DEF Refuse, Drop, Succeed, VerdictKinds
  <2> HIDE DEF checks, K
  <2> QED
    BY <1>1, <2>1, <2>2, <2>3, FirstFailureIsOne
<1>4. Verdict(m).kind \in K
  <2> DEFINE checks ==
        <<<<m.origin = "unlisted", Refuse(403)>>,
          <<m.type # "json", Refuse(415)>>,
          <<~m.object, Refuse(400)>>>>
             otherwise == IF m.method = "initialize" \/ m.versionHeader = "legacy"
                          THEN LegacyVerdict(m) ELSE NewVerdict(m)
  <2>1. Verdict(m) = FirstFailure(checks, otherwise)
    BY DEF Verdict
  <2>2. DOMAIN checks \subseteq 1..10
    OBVIOUS
  <2>3. \A i \in DOMAIN checks : checks[i][2].kind \in K
    BY DEF Refuse, VerdictKinds
  <2>4. otherwise.kind \in K
    BY <1>2, <1>3
  <2> HIDE DEF checks, K, otherwise
  <2> QED
    BY <2>1, <2>2, <2>3, <2>4, FirstFailureIsOne
<1> DEFINE checks ==
        <<<<m.path # "mcp", Refuse(404)>>,
          <<m.token = "broken", Drop>>,
          <<m.token = "wrong", Refuse(401)>>,
          <<m.body \in {"empty", "large"}, Refuse(413)>>,
          <<m.body = "garbled", Refuse(400)>>>>
<1>5. PostVerdict(m) = FirstFailure(checks, Verdict(m))
  BY DEF PostVerdict
<1>6. DOMAIN checks \subseteq 1..10
  OBVIOUS
<1>7. \A i \in DOMAIN checks : checks[i][2].kind \in K
  BY DEF Refuse, Drop, VerdictKinds
<1> HIDE DEF checks, K
<1> QED
  BY <1>4, <1>5, <1>6, <1>7, FirstFailureIsOne DEF K
=============================================================================
