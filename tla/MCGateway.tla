------------------------------ MODULE MCGateway ------------------------------
EXTENDS Gateway, TLC

CONSTANTS anyone, cli
Symmetry == Permutations(Threads)

MCTargets == {"kimi"}
MCQueues == {"cpu", "spare"}
MCProfiles == {"prometheus"}
MCServedModels == [kimi |-> {"k3", "k2"}]
MCAllowedQueues == [kimi |-> {"cpu"}]
One(suffix) == [number |-> 1, suffix |-> suffix]
MCRequests ==
    [q \in MCQueues |->
        [r \in Required |-> IF r = "cpu" THEN [number |-> 2, suffix |-> "unit"] ELSE One("Mi")]]

-----------------------------------------------------------------------------
(* Messages: every submission below, a call of every other tool, and every  *)
(* message that differs from a good one of either profile in one field.     *)
Good == [valid |-> TRUE, target |-> "kimi", model |-> "k3", queue |-> "cpu",
         profile |-> "prometheus", run |-> 0]
Submissions ==
    {Good, [Good EXCEPT !.valid = FALSE], [Good EXCEPT !.target = "other"],
     [Good EXCEPT !.model = "k2"], [Good EXCEPT !.model = "other"],
     [Good EXCEPT !.queue = "spare"], [Good EXCEPT !.queue = "other"],
     [Good EXCEPT !.profile = "other"]}
References == {[Good EXCEPT !.run = r] : r \in 0..MaxRuns}

Bases == {[NewCall("plan", Good) EXCEPT !.method = m] :
             m \in {"tools/call", "tools/list", "server/discover"}} \cup
         {[LegacyCall("plan", Good) EXCEPT !.method = m] :
             m \in {"tools/call", "tools/list", "initialize"}}
Changed(m) == UNION {{[m EXCEPT ![f] = v] : v \in Fields[f]} : f \in DOMAIN Fields}

MCMaxSends == (anyone :> 1) @@ (cli :> 2)

Every ==
    {NewCall(tool, a) : tool \in {"plan", "submit"}, a \in Submissions} \cup
    {NewCall(tool, a) : tool \in {"get", "cancel"}, a \in References} \cup
    {NewCall(tool, Good) : tool \in {"list", "artifacts", "report"}} \cup
    UNION {Changed(m) : m \in Bases}

MCMessages == (anyone :> Every) @@ (cli :> {CommandLineCall(Good)})

-----------------------------------------------------------------------------
(* Queues: two flavors in one group, each with enough of all or with too     *)
(* little of one resource; a flavor without a quota for one of them; a group *)
(* for each resource; one that covers too little; an inactive one.           *)
Enough == [r \in Required |-> IF r = "cpu" THEN [number |-> 2, suffix |-> "unit"] ELSE One("Mi")]
Lacking(r) ==
    [Enough EXCEPT ![r] = IF r = "cpu" THEN [number |-> 1500, suffix |-> "m"] ELSE One("M")]
Firsts == {Enough} \cup {Lacking(r) : r \in Required}
Seconds == {Enough, Lacking("cpu")}
Flavor(name, quota) == [name |-> name, quota |-> quota]
Without(quota, r) == [s \in DOMAIN quota \ {r} |-> quota[s]]
Group(flavors) == [covered |-> Required, flavors |-> flavors]
Layouts ==
    {<<Group(<<Flavor("first", p), Flavor("second", q)>>)>> : p \in Firsts, q \in Seconds} \cup
    {<<Group(<<Flavor("first", Without(Enough, r))>>)>> : r \in Required} \cup
    {<<[covered |-> {"cpu"}, flavors |-> <<Flavor("first", Enough)>>]>>} \cup
    {<<[covered |-> {"cpu"}, flavors |-> <<Flavor("first", [r \in {"cpu"} |-> Enough[r]])>>],
       [covered |-> Required \ {"cpu"}, flavors |-> <<Flavor("second", Without(Enough, "cpu"))>>]>>}
MCClusterQueues ==
    {[active |-> TRUE, groups |-> l] : l \in Layouts} \cup
    {[active |-> FALSE, groups |-> <<Group(<<Flavor("first", Enough)>>)>>]}

-----------------------------------------------------------------------------
(* Answers: both lists as expected, or one of them not.                     *)
Up(id) == [id |-> id, up |-> TRUE]
Whole == <<Up("a"), Up("b")>>
Lists == {Whole, <<Up("a"), Up("a")>>, <<Up("a")>>, <<Up("a"), Up("b"), Up("b")>>,
          <<Up("a"), Up("none")>>, <<Up("a"), [id |-> "b", up |-> FALSE]>>}
MCAnswers ==
    {[models |-> ms, server |-> s, gpu |-> g] :
        ms \in {{"k3", "k2"}, {"k2"}, {}}, s \in Lists, g \in {Whole}} \cup
    {[models |-> {"k3"}, server |-> Whole, gpu |-> g] : g \in Lists}
=============================================================================
