------------------------------- MODULE Gateway -------------------------------
(***************************************************************************)
(* Requests to the service: a client posts a message (cli.py, or any MCP   *)
(* client), the thread that serves it decides what it is (Protocol) and    *)
(* runs the tool: plan and submit check the request against the live queue *)
(* and the live targets (controller.py, Planner).                          *)
(*                                                                         *)
(* An answer may be lost, come after the client has given up, or be        *)
(* replaced because it is too large; a tool may fail before the run is     *)
(* accepted or after; the service may stop.  What a client then knows of   *)
(* its run is the question here.  What becomes of an accepted run is       *)
(* RunController's and Service's; here it just ends, some time.            *)
(***************************************************************************)
EXTENDS Planner, Protocol

CONSTANTS
    Clients, Threads, None,
    Messages,       \* the messages each client may post
    ClusterQueues,  \* what may be found when a queue is inspected
    Answers,        \* what the endpoint and Prometheus may answer a preflight
    MaxActive,      \* maximum_active_runs
    MaxRuns,        \* bound on the runs accepted
    MaxSends,       \* bound on the messages of each client
    MaxFaults       \* bound on restarts

AnswerKinds == {"error", "result", "noted", "dropped", "tool_error", "too_large"}

ASSUME NoneAssumption == \* None is no thread, no request and no answer
    None \notin Threads \cup (Clients \X Nat) \cup [kind : AnswerKinds, run : Nat]
ASSUME QueuesAssumption == \A cq \in ClusterQueues : WellFormedQueue(cq)
ASSUME AnswersAssumption == \* the targets of an answer are lists
    \A a \in Answers :
        /\ a.server \in Seq({a.server[i] : i \in DOMAIN a.server})
        /\ a.gpu \in Seq({a.gpu[i] : i \in DOMAIN a.gpu})
ASSUME MessagesAssumption == \A c \in Clients : \A m \in Messages[c] : Message(m)
ASSUME BoundsAssumption ==
    MaxActive \in Nat /\ MaxRuns \in Nat /\ MaxSends \in [Clients -> Nat] /\ MaxFaults \in Nat

VARIABLES
    clients,    \* how many messages each client sent, and what became of the last
    threads,    \* the thread that serves a request: where it is, what it holds
    submitLock, \* holder of _submit_lock
    runs,       \* the runs accepted: the request each came of, and whether it is live
    faults

vars == <<clients, threads, submitLock, runs, faults>>

Places == {"free", "received", "called", "counting", "inspecting", "preflight",
           "checking", "planned", "saving", "starting", "retaining", "answering"}

\* An answer, and the run it names as accepted, or 0.
Answer(kind, run) == [kind |-> kind, run |-> run]
Free == [at |-> "free", by |-> None, message |-> None, call |-> None,
         cq |-> None, seen |-> None, run |-> 0, answer |-> None]

TypeOK ==
    /\ clients \in [Clients -> [sent : Nat, at : {"idle", "waiting", "gave_up", "told"},
                                told : {None} \cup [kind : AnswerKinds, run : 0..MaxRuns]]]
    /\ \A c \in Clients : clients[c].sent <= MaxSends[c]
    /\ DOMAIN threads = Threads
    /\ \A t \in Threads :
          /\ DOMAIN threads[t] = DOMAIN Free
          /\ threads[t].at \in Places
          /\ threads[t].by \in {None} \cup (Clients \X Nat)
          /\ threads[t].by = None <=> threads[t].at = "free"
          /\ threads[t].message # None => threads[t].at = "received"
          /\ threads[t].answer # None <=> threads[t].at = "answering"
    /\ submitLock \in Threads \cup {None}
    /\ runs \in Seq([by : Clients \X Nat, live : BOOLEAN])
    /\ Len(runs) <= MaxRuns
    /\ faults \in 0..MaxFaults

Init ==
    /\ clients = [c \in Clients |-> [sent |-> 0, at |-> "idle", told |-> None]]
    /\ threads = [t \in Threads |-> Free]
    /\ submitLock = None
    /\ runs = <<>>
    /\ faults = 0

-----------------------------------------------------------------------------
(* Clients                                                                 *)

\* A message is sent and a thread takes it (do_POST).
Send(c) ==
    /\ clients[c].at # "waiting"
    /\ clients[c].sent < MaxSends[c]
    /\ \E t \in Threads, m \in Messages[c] :
          /\ threads[t].at = "free"
          /\ threads' = [threads EXCEPT
                ![t] = [Free EXCEPT !.at = "received", !.message = m,
                                    !.by = <<c, clients[c].sent + 1>>]]
    /\ clients' = [clients EXCEPT ![c] = [sent |-> @.sent + 1, at |-> "waiting",
                                          told |-> None]]
    /\ UNCHANGED <<submitLock, runs, faults>>

\* urlopen's timeout, a lost connection or a lost answer.  The thread goes on.
GiveUp(c) ==
    /\ clients[c].at = "waiting"
    /\ clients' = [clients EXCEPT ![c].at = "gave_up"]
    /\ UNCHANGED <<threads, submitLock, runs, faults>>

-----------------------------------------------------------------------------
(* Threads                                                                 *)

MoveTo(t, place) == threads' = [threads EXCEPT ![t].at = place]

\* The answer is ready; a thread that leaves submit releases its lock.
Conclude(t, answer) ==
    /\ threads' = [threads EXCEPT ![t] = [Free EXCEPT !.at = "answering", !.by = threads[t].by,
                                                      !.answer = answer]]
    /\ submitLock' = IF submitLock = t THEN None ELSE submitLock

\* _call_tool: whatever a tool raises becomes an answer.
Raise(t) == Conclude(t, Answer("tool_error", 0))

Dispatch(t) ==
    LET m == threads[t].message
        verdict == PostVerdict(m)
    IN  /\ threads[t].at = "received"
        /\ \/ /\ verdict.kind = "call"
              /\ threads' = [threads EXCEPT
                    ![t].at = "called", ![t].message = None,
                    ![t].call = [tool |-> m.name, args |-> m.args]]
              /\ UNCHANGED submitLock
           \/ /\ verdict.kind # "call"
              /\ Conclude(t, Answer(verdict.kind, 0))
        /\ UNCHANGED <<clients, runs, faults>>

Call(t, tool) == threads[t].at = "called" /\ threads[t].call.tool = tool

\* _validated
RejectArguments(t) ==
    /\ threads[t].at = "called"
    /\ ~threads[t].call.args.valid
    /\ Raise(t)
    /\ UNCHANGED <<clients, runs, faults>>

BeginPlan(t) ==
    /\ Call(t, "plan")
    /\ threads[t].call.args.valid
    /\ MoveTo(t, "inspecting")
    /\ UNCHANGED <<clients, submitLock, runs, faults>>

BeginSubmit(t) ==
    /\ Call(t, "submit")
    /\ threads[t].call.args.valid
    /\ submitLock = None
    /\ submitLock' = t
    /\ MoveTo(t, "counting")
    /\ UNCHANGED <<clients, runs, faults>>

LiveRuns == {r \in DOMAIN runs : runs[r].live}

CountActive(t) ==
    /\ threads[t].at = "counting"
    /\ IF Cardinality(LiveRuns) >= MaxActive
       THEN Raise(t)
       ELSE MoveTo(t, "inspecting") /\ UNCHANGED submitLock
    /\ UNCHANGED <<clients, runs, faults>>

\* plan: a queue that is not configured is not looked at; kubectl may fail.
Inspect(t) ==
    /\ threads[t].at = "inspecting"
    /\ \/ Raise(t)
       \/ /\ threads[t].call.args.queue \in Queues
          /\ \E cq \in ClusterQueues :
                threads' = [threads EXCEPT ![t].at = "preflight", ![t].cq = cq]
          /\ UNCHANGED submitLock
    /\ UNCHANGED <<clients, runs, faults>>

\* preflight: skipped for a target or a profile that is not configured.
Preflight(t) ==
    LET args == threads[t].call.args
        known == args.target \in Targets /\ args.profile \in Profiles
    IN  /\ threads[t].at = "preflight"
        /\ \/ known /\ Raise(t)
           \/ /\ known
              /\ \E a \in Answers :
                    /\ PreflightPasses(args.model, a)
                    /\ threads' = [threads EXCEPT ![t].at = "checking", ![t].seen = a]
              /\ UNCHANGED submitLock
           \/ ~known /\ MoveTo(t, "checking") /\ UNCHANGED submitLock
        /\ UNCHANGED <<clients, runs, faults>>

\* plan_benchmark
Check(t) ==
    /\ threads[t].at = "checking"
    /\ IF PlanAccepts(threads[t].call.args, threads[t].cq)
       THEN MoveTo(t, "planned") /\ UNCHANGED submitLock
       ELSE Raise(t)
    /\ UNCHANGED <<clients, runs, faults>>

\* The plan is the answer.
AnswerPlan(t) ==
    /\ threads[t].at = "planned"
    /\ threads[t].call.tool = "plan"
    /\ Conclude(t, Answer("result", 0))
    /\ UNCHANGED <<clients, runs, faults>>

\* The target is asked for a few tokens, by up to ten minutes.
Warmup(t) ==
    /\ threads[t].at = "planned"
    /\ threads[t].call.tool = "submit"
    /\ \/ Raise(t)
       \/ /\ threads' = [threads EXCEPT ![t].at = "saving", ![t].cq = None,
                                        ![t].seen = None, ![t].call = None]
          /\ UNCHANGED submitLock
    /\ UNCHANGED <<clients, runs, faults>>

\* The run exists once its record is saved; the volume may fail.
SaveRun(t) ==
    /\ threads[t].at = "saving"
    /\ \/ Raise(t) /\ UNCHANGED runs
       \/ /\ Len(runs) < MaxRuns
          /\ runs' = Append(runs, [by |-> threads[t].by, live |-> TRUE])
          /\ MoveTo(t, "starting")
          /\ UNCHANGED submitLock
    /\ UNCHANGED <<clients, faults>>

\* Mutant: what failed is submitted again.
StartAttemptAgain(t) ==
    /\ threads[t].at = "starting"
    /\ \/ MoveTo(t, "saving") /\ UNCHANGED submitLock
       \/ /\ threads' = [threads EXCEPT ![t].at = "retaining", ![t].run = Len(runs)]
          /\ submitLock' = None
    /\ UNCHANGED <<clients, runs, faults>>

\* _start_attempt: a create that fails is recorded in the run, but the second
\* save or the new directory may raise: the run is there, the answer an error.
StartAttempt(t) ==
    /\ threads[t].at = "starting"
    /\ \/ Raise(t)
       \/ /\ threads' = [threads EXCEPT ![t].at = "retaining", ![t].run = Len(runs)]
          /\ submitLock' = None
    /\ UNCHANGED <<clients, runs, faults>>

\* enforce_retention, without the lock.
Retain(t) ==
    /\ threads[t].at = "retaining"
    /\ \/ Raise(t)
       \/ Conclude(t, Answer("result", threads[t].run))
    /\ UNCHANGED <<clients, runs, faults>>

\* list, get, list_artifacts and get_report only read, as far as this goes.
Read(t) ==
    /\ \E tool \in {"list", "get", "artifacts", "report"} : Call(t, tool)
    /\ threads[t].call.args.valid
    /\ \/ Raise(t)
       \/ /\ threads[t].call.tool = "list" \/ threads[t].call.args.run \in DOMAIN runs
          /\ Conclude(t, Answer("result", 0))
    /\ UNCHANGED <<clients, runs, faults>>

\* cancel ends the run, or only its attempt where a cleanup was pending; it may
\* raise before or after.
CancelRun(t) ==
    LET r == threads[t].call.args.run
    IN  /\ Call(t, "cancel")
        /\ threads[t].call.args.valid
        /\ \/ Raise(t) /\ UNCHANGED runs
           \/ /\ r \in LiveRuns
              /\ runs' = [runs EXCEPT ![r].live = FALSE]
              /\ Raise(t) \/ Conclude(t, Answer("result", 0))
           \/ /\ r \in DOMAIN runs
              /\ Conclude(t, Answer("result", 0))
              /\ UNCHANGED runs
        /\ UNCHANGED <<clients, faults>>

\* What the client receives: _bounded_response replaces a result that is too
\* large, a tool's error included.
Bounded(answer) ==
    {answer} \cup (IF answer.kind \in {"result", "tool_error"}
                  THEN {Answer("too_large", 0)} ELSE {})

\* Mutant: the thread's request is not forgotten with its end.
ReplyKeepsRequest(t) ==
    /\ threads[t].at = "answering"
    /\ threads' = [threads EXCEPT ![t].at = "free", ![t].answer = None]
    /\ UNCHANGED <<clients, submitLock, runs, faults>>

\* The thread answers and is done; a client that gave up does not hear of it,
\* and a dropped connection is no answer.
Reply(t) ==
    LET by == threads[t].by
        waits == clients[by[1]].at = "waiting" /\ clients[by[1]].sent = by[2]
    IN  /\ threads[t].at = "answering"
        /\ threads' = [threads EXCEPT ![t] = Free]
        /\ \/ ~waits /\ UNCHANGED clients
           \/ /\ waits /\ threads[t].answer.kind = "dropped"
              /\ clients' = [clients EXCEPT ![by[1]].at = "gave_up"]
           \/ /\ waits /\ threads[t].answer.kind # "dropped"
              /\ \E answer \in Bounded(threads[t].answer) :
                    clients' = [clients EXCEPT ![by[1]].at = "told",
                                               ![by[1]].told = answer]
        /\ UNCHANGED <<submitLock, runs, faults>>

-----------------------------------------------------------------------------
(* The rest of the system                                                  *)

\* The reconcile loop ends a run.
RunEnds(r) ==
    /\ r \in LiveRuns
    /\ runs' = [runs EXCEPT ![r].live = FALSE]
    /\ UNCHANGED <<clients, threads, submitLock, faults>>

\* The service stops and starts: connections break, threads and locks are gone.
Restart ==
    /\ faults < MaxFaults
    /\ faults' = faults + 1
    /\ threads' = [t \in Threads |-> Free]
    /\ submitLock' = None
    /\ clients' = [c \in Clients |-> [clients[c] EXCEPT
          !.at = IF @ = "waiting" THEN "gave_up" ELSE @]]
    /\ UNCHANGED runs

Next ==
    \/ \E c \in Clients : Send(c) \/ GiveUp(c)
    \/ \E t \in Threads :
          \/ Dispatch(t) \/ RejectArguments(t) \/ BeginPlan(t) \/ BeginSubmit(t)
          \/ CountActive(t) \/ Inspect(t) \/ Preflight(t) \/ Check(t)
          \/ AnswerPlan(t) \/ Warmup(t) \/ SaveRun(t) \/ StartAttempt(t) \/ Retain(t)
          \/ Read(t) \/ CancelRun(t) \/ Reply(t)
    \/ \E r \in DOMAIN runs : RunEnds(r)
    \/ Restart

Spec == Init /\ [][Next]_vars

-----------------------------------------------------------------------------
(* Properties                                                              *)

\* A tool runs exactly for the messages the contract of the documentation asks
\* for, whichever profile they come under, and it is the tool they name with the
\* arguments they carry: no check is missing in one of the two profiles, and no
\* check of one keeps a good request of the other out (server.py do_POST, mcp.py
\* handle and _handle_legacy).
CallsMatchContract ==
    [][\A t \in Threads :
          LET m == threads[t].message
          IN  threads[t].at = "received" /\ threads'[t].at \notin {"received", "free"} =>
                /\ threads'[t].at = "called" <=> Contract(m)
                /\ threads'[t].at = "called" =>
                      threads'[t].call = [tool |-> m.name, args |-> m.args]]_vars

\* What a client may conclude about its submission, with answers lost, late, too
\* large or errors, and the service restarted: an accepted one names the run on
\* disk that came of this very request, an error of the protocol means that there is none,
\* and no request ever makes two.  (A tool's error says nothing: the run may have
\* been accepted before the tool failed; controller.py submit, mcp.py _call_tool.)
SubmitAnswersFitDisk ==
    /\ \A r, s \in DOMAIN runs : runs[r].by = runs[s].by => r = s
    /\ \A t \in Threads : threads[t].at \in {"received", "called", "planned", "saving"} =>
          \A r \in DOMAIN runs : runs[r].by # threads[t].by
    /\ \A c \in Clients : clients[c].at = "told" =>
          LET mine == {r \in DOMAIN runs : runs[r].by = <<c, clients[c].sent>>}
              told == clients[c].told
          IN  IF told.run # 0 THEN told.kind = "result" /\ mine = {told.run}
              ELSE told.kind \notin {"tool_error", "too_large"} => mine = {}

\* Whatever was found in Kueue and in Prometheus, a request is accepted only if
\* Kueue could admit its Job, each group on the quota of a single flavor, and only
\* if every expected target was there, healthy and scraped once, with the model served
\* (planner.py plan_benchmark, monitoring.py preflight): neither the loop over
\* flavors and quotas nor the checks of the lists lets another through.
PlanIsSound ==
    \A t \in Threads : threads[t].at = "planned" =>
        LET args == threads[t].call.args
            seen == threads[t].seen
        IN  /\ Admissible(threads[t].cq, args.queue)
            /\ args.queue \in AllowedQueues[args.target]
            /\ args.model \in ServedModels[args.target] \cap seen.models
            /\ AllThere(seen.server, ExpectedServer) /\ AllThere(seen.gpu, ExpectedGpu)

\* And some requests are never kept out by it: where the operator configured
\* target, model, queue and profile, and one flavor of one group has enough of
\* everything, plan_benchmark accepts, whatever else the queue lists and in
\* whatever order.  A queue whose groups share the resources out is refused, which
\* Kueue would admit (see Admissible).
PlanIsComplete ==
    [][\A t \in Threads :
          LET args == threads[t].call.args
          IN  threads[t].at = "checking" /\ threads'[t].at = "answering" =>
                \/ args.target \notin Targets \/ args.profile \notin Profiles
                \/ args.model \notin ServedModels[args.target]
                \/ args.queue \notin AllowedQueues[args.target]
                \/ ~OneFlavorSuffices(threads[t].cq, args.queue)]_vars
=============================================================================
