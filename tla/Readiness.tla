------------------------------ MODULE Readiness ------------------------------
(***************************************************************************)
(* Whether the service is sent traffic: the two background loops of        *)
(* serve() (server.py), which check what the service depends on one after  *)
(* the other and publish what they found, /readyz, which answers with what *)
(* was published last, and the kubelet, which asks it and takes the Pod in *)
(* or out of service (deploy/agentx-service.yaml).                         *)
(*                                                                         *)
(* What the service depends on goes bad and recovers at any time, between  *)
(* the reads of one check too; the volume may hang, which no timeout of    *)
(* the code bounds; the container may be restarted at any time.            *)
(*                                                                         *)
(* The livenessProbe asks /healthz, which a process that serves answers    *)
(* always, and which nothing answers while reconstruct runs.  How long it  *)
(* runs and how long the kubelet waits is not modelled: a start may be cut *)
(* whenever it has not ended, and as often as there are starts.            *)
(***************************************************************************)
EXTENDS Integers, Sequences, FiniteSets, Functions

CONSTANTS
    Queues,             \* the configured LocalQueues
    Runs,               \* the runs that are not over, in the order of a pass
    FailureThreshold    \* of the readiness probe

ASSUME ReadinessAssumption ==
    /\ FailureThreshold \in Nat \ {0}
    /\ Runs \in Seq(Range(Runs))
    /\ (Queues \cup {"storage", "kubernetes", "prometheus"}) \cap Range(Runs) = {}

\* What controller.readiness looks at, and what a pass over the runs depends on
\* beside them: a run that is in order is one whose reconcile does not raise.
Checked == {"storage", "kubernetes", "prometheus"} \cup Queues
Dependencies == Checked \cup Range(Runs)
Needed == [check |-> Checked, pass |-> Range(Runs)]

VARIABLES
    good,       \* the dependencies that are in order
    hung,       \* the volume does not answer
    serving,    \* reconstruct has returned, the loops run and /readyz answers
    check,      \* the readiness loop: where it is, the queues it still has to
                \* look at, and whether one was inactive
    pass,       \* the place of the run that the pass under way visits next,
                \* 0 if there is none; the first pass is that of reconstruct
    published,  \* readiness["healthy"]
    reconciled, \* reconciliation["healthy"]
    routed,     \* the Pod is in service
    misses,     \* failed probes in a row
    since,      \* history: what each loop depends on and was in order at some
                \* time since its current check or pass began
    verified    \* history: whether its last one that ended found nothing wrong,
                \* and that was all

world == <<good, hung>>
loops == <<serving, check, pass, published, reconciled>>
probe == <<routed, misses>>
vars == <<good, hung, serving, check, pass, published, reconciled, routed, misses,
          since, verified>>

Loops == {"check", "pass"}
Idle == [at |-> "waiting", queues |-> {}, inactive |-> FALSE]

TypeOK ==
    /\ good \subseteq Dependencies
    /\ hung \in BOOLEAN /\ serving \in BOOLEAN
    /\ pass \in 0..(Len(Runs) + 1)
    /\ check \in [at : {"waiting", "storage", "kubernetes", "queues", "prometheus"},
                  queues : SUBSET Queues, inactive : BOOLEAN]
    /\ published \in BOOLEAN /\ reconciled \in BOOLEAN /\ routed \in BOOLEAN
    /\ misses \in 0..FailureThreshold
    /\ DOMAIN since = Loops /\ \A l \in Loops : since[l] \subseteq Needed[l]
    /\ verified \in [Loops -> BOOLEAN]

Init ==
    /\ good \in SUBSET Dependencies
    /\ hung = FALSE
    /\ serving = FALSE
    /\ check = Idle
    /\ pass = 0
    /\ published = FALSE
    /\ reconciled = TRUE
    /\ routed = FALSE
    /\ misses = 0
    /\ since = [l \in Loops |-> {}]
    /\ verified = [l \in Loops |-> FALSE]

-----------------------------------------------------------------------------
(* The world                                                               *)

Busy(l) == IF l = "check" THEN check.at # "waiting" ELSE pass # 0

Break(d) ==
    /\ d \in good
    /\ good' = good \ {d}
    /\ UNCHANGED <<hung, loops, probe, since, verified>>

Recover(d) ==
    /\ d \in Dependencies \ good
    /\ good' = good \cup {d}
    /\ since' = [l \in Loops |-> IF Busy(l) THEN since[l] \cup ({d} \cap Needed[l])
                               ELSE since[l]]
    /\ UNCHANGED <<hung, loops, probe, verified>>

Hang ==
    /\ hung' = ~hung
    /\ UNCHANGED <<good, loops, probe, since, verified>>

-----------------------------------------------------------------------------
(* The process                                                             *)

Begin(l) == since' = [since EXCEPT ![l] = good \cap Needed[l]] /\ UNCHANGED verified
End(l, healthy) ==
    /\ verified' = [verified EXCEPT ![l] = healthy /\ Needed[l] \subseteq since[l]]
    /\ since' = [since EXCEPT ![l] = {}]

\* A process starts in a container that was restarted; its Pod is out of service.
StartOver ==
    /\ serving' = FALSE
    /\ check' = Idle
    /\ pass' = 0
    /\ published' = FALSE
    /\ reconciled' = TRUE
    /\ routed' = FALSE
    /\ misses' = 0
    /\ since' = [l \in Loops |-> {}]
    /\ verified' = [l \in Loops |-> FALSE]
    /\ UNCHANGED world

\* The process ends while it serves.
Restart == serving /\ StartOver

\* Or before: nothing listens yet, and the livenessProbe has failed often enough.
CutStart == ~serving /\ StartOver

-----------------------------------------------------------------------------
(* A pass over the runs: reconstruct, before the loops are started and     *)
(* requests are served, then those of reconcile_loop.  The runs are        *)
(* visited one after the other; the first whose reconcile raises ends the  *)
(* pass, and in reconstruct the process.                                   *)

\* The volume is read for the list, and at every visit.
BeginPass ==
    /\ pass = 0 /\ ~hung
    /\ pass' = 1
    /\ Begin("pass")
    /\ UNCHANGED <<world, serving, check, published, reconciled, probe>>

Visit ==
    /\ pass \in DOMAIN Runs /\ ~hung
    /\ Runs[pass] \in good
    /\ pass' = pass + 1
    /\ UNCHANGED <<world, serving, check, published, reconciled, probe, since, verified>>

VisitRaises ==
    /\ pass \in DOMAIN Runs /\ ~hung
    /\ Runs[pass] \notin good
    /\ \/ ~serving /\ StartOver
       \/ /\ serving
          /\ pass' = 0
          /\ reconciled' = FALSE
          /\ End("pass", FALSE)
          /\ UNCHANGED <<world, serving, check, published, probe>>

\* Mutant: the flag is only ever taken back.
EndPassForGood ==
    /\ pass = Len(Runs) + 1
    /\ pass' = 0
    /\ serving' = TRUE
    /\ End("pass", TRUE)
    /\ UNCHANGED <<world, check, published, reconciled, probe>>

EndPass ==
    /\ pass = Len(Runs) + 1
    /\ pass' = 0
    /\ serving' = TRUE
    /\ reconciled' = TRUE
    /\ End("pass", TRUE)
    /\ UNCHANGED <<world, check, published, probe>>

-----------------------------------------------------------------------------
(* readiness_loop and controller.readiness                                 *)

\* Mutant: what raises ends the turn and leaves the last answer.
PublishSuccess(healthy) ==
    /\ published' = (published \/ healthy)
    /\ check' = Idle
    /\ End("check", healthy)

\* readiness.update
Publish(healthy) ==
    /\ published' = healthy
    /\ check' = Idle
    /\ End("check", healthy)

Continue(next) ==
    /\ check' = next
    /\ UNCHANGED <<published, since, verified>>

BeginCheck ==
    /\ serving /\ check.at = "waiting"
    /\ check' = [at |-> "storage", queues |-> Queues, inactive |-> FALSE]
    /\ Begin("check")
    /\ UNCHANGED <<world, serving, pass, published, reconciled, probe>>

\* check_writable
CheckStorage ==
    /\ check.at = "storage" /\ ~hung
    /\ IF "storage" \in good
       THEN Continue([check EXCEPT !.at = "kubernetes"])
       ELSE Publish(FALSE)
    /\ UNCHANGED <<world, serving, pass, reconciled, probe>>

\* backend.ready
CheckKubernetes ==
    /\ check.at = "kubernetes"
    /\ IF "kubernetes" \in good
       THEN Continue([check EXCEPT !.at = "queues"])
       ELSE Publish(FALSE)
    /\ UNCHANGED <<world, serving, pass, reconciled, probe>>

\* inspect_queue: a queue that is not in order cannot be read, which raises, or
\* is found inactive, which counts once all queues were read.
CheckQueue(q) ==
    /\ check.at = "queues" /\ q \in check.queues
    /\ \/ q \in good /\ Continue([check EXCEPT !.queues = @ \ {q}])
       \/ q \notin good /\ Publish(FALSE)
       \/ /\ q \notin good
          /\ Continue([check EXCEPT !.queues = @ \ {q}, !.inactive = TRUE])
    /\ UNCHANGED <<world, serving, pass, reconciled, probe>>

\* Mutant: any(queues.values()), or none is configured.
AllActiveAny ==
    /\ check.at = "queues" /\ check.queues = {}
    /\ Continue([check EXCEPT !.at = "prometheus"])
    /\ UNCHANGED <<world, serving, pass, reconciled, probe>>

\* all(queues.values())
AllActive ==
    /\ check.at = "queues" /\ check.queues = {}
    /\ IF check.inactive
       THEN Publish(FALSE)
       ELSE Continue([check EXCEPT !.at = "prometheus"])
    /\ UNCHANGED <<world, serving, pass, reconciled, probe>>

\* monitoring.ready, of the first monitoring profile.
CheckPrometheus ==
    /\ check.at = "prometheus"
    /\ Publish("prometheus" \in good)
    /\ UNCHANGED <<world, serving, pass, reconciled, probe>>

-----------------------------------------------------------------------------
(* /readyz and the kubelet                                                 *)

Ready == serving /\ published /\ reconciled

\* Mutant: failures are counted over the life of the Pod.
ProbeCountsAll ==
    /\ routed' = IF Ready THEN TRUE ELSE routed /\ misses + 1 < FailureThreshold
    /\ misses' = IF Ready THEN misses ELSE misses + 1
    /\ UNCHANGED <<world, loops, since, verified>>

Probe ==
    /\ routed' = IF Ready THEN TRUE ELSE routed /\ misses + 1 < FailureThreshold
    /\ misses' = IF Ready THEN 0
                 ELSE IF misses < FailureThreshold THEN misses + 1 ELSE misses
    /\ UNCHANGED <<world, loops, since, verified>>

-----------------------------------------------------------------------------
World == Hang \/ \E d \in Dependencies : Break(d) \/ Recover(d)
CheckStep ==
    BeginCheck \/ CheckStorage \/ CheckKubernetes \/ (\E q \in Queues : CheckQueue(q)) \/
    AllActive \/ CheckPrometheus
PassStep == BeginPass \/ Visit \/ VisitRaises \/ EndPass

Next == World \/ Restart \/ CutStart \/ CheckStep \/ PassStep \/ Probe

Spec == Init /\ [][Next]_vars

\* The threads run, every call but those to the volume has a timeout, and the
\* readiness probe asks.  That a start is ever left alone is not assumed.
FairSpec ==
    /\ Spec
    /\ WF_vars(CheckStep) /\ WF_vars(PassStep) /\ WF_vars(Probe)

-----------------------------------------------------------------------------
(* Properties                                                              *)

\* The service says that it is ready only if the last check and the last pass over
\* the runs that ended found nothing wrong, and everything it depends on was in
\* order at some time of that check or pass: in whatever order things break and
\* recover between the reads and the visits, nothing that was bad all through is
\* missed, and nothing is ready before it was looked at once (server.py do_GET,
\* controller.py readiness).
ReadyWasVerified ==
    Ready => verified["check"] /\ verified["pass"]

\* What stays bad is noticed and takes the service out of traffic for good, if
\* the volume does not hang for ever, however often the container is restarted.
BadIsTakenOut ==
    (\E d \in Dependencies : <>[](d \notin good)) /\ <>[]~hung => <>[]~routed

\* When everything stays in order the service comes into traffic and stays,
\* provided that from some time on the container is left alone.  The deployment
\* does not provide for it: see CutStart.
GoodIsTakenIn ==
    <>[](good = Dependencies /\ ~hung) /\ <>[][~Restart /\ ~CutStart]_vars => <>[]routed
=============================================================================
