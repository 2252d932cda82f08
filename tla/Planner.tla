------------------------------- MODULE Planner -------------------------------
(***************************************************************************)
(* What a request is checked against before a run is accepted: the         *)
(* ClusterQueue as inspect_queue reads it (backend.py), the targets as     *)
(* Prometheus lists them (monitoring.py), and the operator's configuration *)
(* (planner.py).  Pure operators, and beside the planner's own computation *)
(* what its acceptance is to mean: a Job that Kueue can admit, and targets *)
(* that are all there.  Gateway uses them.                                 *)
(***************************************************************************)
EXTENDS Integers, Sequences, FiniteSets

CONSTANTS
    Targets, Queues, Profiles,  \* names in the operator's configuration
    ServedModels,    \* the models each target may be asked for
    AllowedQueues,   \* the queues each target may use
    Requests,        \* per queue: cpu, memory and ephemeral-storage of a Job
    ExpectedServer, ExpectedGpu \* number of targets of each kind

Required == {"cpu", "memory", "ephemeral-storage"}

-----------------------------------------------------------------------------
(* Quantities.  A quantity is a number and a suffix; no suffix ends with   *)
(* another, so the order in which _quantity tries them is of no account.   *)
(* Values are in thousandths; the larger suffixes are more of the same.    *)

Multiplier ==
    [m |-> 1, unit |-> 1000, k |-> 1000 * 1000, Ki |-> 1024 * 1000,
     M |-> 1000 * 1000 * 1000, Mi |-> 1024 * 1024 * 1000]

Quantity(q) == q.number * Multiplier[q.suffix]

-----------------------------------------------------------------------------
(* The ClusterQueue: [active, groups], where a group covers resources and  *)
(* lists flavors, each with a quota for some of them.                      *)

\* The places, group and flavor, that list a quota of the resource.  The same
\* place gives an entry of flavors_by_resource and one of
\* nominal_quota_by_resource, at the same index.
Listed(cq, resource) ==
    UNION {{<<g, f>> : f \in {f \in DOMAIN cq.groups[g].flavors :
                                resource \in DOMAIN cq.groups[g].flavors[f].quota}} :
           g \in {g \in DOMAIN cq.groups : resource \in cq.groups[g].covered}}

FlavorAt(cq, place) == cq.groups[place[1]].flavors[place[2]].name
QuotaAt(cq, place, resource) == cq.groups[place[1]].flavors[place[2]].quota[resource]

Covered(cq) == UNION {cq.groups[g].covered : g \in DOMAIN cq.groups}

\* flavors.index(flavor): the first place that lists it.
Index(cq, resource, flavor) ==
    CHOOSE p \in Listed(cq, resource) :
        /\ FlavorAt(cq, p) = flavor
        /\ \A o \in Listed(cq, resource) :
              FlavorAt(cq, o) = flavor =>
                  p[1] < o[1] \/ (p[1] = o[1] /\ p[2] <= o[2])

CommonFlavors(cq) ==
    {flavor \in UNION {{FlavorAt(cq, p) : p \in Listed(cq, r)} : r \in Required} :
        \A r \in Required : \E p \in Listed(cq, r) : FlavorAt(cq, p) = flavor}

\* Mutant: a quota that is just enough is not.
SufficesStrictly(cq, queue, resource, flavor) ==
    Quantity(QuotaAt(cq, Index(cq, resource, flavor), resource)) >
        Quantity(Requests[queue][resource])

Suffices(cq, queue, resource, flavor) ==
    Quantity(QuotaAt(cq, Index(cq, resource, flavor), resource)) >=
        Quantity(Requests[queue][resource])

\* Mutant: a flavor for each resource is enough.
SomeFlavorEach(cq, queue) ==
    {flavor \in CommonFlavors(cq) :
        \A r \in Required : \E other \in CommonFlavors(cq) : Suffices(cq, queue, r, other)}

EligibleFlavors(cq, queue) ==
    {flavor \in CommonFlavors(cq) :
        \A r \in Required : Suffices(cq, queue, r, flavor)}

\* The flavor has, in nominal quota, what the queue's Job requests of the resources.
Offers(flavor, queue, resources) ==
    \A r \in resources :
        /\ r \in DOMAIN flavor.quota
        /\ Quantity(flavor.quota[r]) >= Quantity(Requests[queue][r])

\* What Kueue needs to admit the Job's one Pod set on nominal quota: in every
\* group that covers something of it, one flavor with enough of all of that.
\* What a cohort would lend is left out.
Admissible(cq, queue) ==
    /\ cq.active
    /\ Required \subseteq Covered(cq)
    /\ \A g \in DOMAIN cq.groups :
          LET asked == Required \cap cq.groups[g].covered
          IN  asked # {} => \E f \in DOMAIN cq.groups[g].flavors :
                              Offers(cq.groups[g].flavors[f], queue, asked)

\* A part of what is admissible: one flavor of one group has enough of everything.
OneFlavorSuffices(cq, queue) ==
    /\ cq.active
    /\ \E g \in DOMAIN cq.groups :
          /\ Required \subseteq cq.groups[g].covered
          /\ \E f \in DOMAIN cq.groups[g].flavors :
                Offers(cq.groups[g].flavors[f], queue, Required)

\* Groups and flavors are lists, and Kueue accepts a ClusterQueue only if no
\* resource and no flavor is in two groups, or a flavor twice in one.
WellFormedQueue(cq) ==
    /\ DOMAIN cq.groups \subseteq Nat
    /\ \A g \in DOMAIN cq.groups : DOMAIN cq.groups[g].flavors \subseteq Nat
    /\ \A g, h \in DOMAIN cq.groups :
          cq.groups[g].covered \cap cq.groups[h].covered # {} => g = h
    /\ \A g, h \in DOMAIN cq.groups :
          \A f \in DOMAIN cq.groups[g].flavors, e \in DOMAIN cq.groups[h].flavors :
              cq.groups[g].flavors[f].name = cq.groups[h].flavors[e].name =>
                  g = h /\ f = e

-----------------------------------------------------------------------------
(* The targets: a list of [id, up], where a target without a pod or an     *)
(* endpoint has the id "none".                                             *)

Duplicated(results) ==
    \E i, j \in DOMAIN results : i # j /\ results[i].id = results[j].id

\* _validate_targets
ValidTargets(results, expected) ==
    /\ Len(results) = expected
    /\ \A i \in DOMAIN results : results[i].up /\ results[i].id # "none"
    /\ ~Duplicated(results)

\* What it is to mean: as many distinct targets are healthy as expected, and
\* nothing else is listed.
AllThere(results, expected) ==
    LET healthy == {results[i].id : i \in {i \in DOMAIN results : results[i].up}}
    IN  Cardinality(healthy \ {"none"}) = expected /\ Len(results) = expected

\* preflight, with what the endpoint and Prometheus answer.
PreflightPasses(model, answer) ==
    /\ model \in answer.models
    /\ ValidTargets(answer.server, ExpectedServer)
    /\ ValidTargets(answer.gpu, ExpectedGpu)

-----------------------------------------------------------------------------
(* plan_benchmark, once the queue was found and read.                      *)
PlanAccepts(request, cq) ==
    /\ request.target \in Targets
    /\ request.model \in ServedModels[request.target]
    /\ request.queue \in AllowedQueues[request.target]
    /\ request.profile \in Profiles
    /\ cq.active
    /\ Required \subseteq Covered(cq)
    /\ EligibleFlavors(cq, request.queue) # {}
=============================================================================
