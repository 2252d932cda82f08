--------------------------- MODULE GatewayProofs ---------------------------
(***************************************************************************)
(* What the planner accepts, for every queue and every answer, and what a  *)
(* client is told of its submission, for any number of clients, threads    *)
(* and restarts.                                                           *)
(***************************************************************************)
EXTENDS Gateway, ProtocolProofs, FiniteSetTheorems, TLAPS

-----------------------------------------------------------------------------
(* The planner                                                             *)

\* In a well-formed queue a flavor is in one place only.
LEMMA FlavorHasOnePlace ==
    ASSUME NEW cq, WellFormedQueue(cq), NEW r, NEW s,
           NEW p \in Listed(cq, r), NEW o \in Listed(cq, s),
           FlavorAt(cq, p) = FlavorAt(cq, o)
    PROVE  p = o
<1>0. PICK g \in DOMAIN cq.groups : \E f \in DOMAIN cq.groups[g].flavors : p = <<g, f>>
  BY DEF Listed
<1>1. PICK f \in DOMAIN cq.groups[g].flavors : p = <<g, f>>
  BY <1>0
<1>a. PICK h \in DOMAIN cq.groups : \E e \in DOMAIN cq.groups[h].flavors : o = <<h, e>>
  BY DEF Listed
<1>2. PICK e \in DOMAIN cq.groups[h].flavors : o = <<h, e>>
  BY <1>a
<1>3. cq.groups[g].flavors[f].name = cq.groups[h].flavors[e].name
  BY <1>1, <1>2 DEF FlavorAt
<1>4. g = h /\ f = e
  BY <1>3 DEF WellFormedQueue
<1> QED
  BY <1>1, <1>2, <1>4

\* flavors.index finds that place.
LEMMA IndexIsThePlace ==
    ASSUME NEW cq, WellFormedQueue(cq), NEW r, NEW p \in Listed(cq, r)
    PROVE  Index(cq, r, FlavorAt(cq, p)) = p
<1> DEFINE P(q) == /\ FlavorAt(cq, q) = FlavorAt(cq, p)
                   /\ \A o \in Listed(cq, r) :
                         FlavorAt(cq, o) = FlavorAt(cq, p) =>
                             q[1] < o[1] \/ (q[1] = o[1] /\ q[2] <= o[2])
<1>1. p[1] \in Nat /\ p[2] \in Nat
  BY DEF Listed, WellFormedQueue
<1>2. \A o \in Listed(cq, r) : FlavorAt(cq, o) = FlavorAt(cq, p) => o = p
  BY FlavorHasOnePlace
<1>3. P(p)
  BY <1>1, <1>2
<1>4. \A q \in Listed(cq, r) : P(q) => q = p
  BY <1>2
<1>5. Index(cq, r, FlavorAt(cq, p)) = CHOOSE q \in Listed(cq, r) : P(q)
  BY DEF Index
<1> HIDE DEF P
<1> QED
  BY <1>3, <1>4, <1>5

\* A flavor that the planner finds eligible has, in one place, quota for the whole
\* request, and no other group covers any of it: Kueue can admit the Job on
\* it (plan_benchmark).
THEOREM EligibleIsAdmissible ==
    ASSUME NEW cq, NEW queue, WellFormedQueue(cq), cq.active,
           EligibleFlavors(cq, queue) # {}
    PROVE  Admissible(cq, queue)
<1>1. PICK flavor \in CommonFlavors(cq) : \A r \in Required : Suffices(cq, queue, r, flavor)
  BY DEF EligibleFlavors
<1>2. \A r \in Required : \E p \in Listed(cq, r) : FlavorAt(cq, p) = flavor
  BY <1>1 DEF CommonFlavors
<1>3. PICK place \in Listed(cq, "cpu") : FlavorAt(cq, place) = flavor
  BY <1>2 DEF Required
<1>4. \A r \in Required : place \in Listed(cq, r)
  <2> SUFFICES ASSUME NEW r \in Required PROVE place \in Listed(cq, r)
    OBVIOUS
  <2>1. PICK p \in Listed(cq, r) : FlavorAt(cq, p) = flavor
    BY <1>2
  <2>2. p = place
    BY <1>3, <2>1, FlavorHasOnePlace
  <2> QED
    BY <2>2
<1>a. PICK g \in DOMAIN cq.groups : \E f \in DOMAIN cq.groups[g].flavors : place = <<g, f>>
  BY DEF Listed
<1>5. PICK f \in DOMAIN cq.groups[g].flavors : place = <<g, f>>
  BY <1>a
<1> DEFINE quota == cq.groups[g].flavors[f].quota
<1>6. \A r \in Required : r \in cq.groups[g].covered \cap DOMAIN quota
  BY <1>4, <1>5 DEF Listed
<1>7. \A r \in Required : Quantity(quota[r]) >= Quantity(Requests[queue][r])
  <2> SUFFICES ASSUME NEW r \in Required
               PROVE  Quantity(quota[r]) >= Quantity(Requests[queue][r])
    OBVIOUS
  <2>1. Index(cq, r, flavor) = place
    BY <1>3, <1>4, IndexIsThePlace
  <2>2. QuotaAt(cq, place, r) = quota[r]
    BY <1>5 DEF QuotaAt
  <2> QED
    BY <1>1, <2>1, <2>2 DEF Suffices
<1>8. Offers(cq.groups[g].flavors[f], queue, Required)
  BY <1>6, <1>7 DEF Offers
<1>9. Required \subseteq Covered(cq)
  BY <1>6 DEF Covered
<1>10. ASSUME NEW h \in DOMAIN cq.groups, Required \cap cq.groups[h].covered # {}
       PROVE  \E e \in DOMAIN cq.groups[h].flavors :
                 Offers(cq.groups[h].flavors[e], queue, Required \cap cq.groups[h].covered)
  <2>1. cq.groups[h].covered \cap cq.groups[g].covered # {}
    BY <1>6, <1>10
  <2>2. h = g
    BY <2>1 DEF WellFormedQueue
  <2> QED
    BY <1>8, <2>2 DEF Offers
<1> QED
  BY <1>9, <1>10 DEF Admissible

\* A list that _validate_targets accepts holds as many distinct healthy targets
\* as expected.
THEOREM ValidIsAllThere ==
    ASSUME NEW S, NEW results \in Seq(S), NEW expected, ValidTargets(results, expected)
    PROVE  AllThere(results, expected)
<1> DEFINE n == Len(results)
           healthy == {results[i].id : i \in {i \in DOMAIN results : results[i].up}}
           id == [i \in 1..n |-> results[i].id]
<1>1. DOMAIN results = 1..n /\ n \in Nat /\ n = expected
  BY DEF ValidTargets
<1>2. healthy \ {"none"} = {results[i].id : i \in 1..n}
  BY <1>1 DEF ValidTargets
<1>3. \A i, j \in 1..n : id[i] = id[j] => i = j
  BY <1>1 DEF ValidTargets, Duplicated
<1> DEFINE T == {results[i].id : i \in 1..n}
<1>a. id \in [1..n -> T]
  OBVIOUS
<1>b. IsInjective(id)
  BY <1>3 DEF IsInjective
<1>c. \A t \in T : \E i \in 1..n : id[i] = t
  OBVIOUS
<1>4. id \in Bijection(1..n, healthy \ {"none"})
  <2> HIDE DEF id, T, healthy, n
  <2> QED
    BY <1>2, <1>a, <1>b, <1>c DEF Bijection, Injection, Surjection, T, n
<1>5. IsFiniteSet(1..n) /\ Cardinality(1..n) = n
  BY <1>1, FS_Interval
<1>6. Cardinality(healthy \ {"none"}) = Cardinality(1..n)
  BY <1>4, <1>5, FS_Bijection DEF ExistsBijection
<1> QED
  BY <1>1, <1>5, <1>6 DEF AllThere

\* And the other way, for queues in which one flavor of one group has enough of
\* everything: it is found, however many groups and flavors the queue lists before it.
THEOREM OneFlavorIsEligible ==
    ASSUME NEW cq, NEW queue, WellFormedQueue(cq), OneFlavorSuffices(cq, queue)
    PROVE  Required \subseteq Covered(cq) /\ EligibleFlavors(cq, queue) # {}
<1>1. PICK g \in DOMAIN cq.groups :
         /\ Required \subseteq cq.groups[g].covered
         /\ \E f \in DOMAIN cq.groups[g].flavors :
               Offers(cq.groups[g].flavors[f], queue, Required)
  BY DEF OneFlavorSuffices
<1>2. PICK f \in DOMAIN cq.groups[g].flavors :
         Offers(cq.groups[g].flavors[f], queue, Required)
  BY <1>1
<1> DEFINE place == <<g, f>>
           flavor == FlavorAt(cq, place)
<1>3. \A r \in Required : place \in Listed(cq, r)
  BY <1>1, <1>2 DEF Listed, Offers
<1>4. \A r \in Required : Suffices(cq, queue, r, flavor)
  <2> SUFFICES ASSUME NEW r \in Required PROVE Suffices(cq, queue, r, flavor)
    OBVIOUS
  <2>1. Index(cq, r, flavor) = place
    BY <1>3, IndexIsThePlace
  <2>2. QuotaAt(cq, place, r) = cq.groups[g].flavors[f].quota[r]
    BY DEF QuotaAt
  <2> QED
    BY <1>2, <2>1, <2>2 DEF Suffices, Offers
<1>5. flavor \in CommonFlavors(cq)
  <2> HIDE DEF place
  <2>1. "cpu" \in Required
    BY DEF Required
  <2> QED
    BY <1>3, <2>1 DEF CommonFlavors
<1>6. Required \subseteq Covered(cq)
  BY <1>1 DEF Covered
<1> QED
  BY <1>4, <1>5, <1>6 DEF EligibleFlavors

\* A list with as many distinct healthy targets as expected, and nothing else,
\* passes the checks.
THEOREM AllThereIsValid ==
    ASSUME NEW S, NEW results \in Seq(S), NEW expected, AllThere(results, expected),
           \A i \in DOMAIN results : results[i].up \in BOOLEAN
    PROVE  ValidTargets(results, expected)
<1> DEFINE n == Len(results)
           healthy == {results[i].id : i \in {i \in DOMAIN results : results[i].up}}
           named == healthy \ {"none"}
<1>1. DOMAIN results = 1..n /\ n \in Nat /\ n = expected /\ Cardinality(named) = n
  BY DEF AllThere
<1>2. ASSUME NEW j \in 1..n, named \subseteq {results[i].id : i \in (1..n) \ {j}}
      PROVE  FALSE
  <2> DEFINE T == (1..n) \ {j}
             others == {results[i].id : i \in T}
             id == [i \in T |-> results[i].id]
  <2>1. IsFiniteSet(T) /\ Cardinality(T) = n - 1
    <3> HIDE DEF n
    <3>1. IsFiniteSet(1..n) /\ Cardinality(1..n) = n
      BY <1>1, FS_Interval
    <3>2. /\ IsFiniteSet((1..n) \ {j})
          /\ Cardinality((1..n) \ {j}) = Cardinality(1..n) - 1
      BY <1>2, <3>1, FS_RemoveElement
    <3> QED
      BY <3>1, <3>2
  <2>2. id \in Surjection(T, others)
    <3>1. id \in [T -> others]
      OBVIOUS
    <3>2. \A t \in others : \E i \in T : id[i] = t
      OBVIOUS
    <3> HIDE DEF id, others, T
    <3> QED
      BY <3>1, <3>2 DEF Surjection
  <2>3. IsFiniteSet(others) /\ Cardinality(others) <= n - 1
    <3> HIDE DEF id, others, T
    <3> QED
      BY <2>1, <2>2, FS_Surjection
  <2>4. Cardinality(named) <= Cardinality(others) /\ Cardinality(others) \in Nat
    <3>1. named \subseteq others
      BY <1>2
    <3> HIDE DEF named, others
    <3> QED
      BY <2>3, <3>1, FS_Subset, FS_CardinalityType
  <2> HIDE DEF named, others, n
  <2> QED
    BY <1>1, <2>3, <2>4
<1>3. ASSUME NEW j \in 1..n PROVE results[j].up /\ results[j].id # "none"
  <2> SUFFICES ASSUME ~(results[j].up /\ results[j].id # "none") PROVE FALSE
    OBVIOUS
  <2>1. named \subseteq {results[i].id : i \in (1..n) \ {j}}
    <3> SUFFICES ASSUME NEW x \in named PROVE x \in {results[i].id : i \in (1..n) \ {j}}
      OBVIOUS
    <3>1. PICK i \in 1..n : results[i].up /\ x = results[i].id /\ x # "none"
      BY <1>1
    <3>2. i # j
      BY <3>1
    <3> QED
      BY <3>1, <3>2
  <2> QED
    BY <1>2, <2>1
<1>4. ASSUME NEW i \in 1..n, NEW j \in 1..n, i # j, results[i].id = results[j].id
      PROVE  FALSE
  <2>1. named \subseteq {results[k].id : k \in (1..n) \ {j}}
    <3> SUFFICES ASSUME NEW x \in named PROVE x \in {results[k].id : k \in (1..n) \ {j}}
      OBVIOUS
    <3>1. PICK k \in 1..n : x = results[k].id
      BY <1>1
    <3>2. CASE k = j
      BY <1>4, <3>1, <3>2
    <3>3. CASE k # j
      BY <3>1, <3>3
    <3> QED
      BY <3>2, <3>3
  <2> QED
    BY <1>2, <2>1
<1> QED
  BY <1>1, <1>3, <1>4 DEF ValidTargets, Duplicated

-----------------------------------------------------------------------------
(* Plans are sound                                                         *)

\* The records have their fields.
Shaped ==
    /\ DOMAIN threads = Threads
    /\ \A t \in Threads : DOMAIN threads[t] = DOMAIN Free

\* What a thread has seen when it comes to plan_benchmark, and what holds once
\* that accepted.
Planning(t) ==
    /\ threads[t].at \in {"preflight", "checking", "planned"} =>
          threads[t].cq \in ClusterQueues
    /\ threads[t].at \in {"checking", "planned"} =>
          LET args == threads[t].call.args
          IN  args.target \in Targets /\ args.profile \in Profiles =>
                 /\ threads[t].seen \in Answers
                 /\ PreflightPasses(args.model, threads[t].seen)
    /\ threads[t].at = "planned" =>
          PlanAccepts(threads[t].call.args, threads[t].cq)

PlanInv == Shaped /\ \A t \in Threads : Planning(t)

LEMMA PlanInvInit == Init => PlanInv
BY DEF Init, PlanInv, Shaped, Planning, Free

\* A step of one thread disturbs no other.
Steps(t) ==
    /\ DOMAIN threads' = Threads
    /\ DOMAIN threads'[t] = DOMAIN Free
    /\ \A u \in Threads : u # t => threads'[u] = threads[u]

LEMMA OneThreadPlans ==
    ASSUME PlanInv, NEW t \in Threads, Steps(t), Planning(t)'
    PROVE  PlanInv'
<1>1. ASSUME NEW u \in Threads, u # t PROVE Planning(u)'
  BY <1>1 DEF PlanInv, Planning, Steps
<1>2. Shaped'
  BY DEF PlanInv, Shaped, Steps
<1> QED
  BY <1>1, <1>2 DEF PlanInv

LEMMA MoveToSteps ==
    ASSUME Shaped, NEW t \in Threads, NEW place, MoveTo(t, place)
    PROVE  Steps(t)
BY DEF MoveTo, Shaped, Steps

LEMMA ConcludePlans ==
    ASSUME PlanInv, NEW t \in Threads, NEW answer, Conclude(t, answer)
    PROVE  PlanInv'
<1>1. Steps(t)
  BY DEF Conclude, Free, Steps, PlanInv, Shaped
<1>2. threads'[t].at = "answering"
  BY DEF Conclude, Free, PlanInv, Shaped
<1>3. Planning(t)'
  BY <1>2 DEF Planning
<1> QED
  BY <1>1, <1>3, OneThreadPlans

LEMMA PlanInvStep == PlanInv /\ [Next]_vars => PlanInv'
<1> SUFFICES ASSUME PlanInv, [Next]_vars PROVE PlanInv'
  OBVIOUS
<1>1. CASE UNCHANGED threads
  BY <1>1 DEF PlanInv, Shaped, Planning
<1>2. ASSUME NEW c \in Clients, Send(c) PROVE PlanInv'
  <2>1. PICK t \in Threads, m \in Messages[c] :
           threads' = [threads EXCEPT ![t] = [Free EXCEPT !.at = "received", !.message = m,
                                              !.by = <<c, clients[c].sent + 1>>]]
    BY <1>2 DEF Send
  <2>2. Planning(t)'
    BY <2>1 DEF Planning, Free, PlanInv, Shaped
  <2> QED
    BY <2>1, <2>2, OneThreadPlans DEF Steps, Free, PlanInv, Shaped
<1>3. ASSUME NEW t \in Threads, NEW a, Conclude(t, a) PROVE PlanInv'
  BY <1>3, ConcludePlans
<1>4. ASSUME NEW t \in Threads, NEW place \in Places \ {"preflight", "checking", "planned"},
             MoveTo(t, place)
      PROVE  PlanInv'
  <2>1. Planning(t)'
    BY <1>4 DEF MoveTo, Planning, PlanInv, Shaped, Free
  <2> QED
    BY <1>4, <2>1, OneThreadPlans, MoveToSteps DEF PlanInv
<1>5. ASSUME NEW t \in Threads, Dispatch(t), ~\E a : Conclude(t, a) PROVE PlanInv'
  <2>1. threads' = [threads EXCEPT
                ![t].at = "called", ![t].message = None,
                ![t].call = [tool |-> threads[t].message.name,
                             args |-> threads[t].message.args]]
    BY <1>5 DEF Dispatch
  <2>2. Steps(t)
    BY <2>1 DEF Steps, PlanInv, Shaped
  <2>3. Planning(t)'
    BY <2>1 DEF Planning, PlanInv, Shaped, Free
  <2> QED
    BY <2>1, <2>2, <2>3, OneThreadPlans
<1>6. ASSUME NEW t \in Threads, Inspect(t) PROVE PlanInv'
  <2>1. CASE Raise(t)
    BY <2>1, <1>3 DEF Raise
  <2>2. CASE \E cq \in ClusterQueues :
                threads' = [threads EXCEPT ![t].at = "preflight", ![t].cq = cq]
    <3>1. PICK cq \in ClusterQueues :
             threads' = [threads EXCEPT ![t].at = "preflight", ![t].cq = cq]
      BY <2>2
    <3>2. Planning(t)'
      BY <3>1 DEF Planning, PlanInv, Shaped, Free
    <3> QED
      BY <3>1, <3>2, OneThreadPlans DEF Steps, PlanInv, Shaped
  <2> QED
    BY <1>6, <2>1, <2>2 DEF Inspect
<1>7. ASSUME NEW t \in Threads, Preflight(t) PROVE PlanInv'
  <2> DEFINE args == threads[t].call.args
             known == args.target \in Targets /\ args.profile \in Profiles
  <2>1. CASE Raise(t)
    BY <2>1, <1>3 DEF Raise
  <2>2. CASE \E a \in Answers :
                /\ PreflightPasses(args.model, a)
                /\ threads' = [threads EXCEPT ![t].at = "checking", ![t].seen = a]
    <3>1. PICK a \in Answers :
             /\ PreflightPasses(args.model, a)
             /\ threads' = [threads EXCEPT ![t].at = "checking", ![t].seen = a]
      BY <2>2
    <3>2. /\ threads'[t].at = "checking" /\ threads'[t].seen = a
          /\ threads'[t].call = threads[t].call /\ threads'[t].cq = threads[t].cq
      BY <3>1 DEF PlanInv, Shaped, Free
    <3>3. threads[t].cq \in ClusterQueues
      BY <1>7 DEF Preflight, PlanInv, Planning
    <3>4. Planning(t)'
      BY <3>1, <3>2, <3>3 DEF Planning
    <3> QED
      BY <3>1, <3>4, OneThreadPlans DEF Steps, PlanInv, Shaped
  <2>3. CASE ~known /\ MoveTo(t, "checking")
    <3>1. Planning(t)'
      BY <1>7, <2>3 DEF Planning, Preflight, MoveTo, PlanInv, Shaped, Free
    <3> QED
      BY <2>3, <3>1, OneThreadPlans, MoveToSteps DEF PlanInv
  <2> QED
    BY <1>7, <2>1, <2>2, <2>3 DEF Preflight
<1>8. ASSUME NEW t \in Threads, Check(t) PROVE PlanInv'
  <2>1. CASE Raise(t)
    BY <2>1, <1>3 DEF Raise
  <2>2. CASE PlanAccepts(threads[t].call.args, threads[t].cq) /\ MoveTo(t, "planned")
    <3>1. /\ threads'[t].at = "planned" /\ threads'[t].seen = threads[t].seen
          /\ threads'[t].call = threads[t].call /\ threads'[t].cq = threads[t].cq
      BY <2>2 DEF MoveTo, PlanInv, Shaped, Free
    <3>2. Planning(t) /\ threads[t].at = "checking"
      BY <1>8 DEF Check, PlanInv
    <3>3. Planning(t)'
      BY <2>2, <3>1, <3>2 DEF Planning
    <3> QED
      BY <2>2, <3>3, OneThreadPlans, MoveToSteps DEF PlanInv
  <2> QED
    BY <1>8, <2>1, <2>2 DEF Check
<1>9. ASSUME NEW t \in Threads, Warmup(t) PROVE PlanInv'
  <2>1. CASE Raise(t)
    BY <2>1, <1>3 DEF Raise
  <2>2. CASE threads' = [threads EXCEPT ![t].at = "saving", ![t].cq = None,
                                        ![t].seen = None, ![t].call = None]
    <3>1. Planning(t)'
      BY <2>2 DEF Planning, PlanInv, Shaped, Free
    <3> QED
      BY <2>2, <3>1, OneThreadPlans DEF Steps, PlanInv, Shaped
  <2> QED
    BY <1>9, <2>1, <2>2 DEF Warmup
<1>10. ASSUME NEW t \in Threads, StartAttempt(t) PROVE PlanInv'
  <2>1. CASE Raise(t)
    BY <2>1, <1>3 DEF Raise
  <2>2. CASE threads' = [threads EXCEPT ![t].at = "retaining", ![t].run = Len(runs)]
    <3>1. Planning(t)'
      BY <2>2 DEF Planning, PlanInv, Shaped, Free
    <3> QED
      BY <2>2, <3>1, OneThreadPlans DEF Steps, PlanInv, Shaped
  <2> QED
    BY <1>10, <2>1, <2>2 DEF StartAttempt
<1>11. ASSUME NEW t \in Threads, Reply(t) PROVE PlanInv'
  <2>1. threads' = [threads EXCEPT ![t] = Free]
    BY <1>11 DEF Reply
  <2>2. Planning(t)'
    BY <2>1 DEF Planning, PlanInv, Shaped, Free
  <2> QED
    BY <2>1, <2>2, OneThreadPlans DEF Steps, Free, PlanInv, Shaped
<1>12. CASE Restart
  BY <1>12 DEF Restart, PlanInv, Shaped, Planning, Free
<1>13. ASSUME NEW t \in Threads,
              \/ RejectArguments(t) \/ BeginPlan(t) \/ BeginSubmit(t) \/ CountActive(t)
              \/ AnswerPlan(t) \/ SaveRun(t) \/ Retain(t) \/ Read(t) \/ CancelRun(t)
       PROVE  PlanInv'
  <2>1. \/ \E a : Conclude(t, a)
        \/ \E place \in Places \ {"preflight", "checking", "planned"} : MoveTo(t, place)
    BY <1>13 DEF RejectArguments, BeginPlan, BeginSubmit, CountActive, AnswerPlan, SaveRun,
                 Retain, Read, CancelRun, Raise, Places
  <2> QED
    BY <2>1, <1>3, <1>4
<1>14. ASSUME NEW c \in Clients, GiveUp(c) PROVE UNCHANGED threads
  BY <1>14 DEF GiveUp
<1>15. ASSUME NEW r \in DOMAIN runs, RunEnds(r) PROVE UNCHANGED threads
  BY <1>15 DEF RunEnds
<1>16. ASSUME NEW t \in Threads, Dispatch(t) PROVE PlanInv'
  BY <1>16, <1>3, <1>5
<1>17. CASE UNCHANGED vars
  BY <1>17, <1>1 DEF vars
<1> QED
  BY <1>1, <1>2, <1>6, <1>7, <1>8, <1>9, <1>10, <1>11, <1>12, <1>13, <1>14, <1>15, <1>16,
     <1>17 DEF Next

\* What the invariant says of a plan is that it is sound.
LEMMA PlanInvImplies == PlanInv => PlanIsSound
<1> SUFFICES ASSUME PlanInv, NEW t \in Threads, threads[t].at = "planned"
             PROVE  LET args == threads[t].call.args
                        seen == threads[t].seen
                    IN  /\ Admissible(threads[t].cq, args.queue)
                        /\ args.queue \in AllowedQueues[args.target]
                        /\ args.model \in ServedModels[args.target] \cap seen.models
                        /\ AllThere(seen.server, ExpectedServer)
                        /\ AllThere(seen.gpu, ExpectedGpu)
  BY DEF PlanIsSound
<1> DEFINE args == threads[t].call.args
           seen == threads[t].seen
           cq == threads[t].cq
<1>1. Planning(t)
  BY DEF PlanInv
<1>2. cq \in ClusterQueues /\ PlanAccepts(args, cq)
  BY <1>1 DEF Planning
<1>3. args.target \in Targets /\ args.profile \in Profiles
  BY <1>2 DEF PlanAccepts
<1>4. seen \in Answers /\ PreflightPasses(args.model, seen)
  BY <1>1, <1>3 DEF Planning
<1>5. Admissible(cq, args.queue)
  BY <1>2, QueuesAssumption, EligibleIsAdmissible DEF PlanAccepts
<1>6. AllThere(seen.server, ExpectedServer) /\ AllThere(seen.gpu, ExpectedGpu)
  BY <1>4, AnswersAssumption, ValidIsAllThere DEF PreflightPasses
<1> QED
  BY <1>2, <1>4, <1>5, <1>6 DEF PlanAccepts, PreflightPasses

\* Only requests that Kueue could admit, on targets that are all there, are
\* accepted (controller.py plan and submit), for every queue and every answer.
THEOREM PlansAreSound == Spec => []PlanIsSound
<1>1. Spec => []PlanInv
  BY PlanInvInit, PlanInvStep, PTL DEF Spec
<1> QED
  BY <1>1, PlanInvImplies, PTL

-----------------------------------------------------------------------------
(* Answers fit the disk                                                    *)

NoRun(by) == \A r \in DOMAIN runs : runs[r].by # by

\* What an answer says of the request it is for.
Fits(by, answer) ==
    IF answer.run # 0
    THEN answer.kind = "result" /\ answer.run \in DOMAIN runs /\ runs[answer.run].by = by
    ELSE answer.kind \notin {"tool_error", "too_large"} => NoRun(by)

\* Inside submit's transaction.
Submitting(t) ==
    \/ threads[t].at \in {"counting", "saving", "starting"}
    \/ /\ threads[t].at \in {"inspecting", "preflight", "checking", "planned"}
       /\ threads[t].call.tool = "submit"

\* A thread serves a request that was sent, holds the lock inside submit, and
\* knows whether its run is there.
Serves(t) ==
    threads[t].at # "free" =>
        /\ threads[t].by \in Clients \X Nat
        /\ threads[t].by[2] <= clients[threads[t].by[1]].sent
        /\ Submitting(t) => submitLock = t
        /\ threads[t].at \notin {"starting", "retaining", "answering"} => NoRun(threads[t].by)
        /\ threads[t].at = "starting" =>
              Len(runs) # 0 /\ runs[Len(runs)].by = threads[t].by
        /\ threads[t].at = "retaining" =>
              threads[t].run \in DOMAIN runs /\ runs[threads[t].run].by = threads[t].by
        /\ threads[t].at = "answering" => Fits(threads[t].by, threads[t].answer)

\* No two threads serve one request.
Distinct ==
    \A t, u \in Threads :
        threads[t].at # "free" /\ threads[u].at # "free" /\ threads[t].by = threads[u].by => t = u

\* A client that was told was told what is so, and nobody serves its request any
\* more.
Informed(c) ==
    clients[c].at = "told" =>
        /\ Fits(<<c, clients[c].sent>>, clients[c].told)
        /\ \A t \in Threads : threads[t].at # "free" => threads[t].by # <<c, clients[c].sent>>

\* A run comes of a request that was sent, and of its own one.
Runs ==
    /\ runs \in Seq([by : Clients \X Nat, live : BOOLEAN])
    /\ \A r \in DOMAIN runs : runs[r].by[2] <= clients[runs[r].by[1]].sent
    /\ \A r, s \in DOMAIN runs : runs[r].by = runs[s].by => r = s

ClientsShaped ==
    /\ DOMAIN clients = Clients
    /\ \A c \in Clients : clients[c].sent \in Nat /\ DOMAIN clients[c] = {"sent", "at", "told"}

DInv ==
    /\ Shaped /\ ClientsShaped /\ Runs /\ Distinct
    /\ \A t \in Threads : Serves(t)
    /\ \A c \in Clients : Informed(c)

\* The parts of a request.
LEMMA RequestParts ==
    ASSUME NEW by \in Clients \X Nat
    PROVE  by[1] \in Clients /\ by[2] \in Nat /\ by = <<by[1], by[2]>>
OBVIOUS

LEMMA RunsComeOfRequests ==
    ASSUME runs \in Seq([by : Clients \X Nat, live : BOOLEAN]), NEW r \in DOMAIN runs
    PROVE  runs[r].by \in Clients \X Nat /\ runs[r].by[1] \in Clients /\ runs[r].by[2] \in Nat
<1>1. runs[r] \in [by : Clients \X Nat, live : BOOLEAN]
  <2> DEFINE S == [by : Clients \X Nat, live : BOOLEAN]
  <2>1. runs \in Seq(S)
    OBVIOUS
  <2> HIDE DEF S
  <2>2. runs[r] \in S
    BY <2>1
  <2> QED
    BY <2>2 DEF S
<1>2. runs[r].by \in Clients \X Nat
  BY <1>1
<1> QED
  BY <1>2, RequestParts

LEMMA DInvInit == Init => DInv
<1> SUFFICES ASSUME Init PROVE DInv
  OBVIOUS
<1>1. Shaped /\ ClientsShaped
  BY DEF Init, Shaped, ClientsShaped, Free
<1>2. Runs
  BY DEF Init, Runs
<1>3. \A t \in Threads : threads[t].at = "free"
  BY DEF Init, Free
<1>4. \A c \in Clients : clients[c].at = "idle"
  BY DEF Init
<1> QED
  BY <1>1, <1>2, <1>3, <1>4 DEF DInv, Distinct, Serves, Informed

\* The runs keep their number and the requests they came of.
SameRuns ==
    /\ runs' \in Seq([by : Clients \X Nat, live : BOOLEAN])
    /\ Len(runs') = Len(runs)
    /\ \A r \in DOMAIN runs : runs'[r].by = runs[r].by

LEMMA SameRunsFit ==
    ASSUME DInv, SameRuns
    PROVE  /\ DOMAIN runs' = DOMAIN runs
           /\ \A by : NoRun(by)' <=> NoRun(by)
           /\ \A by, answer : Fits(by, answer)' <=> Fits(by, answer)
           /\ Len(runs) # 0 => Len(runs) \in DOMAIN runs
<1>1. DOMAIN runs' = DOMAIN runs /\ (Len(runs) # 0 => Len(runs) \in DOMAIN runs)
  BY DEF SameRuns, DInv, Runs
<1>2. \A by : NoRun(by)' <=> NoRun(by)
  BY <1>1 DEF NoRun, SameRuns
<1> QED
  BY <1>1, <1>2 DEF Fits, SameRuns

\* How the lock may pass when t takes a step.
LockPasses(t) ==
    \/ submitLock' = submitLock
    \/ submitLock = t /\ submitLock' = None
    \/ submitLock = None /\ submitLock' = t

\* A thread goes on with its request.
LEMMA OneThreadServes ==
    ASSUME DInv, NEW t \in Threads, Steps(t), SameRuns, LockPasses(t), UNCHANGED clients,
           threads[t].at # "free", threads'[t].at # "free", threads'[t].by = threads[t].by,
           Serves(t)'
    PROVE  DInv'
<1>1. \A u \in Threads : u # t => threads'[u] = threads[u]
  BY DEF Steps
<1>2. \A u \in Threads : threads'[u].at # "free" =>
          threads[u].at # "free" /\ threads'[u].by = threads[u].by
  BY <1>1
<1>3. Shaped' /\ ClientsShaped'
  BY DEF DInv, Shaped, ClientsShaped, Steps
<1>4. Runs'
  BY SameRunsFit DEF DInv, Runs, SameRuns
<1>5. Distinct'
  BY <1>2 DEF DInv, Distinct
<1>6. ASSUME NEW u \in Threads, u # t PROVE Serves(u)'
  <2>1. threads'[u] = threads[u] /\ Serves(u)
    BY <1>1, <1>6 DEF DInv
  <2>2. submitLock = u => submitLock' = u
    BY <1>6, NoneAssumption DEF LockPasses
  <2>3. Submitting(u)' <=> Submitting(u)
    BY <2>1 DEF Submitting
  <2> QED
    BY <2>1, <2>2, <2>3, SameRunsFit DEF Serves, SameRuns
<1>7. ASSUME NEW c \in Clients PROVE Informed(c)'
  BY <1>2, SameRunsFit DEF DInv, Informed
<1> QED
  BY <1>3, <1>4, <1>5, <1>6, <1>7 DEF DInv

LEMMA ConcludeServes ==
    ASSUME DInv, NEW t \in Threads, NEW answer, Conclude(t, answer), SameRuns,
           UNCHANGED clients, threads[t].at # "free", Fits(threads[t].by, answer)
    PROVE  DInv'
<1>1. /\ threads'[t].at = "answering" /\ threads'[t].by = threads[t].by
      /\ threads'[t].answer = answer
  BY DEF Conclude, Free, DInv, Shaped
<1>2. Steps(t)
  BY DEF Conclude, Free, Steps, DInv, Shaped
<1>3. LockPasses(t)
  BY DEF Conclude, LockPasses
<1>4. Serves(t)'
  BY <1>1, SameRunsFit DEF DInv, Serves, Submitting
<1> QED
  BY <1>1, <1>2, <1>3, <1>4, OneThreadServes

LEMMA RaiseServes ==
    ASSUME DInv, NEW t \in Threads, Raise(t), SameRuns, UNCHANGED clients,
           threads[t].at # "free"
    PROVE  DInv'
<1>1. Fits(threads[t].by, Answer("tool_error", 0))
  BY DEF Fits, Answer
<1> QED
  BY <1>1, ConcludeServes DEF Raise

LEMMA UnchangedRuns == DInv /\ UNCHANGED runs => SameRuns
BY DEF DInv, Runs, SameRuns

\* A thread moves on and knows no more of its run than before.
LEMMA MoveServes ==
    ASSUME DInv, NEW t \in Threads, NEW place, threads[t].at # "free",
           threads[t].at \notin {"starting", "retaining", "answering"},
           place \notin {"free", "starting", "retaining", "answering"},
           Steps(t), threads'[t].at = place, threads'[t].by = threads[t].by,
           LockPasses(t), Submitting(t)' => submitLock' = t,
           UNCHANGED <<clients, runs>>
    PROVE  DInv'
<1>1. SameRuns
  BY UnchangedRuns
<1>2. Serves(t)'
  BY <1>1, SameRunsFit DEF DInv, Serves
<1> QED
  BY <1>1, <1>2, OneThreadServes

\* What MoveTo does to the thread.
LEMMA MoveToServes ==
    ASSUME DInv, NEW t \in Threads, NEW place, MoveTo(t, place)
    PROVE  /\ Steps(t) /\ threads'[t].at = place /\ threads'[t].by = threads[t].by
           /\ threads'[t].call = threads[t].call
BY MoveToSteps DEF MoveTo, DInv, Shaped, Free

LEMMA SendServes ==
    ASSUME DInv, NEW c \in Clients, Send(c)
    PROVE  DInv'
<1> DEFINE by == <<c, clients[c].sent + 1>>
<1>1. PICK t \in Threads, m \in Messages[c] :
         /\ threads[t].at = "free"
         /\ threads' = [threads EXCEPT
                ![t] = [Free EXCEPT !.at = "received", !.message = m, !.by = by]]
  BY DEF Send
<1>2. clients' = [clients EXCEPT ![c] = [sent |-> clients[c].sent + 1, at |-> "waiting",
                                         told |-> None]]
      /\ UNCHANGED <<submitLock, runs>>
  BY DEF Send
<1>3. /\ clients'[c].sent = clients[c].sent + 1 /\ clients'[c].at = "waiting"
      /\ \A d \in Clients : d # c => clients'[d] = clients[d]
      /\ clients[c].sent \in Nat
  BY <1>2 DEF DInv, ClientsShaped
<1>4. \A d \in Clients : clients[d].sent \in Nat /\ clients'[d].sent >= clients[d].sent
  BY <1>3 DEF DInv, ClientsShaped
<1>5. /\ threads'[t].at = "received" /\ threads'[t].by = by /\ Steps(t)
  BY <1>1 DEF DInv, Shaped, Free, Steps
<1>6. \A u \in Threads : u # t => threads'[u] = threads[u]
  BY <1>5 DEF Steps
<1>7. SameRuns
  BY <1>2, UnchangedRuns
<1>8. Shaped' /\ ClientsShaped'
  BY <1>2, <1>3, <1>5 DEF DInv, Shaped, ClientsShaped, Steps
<1>9. Runs'
  <2>1. ASSUME NEW r \in DOMAIN runs
        PROVE  runs[r].by[2] <= clients'[runs[r].by[1]].sent
    <3>1. /\ runs[r].by[1] \in Clients /\ runs[r].by[2] \in Nat
          /\ runs[r].by[2] <= clients[runs[r].by[1]].sent
      BY RunsComeOfRequests DEF DInv, Runs
    <3>2. PICK d : d = runs[r].by[1]
      OBVIOUS
    <3>3. PICK n : n = runs[r].by[2]
      OBVIOUS
    <3>4. n \in Nat /\ d \in Clients /\ n <= clients[d].sent
      BY <3>1, <3>2, <3>3
    <3>5. n <= clients'[d].sent
      BY <1>4, <1>3, <3>4
    <3> QED
      BY <3>2, <3>3, <3>5
  <2> QED
    BY <1>2, <2>1 DEF DInv, Runs
<1>10. \A r \in DOMAIN runs : runs[r].by # by
  BY <1>3 DEF DInv, Runs
<1>11. \A u \in Threads : threads[u].at # "free" => threads[u].by # by
  BY <1>3 DEF DInv, Serves
<1>12. Distinct'
  BY <1>5, <1>6, <1>11 DEF DInv, Distinct
<1>13. ASSUME NEW u \in Threads, u # t PROVE Serves(u)'
  <2>1. threads'[u] = threads[u] /\ Serves(u)
    BY <1>6, <1>13 DEF DInv
  <2>2. Submitting(u)' <=> Submitting(u)
    BY <2>1 DEF Submitting
  <2>3. threads[u].at # "free" =>
           threads[u].by \in Clients \X Nat
           /\ threads[u].by[2] <= clients'[threads[u].by[1]].sent
    <3> SUFFICES ASSUME threads[u].at # "free"
                 PROVE  threads[u].by \in Clients \X Nat
                        /\ threads[u].by[2] <= clients'[threads[u].by[1]].sent
      OBVIOUS
    <3>1. threads[u].by \in Clients \X Nat /\ threads[u].by[2] <= clients[threads[u].by[1]].sent
      BY <2>1 DEF Serves
    <3>2. PICK d \in Clients, n \in Nat : threads[u].by[1] = d /\ threads[u].by[2] = n
      BY <3>1, RequestParts
    <3>3. n <= clients'[d].sent
      BY <1>3, <1>4, <3>1, <3>2
    <3> QED
      BY <3>1, <3>2, <3>3
  <2> QED
    BY <1>2, <1>7, <2>1, <2>2, <2>3, SameRunsFit DEF Serves
<1>14. Serves(t)'
  BY <1>2, <1>3, <1>5, <1>10 DEF Serves, Submitting, NoRun
<1>15. ASSUME NEW d \in Clients PROVE Informed(d)'
  <2>1. CASE d = c
    BY <1>3, <2>1 DEF Informed
  <2>2. CASE d # c
    <3>1. clients'[d] = clients[d] /\ Informed(d)
      BY <1>3, <2>2 DEF DInv
    <3>2. threads'[t].by # <<d, clients[d].sent>>
      BY <1>5, <2>2
    <3> QED
      BY <1>6, <1>7, <3>1, <3>2, SameRunsFit DEF Informed
  <2> QED
    BY <2>1, <2>2
<1> QED
  BY <1>8, <1>9, <1>12, <1>13, <1>14, <1>15 DEF DInv

LEMMA SaveServes ==
    ASSUME DInv, NEW t \in Threads, threads[t].at = "saving", MoveTo(t, "starting"),
           runs' = Append(runs, [by |-> threads[t].by, live |-> TRUE]),
           UNCHANGED <<clients, submitLock>>
    PROVE  DInv'
<1> DEFINE by == threads[t].by
           new == [by |-> by, live |-> TRUE]
<1>1. /\ threads'[t].at = "starting" /\ threads'[t].by = by /\ Steps(t)
  BY MoveToServes
<1>2. \A u \in Threads : u # t => threads'[u] = threads[u]
  BY <1>1 DEF Steps
<1>3. /\ by \in Clients \X Nat /\ by[2] <= clients[by[1]].sent /\ NoRun(by)
      /\ submitLock = t
  BY DEF DInv, Serves, Submitting
<1>4. new \in [by : Clients \X Nat, live : BOOLEAN]
  BY <1>3
<1>5. /\ Len(runs') = Len(runs) + 1 /\ Len(runs) \in Nat
      /\ DOMAIN runs = 1..Len(runs) /\ DOMAIN runs' = 1..Len(runs')
      /\ runs' \in Seq([by : Clients \X Nat, live : BOOLEAN])
      /\ \A r \in DOMAIN runs : runs'[r] = runs[r]
      /\ runs'[Len(runs')].by = by
  <2> DEFINE S == [by : Clients \X Nat, live : BOOLEAN]
  <2>1. runs \in Seq(S) /\ new \in S /\ runs' = Append(runs, new)
    BY <1>4 DEF DInv, Runs
  <2>2. new.by = by
    OBVIOUS
  <2> HIDE DEF by, new, S
  <2>3. /\ Len(runs') = Len(runs) + 1 /\ Len(runs) \in Nat
        /\ DOMAIN runs = 1..Len(runs) /\ DOMAIN runs' = 1..Len(runs')
        /\ runs' \in Seq(S) /\ \A r \in DOMAIN runs : runs'[r] = runs[r]
        /\ runs'[Len(runs')] = new
    BY <2>1
  <2> QED
    BY <2>2, <2>3 DEF S
<1>6. \A b : b # by /\ NoRun(b) => NoRun(b)'
  BY <1>5 DEF NoRun
<1>7. \A b, answer : b # by /\ Fits(b, answer) => Fits(b, answer)'
  BY <1>5, <1>6 DEF Fits
<1>8. Shaped' /\ ClientsShaped'
  BY <1>1 DEF DInv, Shaped, ClientsShaped, Steps
<1>9. Runs'
  <2>1. \A r \in DOMAIN runs' : r \in DOMAIN runs \/ r = Len(runs')
    BY <1>5
  <2>2. \A r \in DOMAIN runs' : runs'[r].by[2] <= clients'[runs'[r].by[1]].sent
    BY <1>3, <1>5, <2>1 DEF DInv, Runs
  <2>3. \A r, s \in DOMAIN runs' : runs'[r].by = runs'[s].by => r = s
    BY <1>3, <1>5, <2>1 DEF DInv, Runs, NoRun
  <2> QED
    BY <1>5, <2>2, <2>3 DEF Runs
<1>10. Distinct'
  BY <1>1, <1>2 DEF DInv, Distinct
<1>11. ASSUME NEW u \in Threads, u # t PROVE Serves(u)'
  <2>1. threads'[u] = threads[u] /\ Serves(u)
    BY <1>2, <1>11 DEF DInv
  <2>2. Submitting(u)' <=> Submitting(u)
    BY <2>1 DEF Submitting
  <2>3. threads[u].at # "starting"
    BY <1>3, <1>11, <2>1 DEF Serves, Submitting
  <2>4. threads[u].at # "free" => threads[u].by # by
    BY <1>11 DEF DInv, Distinct
  <2> QED
    BY <1>5, <1>6, <1>7, <2>1, <2>2, <2>3, <2>4 DEF Serves
<1>12. Serves(t)'
  BY <1>1, <1>3, <1>5 DEF Serves
<1>13. ASSUME NEW c \in Clients PROVE Informed(c)'
  <2>1. clients[c].at = "told" => <<c, clients[c].sent>> # by
    BY DEF DInv, Informed
  <2> QED
    BY <1>1, <1>2, <1>7, <2>1 DEF DInv, Informed
<1> QED
  BY <1>8, <1>9, <1>10, <1>11, <1>12, <1>13 DEF DInv

LEMMA ReplyServes ==
    ASSUME DInv, NEW t \in Threads, Reply(t)
    PROVE  DInv'
<1> DEFINE by == threads[t].by
           c == by[1]
<1>1. /\ threads[t].at = "answering" /\ threads' = [threads EXCEPT ![t] = Free]
      /\ UNCHANGED <<submitLock, runs>>
  BY DEF Reply
<1>2. by \in Clients \X Nat /\ Fits(by, threads[t].answer)
  BY <1>1 DEF DInv, Serves
<1>3. /\ threads'[t].at = "free" /\ Steps(t)
      /\ \A u \in Threads : u # t => threads'[u] = threads[u]
  BY <1>1 DEF Steps, Free, DInv, Shaped
<1>4. SameRuns
  BY <1>1, UnchangedRuns
<1>5. \/ UNCHANGED clients
      \/ clients' = [clients EXCEPT ![c].at = "gave_up"]
      \/ /\ clients[c].sent = by[2]
         /\ \E answer \in Bounded(threads[t].answer) :
               clients' = [clients EXCEPT ![c].at = "told", ![c].told = answer]
  BY DEF Reply
<1>6. \A d \in Clients : clients'[d].sent = clients[d].sent
  <2>1. CASE UNCHANGED clients
    BY <2>1
  <2>2. CASE clients' = [clients EXCEPT ![c].at = "gave_up"]
    BY <2>2 DEF DInv, ClientsShaped
  <2>3. ASSUME NEW answer,
               clients' = [clients EXCEPT ![c].at = "told", ![c].told = answer]
        PROVE  \A d \in Clients : clients'[d].sent = clients[d].sent
    <3> HIDE DEF c
    <3> QED
      BY <2>3 DEF DInv, ClientsShaped
  <2> QED
    BY <1>5, <2>1, <2>2, <2>3
<1>7. Shaped' /\ ClientsShaped'
  <2>1. DOMAIN clients' = Clients
    BY <1>5 DEF DInv, ClientsShaped
  <2>2. \A d \in Clients : DOMAIN clients'[d] = DOMAIN clients[d]
    BY <1>2, <1>5 DEF DInv, ClientsShaped
  <2> QED
    BY <1>3, <1>6, <2>1, <2>2 DEF DInv, Shaped, ClientsShaped, Steps
<1>8. Runs'
  <2>1. \A r \in DOMAIN runs : runs[r].by[1] \in Clients
    BY RunsComeOfRequests DEF DInv, Runs
  <2>2. \A r \in DOMAIN runs : runs[r].by[2] <= clients'[runs[r].by[1]].sent
    BY <1>6, <2>1 DEF DInv, Runs
  <2> QED
    BY <1>1, <2>2 DEF DInv, Runs
<1>9. Distinct'
  BY <1>3 DEF DInv, Distinct
<1>10. ASSUME NEW u \in Threads PROVE Serves(u)'
  <2>1. CASE u = t
    BY <1>3, <2>1 DEF Serves
  <2>2. CASE u # t
    <3>1. threads'[u] = threads[u] /\ Serves(u)
      BY <1>3, <2>2 DEF DInv
    <3>2. Submitting(u)' <=> Submitting(u)
      BY <3>1 DEF Submitting
    <3> QED
      BY <1>1, <1>4, <1>6, <3>1, <3>2, SameRunsFit DEF Serves
  <2> QED
    BY <2>1, <2>2
<1>11. \A answer \in Bounded(threads[t].answer) : Fits(by, answer)
  BY <1>2 DEF Bounded, Fits, Answer
<1>12. ASSUME NEW d \in Clients, clients'[d].at = "told" PROVE Informed(d)'
  <2>1. CASE clients'[d] = clients[d]
    <3>1. Informed(d) /\ clients[d].at = "told"
      BY <1>12, <2>1 DEF DInv
    <3> QED
      BY <1>3, <1>4, <2>1, <3>1, SameRunsFit DEF Informed
  <2>2. CASE clients'[d] # clients[d]
    <3>1. /\ d = c /\ clients[c].sent = by[2]
          /\ \E answer \in Bounded(threads[t].answer) : clients'[d].told = answer
      BY <1>2, <1>5, <1>12, <2>2 DEF DInv, ClientsShaped
    <3>2. <<d, clients'[d].sent>> = by
      BY <1>2, <1>6, <3>1
    <3>3. Fits(by, clients'[d].told)
      BY <1>11, <3>1
    <3>4. \A u \in Threads : threads'[u].at # "free" => threads'[u].by # by
      BY <1>1, <1>3 DEF DInv, Distinct
    <3> QED
      BY <1>4, <3>2, <3>3, <3>4, SameRunsFit DEF Informed
  <2> QED
    BY <2>1, <2>2
<1> QED
  BY <1>7, <1>8, <1>9, <1>10, <1>12 DEF DInv, Informed

\* What is sent answers nobody: a client that gives up only stops listening.
LEMMA GiveUpServes ==
    ASSUME DInv, NEW c \in Clients, GiveUp(c)
    PROVE  DInv'
<1>1. /\ clients' = [clients EXCEPT ![c].at = "gave_up"]
      /\ UNCHANGED <<threads, submitLock, runs>>
  BY DEF GiveUp
<1>2. /\ \A d \in Clients : clients'[d].sent = clients[d].sent
      /\ \A d \in Clients : d # c => clients'[d] = clients[d]
      /\ clients'[c].at = "gave_up"
      /\ ClientsShaped'
  BY <1>1 DEF DInv, ClientsShaped
<1>3. Shaped' /\ Distinct'
  BY <1>1 DEF DInv, Shaped, Distinct
<1>4. Runs'
  <2>1. \A r \in DOMAIN runs : runs[r].by[1] \in Clients
    BY RunsComeOfRequests DEF DInv, Runs
  <2>2. \A r \in DOMAIN runs : runs[r].by[2] <= clients'[runs[r].by[1]].sent
    BY <1>2, <2>1 DEF DInv, Runs
  <2> QED
    BY <1>1, <2>2 DEF DInv, Runs
<1>5. SameRuns
  BY <1>1, UnchangedRuns
<1>6. ASSUME NEW t \in Threads PROVE Serves(t)'
  <2>1. threads'[t] = threads[t] /\ Serves(t) /\ submitLock' = submitLock
    BY <1>1 DEF DInv
  <2>2. Submitting(t)' <=> Submitting(t)
    BY <2>1 DEF Submitting
  <2>3. threads[t].at # "free" => threads[t].by[1] \in Clients
    BY <2>1, RequestParts DEF Serves
  <2> QED
    BY <1>1, <1>2, <1>5, <2>1, <2>2, <2>3, SameRunsFit DEF Serves
<1>7. ASSUME NEW d \in Clients PROVE Informed(d)'
  BY <1>1, <1>2, <1>5, SameRunsFit DEF DInv, Informed
<1> QED
  BY <1>2, <1>3, <1>4, <1>6, <1>7 DEF DInv

\* A stop frees every thread and tells nobody anything.
LEMMA RestartServes == DInv /\ Restart => DInv'
<1> SUFFICES ASSUME DInv, Restart PROVE DInv'
  OBVIOUS
<1>1. /\ threads' = [t \in Threads |-> Free]
      /\ clients' = [c \in Clients |-> [clients[c] EXCEPT
            !.at = IF @ = "waiting" THEN "gave_up" ELSE @]]
      /\ UNCHANGED runs
  BY DEF Restart
<1>2. /\ \A d \in Clients : /\ clients'[d].sent = clients[d].sent
                            /\ clients'[d].told = clients[d].told
                            /\ clients'[d].at = "told" => clients[d].at = "told"
      /\ ClientsShaped'
  BY <1>1 DEF DInv, ClientsShaped
<1>3. \A t \in Threads : threads'[t].at = "free"
  BY <1>1 DEF Free
<1>4. Shaped'
  BY <1>1 DEF Shaped
<1>5. Runs'
  <2>1. \A r \in DOMAIN runs : runs[r].by[1] \in Clients
    BY RunsComeOfRequests DEF DInv, Runs
  <2>2. \A r \in DOMAIN runs : runs[r].by[2] <= clients'[runs[r].by[1]].sent
    BY <1>2, <2>1 DEF DInv, Runs
  <2> QED
    BY <1>1, <2>2 DEF DInv, Runs
<1>6. SameRuns
  BY <1>1, UnchangedRuns
<1>7. ASSUME NEW d \in Clients PROVE Informed(d)'
  BY <1>2, <1>3, <1>6, SameRunsFit DEF DInv, Informed
<1> QED
  BY <1>2, <1>3, <1>4, <1>5, <1>7 DEF DInv, Distinct, Serves

\* The end of a run leaves its request.
LEMMA EndedRuns ==
    ASSUME DInv, NEW r \in DOMAIN runs, runs' = [runs EXCEPT ![r].live = FALSE]
    PROVE  SameRuns
<1> DEFINE S == [by : Clients \X Nat, live : BOOLEAN]
           new == [runs[r] EXCEPT !.live = FALSE]
<1>1. runs \in Seq(S) /\ runs' = [runs EXCEPT ![r] = new]
  BY DEF DInv, Runs
<1>2. runs[r] \in S
  <2> HIDE DEF S
  <2> QED
    BY <1>1
<1>3. new \in S /\ new.by = runs[r].by
  BY <1>2
<1> HIDE DEF S, new
<1>4. /\ runs' \in Seq(S) /\ Len(runs') = Len(runs)
      /\ runs'[r] = new /\ \A s \in DOMAIN runs : s # r => runs'[s] = runs[s]
  <2>1. Len(runs) \in Nat /\ runs \in [1..Len(runs) -> S] /\ r \in 1..Len(runs)
    BY <1>1
  <2>2. DOMAIN runs = 1..Len(runs)
    BY <2>1
  <2>3. runs' \in [1..Len(runs) -> S]
    BY <1>1, <1>3, <2>1
  <2>4. runs' \in Seq(S) /\ Len(runs') = Len(runs)
    BY <2>1, <2>3
  <2> QED
    BY <1>1, <2>1, <2>2, <2>4
<1>5. \A s \in DOMAIN runs : runs'[s].by = runs[s].by
  BY <1>3, <1>4
<1> QED
  BY <1>4, <1>5 DEF SameRuns, S

\* A step that moves the thread on, with the lock kept.
LEMMA OnwardServes ==
    ASSUME DInv, NEW t \in Threads, NEW place, MoveTo(t, place),
           threads[t].at \in {"called", "counting", "inspecting", "preflight", "checking"},
           place \in {"inspecting", "checking", "planned"},
           threads[t].at = "called" => threads[t].call.tool # "submit",
           UNCHANGED <<clients, runs, submitLock>>
    PROVE  DInv'
<1>1. /\ Steps(t) /\ threads'[t].at = place /\ threads'[t].by = threads[t].by
      /\ threads'[t].call = threads[t].call
  BY MoveToServes
<1>2. Submitting(t)' => submitLock' = t
  <2>1. Submitting(t)' => Submitting(t)
    BY <1>1 DEF Submitting
  <2> QED
    BY <2>1 DEF DInv, Serves
<1> QED
  BY <1>1, <1>2, MoveServes DEF LockPasses

\* Every action of a thread keeps the invariant.
LEMMA ThreadServes ==
    ASSUME DInv, NEW t \in Threads,
           \/ RejectArguments(t) \/ BeginPlan(t) \/ BeginSubmit(t) \/ CountActive(t)
           \/ AnswerPlan(t) \/ Retain(t) \/ Read(t) \/ Check(t)
    PROVE  DInv'
<1>1. CASE RejectArguments(t)
  BY <1>1, RaiseServes, UnchangedRuns DEF RejectArguments
<1>2. CASE BeginPlan(t)
  BY <1>2, OnwardServes DEF BeginPlan, Call
<1>3. CASE BeginSubmit(t)
  <2>1. /\ Steps(t) /\ threads'[t].at = "counting" /\ threads'[t].by = threads[t].by
        /\ threads[t].at = "called" /\ submitLock = None /\ submitLock' = t
        /\ UNCHANGED <<clients, runs>>
    BY <1>3, MoveToServes DEF BeginSubmit, Call
  <2> QED
    BY <2>1, MoveServes DEF LockPasses
<1>4. CASE CountActive(t)
  <2>1. threads[t].at = "counting" /\ UNCHANGED <<clients, runs>>
    BY <1>4 DEF CountActive
  <2>2. CASE Raise(t)
    BY <2>1, <2>2, RaiseServes, UnchangedRuns
  <2>3. CASE MoveTo(t, "inspecting") /\ UNCHANGED submitLock
    BY <2>1, <2>3, OnwardServes
  <2> QED
    BY <1>4, <2>2, <2>3 DEF CountActive
<1>5. CASE AnswerPlan(t)
  <2>1. /\ threads[t].at = "planned" /\ Conclude(t, Answer("result", 0))
        /\ UNCHANGED <<clients, runs>>
    BY <1>5 DEF AnswerPlan
  <2>2. NoRun(threads[t].by)
    BY <2>1 DEF DInv, Serves
  <2>3. Fits(threads[t].by, Answer("result", 0))
    BY <2>2 DEF Fits, Answer
  <2> QED
    BY <2>1, <2>3, ConcludeServes, UnchangedRuns
<1>6. CASE Retain(t)
  <2>1. threads[t].at = "retaining" /\ UNCHANGED <<clients, runs>>
    BY <1>6 DEF Retain
  <2>2. CASE Raise(t)
    BY <2>1, <2>2, RaiseServes, UnchangedRuns
  <2>3. CASE Conclude(t, Answer("result", threads[t].run))
    <3>1. threads[t].run \in DOMAIN runs /\ runs[threads[t].run].by = threads[t].by
      BY <2>1 DEF DInv, Serves
    <3>2. threads[t].run # 0
      BY <3>1 DEF DInv, Runs
    <3>3. Fits(threads[t].by, Answer("result", threads[t].run))
      BY <3>1, <3>2 DEF Fits, Answer
    <3> QED
      BY <2>1, <2>3, <3>3, ConcludeServes, UnchangedRuns
  <2> QED
    BY <1>6, <2>2, <2>3 DEF Retain
<1>7. CASE Read(t)
  <2>1. threads[t].at = "called" /\ UNCHANGED <<clients, runs>>
    BY <1>7 DEF Read, Call
  <2>2. CASE Raise(t)
    BY <2>1, <2>2, RaiseServes, UnchangedRuns
  <2>3. CASE Conclude(t, Answer("result", 0))
    <3>1. NoRun(threads[t].by)
      BY <2>1 DEF DInv, Serves
    <3>2. Fits(threads[t].by, Answer("result", 0))
      BY <3>1 DEF Fits, Answer
    <3> QED
      BY <2>1, <2>3, <3>2, ConcludeServes, UnchangedRuns
  <2> QED
    BY <1>7, <2>2, <2>3 DEF Read
<1>8. CASE Check(t)
  <2>1. threads[t].at = "checking" /\ UNCHANGED <<clients, runs>>
    BY <1>8 DEF Check
  <2>2. CASE Raise(t)
    BY <2>1, <2>2, RaiseServes, UnchangedRuns
  <2>3. CASE MoveTo(t, "planned") /\ UNCHANGED submitLock
    BY <2>1, <2>3, OnwardServes
  <2> QED
    BY <1>8, <2>2, <2>3 DEF Check
<1> QED
  BY <1>1, <1>2, <1>3, <1>4, <1>5, <1>6, <1>7, <1>8

LEMMA DispatchServes ==
    ASSUME DInv, NEW t \in Threads, Dispatch(t)
    PROVE  DInv'
<1> DEFINE m == threads[t].message
           verdict == PostVerdict(m)
<1>1. threads[t].at = "received" /\ UNCHANGED <<clients, runs>>
  BY DEF Dispatch
<1>2. CASE /\ threads' = [threads EXCEPT
                 ![t].at = "called", ![t].message = None,
                 ![t].call = [tool |-> m.name, args |-> m.args]]
           /\ UNCHANGED submitLock
  <2>1. Steps(t) /\ threads'[t].at = "called" /\ threads'[t].by = threads[t].by
    BY <1>2 DEF Steps, DInv, Shaped, Free
  <2>2. ~Submitting(t)'
    BY <2>1 DEF Submitting
  <2> QED
    BY <1>1, <1>2, <2>1, <2>2, MoveServes DEF LockPasses
<1>3. CASE Conclude(t, Answer(verdict.kind, 0))
  <2>1. NoRun(threads[t].by)
    BY <1>1 DEF DInv, Serves
  <2>2. Fits(threads[t].by, Answer(verdict.kind, 0))
    BY <2>1 DEF Fits, Answer
  <2> QED
    BY <1>1, <1>3, <2>2, ConcludeServes, UnchangedRuns
<1> QED
  BY <1>2, <1>3 DEF Dispatch

\* What is found in Kueue and in Prometheus is kept with the thread.
LEMMA LookServes ==
    ASSUME DInv, NEW t \in Threads, Inspect(t) \/ Preflight(t)
    PROVE  DInv'
<1>1. threads[t].at \in {"inspecting", "preflight"} /\ UNCHANGED <<clients, runs>>
  BY DEF Inspect, Preflight
<1>2. CASE Raise(t)
  BY <1>1, <1>2, RaiseServes, UnchangedRuns
<1>3. ASSUME NEW x,
             \/ threads' = [threads EXCEPT ![t].at = "preflight", ![t].cq = x]
             \/ threads' = [threads EXCEPT ![t].at = "checking", ![t].seen = x],
             UNCHANGED submitLock
      PROVE  DInv'
  <2>1. /\ Steps(t) /\ threads'[t].at \in {"preflight", "checking"}
        /\ threads'[t].by = threads[t].by /\ threads'[t].call = threads[t].call
    BY <1>3 DEF Steps, DInv, Shaped, Free
  <2>2. Submitting(t)' => submitLock' = t
    <3>1. Submitting(t)' => Submitting(t)
      BY <1>1, <2>1 DEF Submitting
    <3>2. Submitting(t) => submitLock = t
      BY <1>1 DEF DInv, Serves
    <3> QED
      BY <1>3, <3>1, <3>2
  <2> QED
    BY <1>1, <1>3, <2>1, <2>2, MoveServes DEF LockPasses
<1>4. CASE MoveTo(t, "checking") /\ UNCHANGED submitLock
  BY <1>1, <1>4, OnwardServes
<1> QED
  BY <1>2, <1>3, <1>4 DEF Inspect, Preflight

LEMMA WarmupServes ==
    ASSUME DInv, NEW t \in Threads, Warmup(t)
    PROVE  DInv'
<1>1. /\ threads[t].at = "planned" /\ threads[t].call.tool = "submit"
      /\ UNCHANGED <<clients, runs>>
  BY DEF Warmup
<1>2. CASE Raise(t)
  BY <1>1, <1>2, RaiseServes, UnchangedRuns
<1>3. CASE /\ threads' = [threads EXCEPT ![t].at = "saving", ![t].cq = None,
                                        ![t].seen = None, ![t].call = None]
           /\ UNCHANGED submitLock
  <2>1. Steps(t) /\ threads'[t].at = "saving" /\ threads'[t].by = threads[t].by
    BY <1>3 DEF Steps, DInv, Shaped, Free
  <2>2. submitLock' = t
    BY <1>1, <1>3 DEF DInv, Serves, Submitting
  <2> QED
    BY <1>1, <1>3, <2>1, <2>2, MoveServes DEF LockPasses
<1> QED
  BY <1>2, <1>3 DEF Warmup

LEMMA SaveRunServes ==
    ASSUME DInv, NEW t \in Threads, SaveRun(t)
    PROVE  DInv'
<1>1. threads[t].at = "saving" /\ UNCHANGED clients
  BY DEF SaveRun
<1>2. CASE Raise(t) /\ UNCHANGED runs
  BY <1>1, <1>2, RaiseServes, UnchangedRuns
<1>3. CASE /\ runs' = Append(runs, [by |-> threads[t].by, live |-> TRUE])
           /\ MoveTo(t, "starting")
           /\ UNCHANGED submitLock
  BY <1>1, <1>3, SaveServes
<1> QED
  BY <1>2, <1>3 DEF SaveRun

LEMMA StartAttemptServes ==
    ASSUME DInv, NEW t \in Threads, StartAttempt(t)
    PROVE  DInv'
<1>1. threads[t].at = "starting" /\ UNCHANGED <<clients, runs>>
  BY DEF StartAttempt
<1>2. SameRuns
  BY <1>1, UnchangedRuns
<1>3. CASE Raise(t)
  BY <1>1, <1>2, <1>3, RaiseServes
<1>4. CASE /\ threads' = [threads EXCEPT ![t].at = "retaining", ![t].run = Len(runs)]
           /\ submitLock' = None
  <2>1. /\ Steps(t) /\ threads'[t].at = "retaining" /\ threads'[t].by = threads[t].by
        /\ threads'[t].run = Len(runs)
    BY <1>4 DEF Steps, DInv, Shaped, Free
  <2>2. /\ Serves(t) /\ submitLock = t /\ Len(runs) # 0
        /\ runs[Len(runs)].by = threads[t].by
    BY <1>1 DEF DInv, Serves, Submitting
  <2>3. Len(runs) \in DOMAIN runs
    BY <1>2, <2>2, SameRunsFit
  <2>4. Serves(t)'
    BY <1>1, <2>1, <2>2, <2>3 DEF Serves, Submitting
  <2>5. LockPasses(t)
    BY <1>4, <2>2 DEF LockPasses
  <2> QED
    BY <1>1, <1>2, <2>1, <2>4, <2>5, OneThreadServes
<1> QED
  BY <1>3, <1>4 DEF StartAttempt

LEMMA CancelServes ==
    ASSUME DInv, NEW t \in Threads, CancelRun(t)
    PROVE  DInv'
<1> DEFINE r == threads[t].call.args.run
<1>1. threads[t].at = "called" /\ UNCHANGED clients
  BY DEF CancelRun, Call
<1>2. SameRuns
  <2>1. CASE UNCHANGED runs
    BY <2>1, UnchangedRuns
  <2>2. CASE r \in LiveRuns /\ runs' = [runs EXCEPT ![r].live = FALSE]
    BY <2>2, EndedRuns DEF LiveRuns
  <2> QED
    BY <2>1, <2>2 DEF CancelRun
<1>3. Raise(t) \/ Conclude(t, Answer("result", 0))
  BY DEF CancelRun
<1>4. CASE Raise(t)
  BY <1>1, <1>2, <1>4, RaiseServes
<1>5. CASE Conclude(t, Answer("result", 0))
  <2>1. NoRun(threads[t].by)
    BY <1>1 DEF DInv, Serves
  <2>2. Fits(threads[t].by, Answer("result", 0))
    BY <2>1 DEF Fits, Answer
  <2> QED
    BY <1>1, <1>2, <1>5, <2>2, ConcludeServes
<1> QED
  BY <1>3, <1>4, <1>5

\* A run that ends, or nothing: the requests and the runs they made are as before.
LEMMA RestServes ==
    ASSUME DInv, SameRuns, UNCHANGED <<clients, threads, submitLock>>
    PROVE  DInv'
<1>1. Shaped' /\ ClientsShaped' /\ Distinct'
  BY DEF DInv, Shaped, ClientsShaped, Distinct
<1>2. Runs'
  BY SameRunsFit DEF DInv, Runs, SameRuns
<1>3. ASSUME NEW t \in Threads PROVE Serves(t)'
  <2>1. Serves(t) /\ (Submitting(t)' <=> Submitting(t))
    BY DEF DInv, Submitting
  <2> QED
    BY <2>1, SameRunsFit DEF Serves, SameRuns
<1>4. ASSUME NEW c \in Clients PROVE Informed(c)'
  BY SameRunsFit DEF DInv, Informed
<1> QED
  BY <1>1, <1>2, <1>3, <1>4 DEF DInv

LEMMA DInvStep == DInv /\ [Next]_vars => DInv'
<1> SUFFICES ASSUME DInv, [Next]_vars PROVE DInv'
  OBVIOUS
<1>1. ASSUME NEW c \in Clients, Send(c) \/ GiveUp(c) PROVE DInv'
  BY <1>1, SendServes, GiveUpServes
<1>2. ASSUME NEW t \in Threads,
             \/ Dispatch(t) \/ RejectArguments(t) \/ BeginPlan(t) \/ BeginSubmit(t)
             \/ CountActive(t) \/ Inspect(t) \/ Preflight(t) \/ Check(t)
             \/ AnswerPlan(t) \/ Warmup(t) \/ SaveRun(t) \/ StartAttempt(t) \/ Retain(t)
             \/ Read(t) \/ CancelRun(t) \/ Reply(t)
      PROVE  DInv'
  BY <1>2, ThreadServes, DispatchServes, LookServes, WarmupServes, SaveRunServes,
     StartAttemptServes, CancelServes, ReplyServes
<1>3. ASSUME NEW r \in DOMAIN runs, RunEnds(r) PROVE DInv'
  BY <1>3, EndedRuns, RestServes DEF RunEnds
<1>4. CASE Restart
  BY <1>4, RestartServes
<1>5. CASE UNCHANGED vars
  BY <1>5, UnchangedRuns, RestServes DEF vars
<1> QED
  BY <1>1, <1>2, <1>3, <1>4, <1>5 DEF Next

LEMMA DInvImplies == DInv => SubmitAnswersFitDisk
<1> SUFFICES ASSUME DInv PROVE SubmitAnswersFitDisk
  OBVIOUS
<1>1. \A r, s \in DOMAIN runs : runs[r].by = runs[s].by => r = s
  BY DEF DInv, Runs
<1>2. \A t \in Threads : threads[t].at \in {"received", "called", "planned", "saving"} =>
          \A r \in DOMAIN runs : runs[r].by # threads[t].by
  BY DEF DInv, Serves, NoRun
<1>3. ASSUME NEW c \in Clients, clients[c].at = "told"
      PROVE  LET mine == {r \in DOMAIN runs : runs[r].by = <<c, clients[c].sent>>}
                 told == clients[c].told
             IN  IF told.run # 0 THEN told.kind = "result" /\ mine = {told.run}
                 ELSE told.kind \notin {"tool_error", "too_large"} => mine = {}
  <2>1. Fits(<<c, clients[c].sent>>, clients[c].told)
    BY <1>3 DEF DInv, Informed
  <2> QED
    BY <1>1, <2>1 DEF Fits, NoRun
<1> QED
  BY <1>1, <1>2, <1>3 DEF SubmitAnswersFitDisk

\* However answers are lost, late or replaced, and whenever the service stops:
\* an accepted answer names the one run of its request, an error of the protocol
\* means there is none, and no request makes two (controller.py submit, mcp.py
\* _call_tool and _bounded_response).
THEOREM AnswersFitDisk == Spec => []SubmitAnswersFitDisk
<1>1. Spec => []DInv
  BY DInvInit, DInvStep, PTL DEF Spec
<1> QED
  BY <1>1, DInvImplies, PTL

-----------------------------------------------------------------------------
(* Calls match the contract                                                *)

\* The threads are whole, and what a thread received is a message.
MInv ==
    /\ Shaped
    /\ \A t \in Threads : threads[t].at = "received" => Message(threads[t].message)

\* What a thread does to a request it holds, after it decided what it is.
Serving(t) ==
    \/ RejectArguments(t) \/ BeginPlan(t) \/ BeginSubmit(t) \/ CountActive(t)
    \/ Inspect(t) \/ Preflight(t) \/ Check(t) \/ AnswerPlan(t) \/ Warmup(t)
    \/ SaveRun(t) \/ StartAttempt(t) \/ Retain(t) \/ Read(t) \/ CancelRun(t)
    \/ Reply(t)

LEMMA ConcludeSteps ==
    ASSUME Shaped, NEW t \in Threads, NEW answer, Conclude(t, answer)
    PROVE  Steps(t) /\ threads'[t].at = "answering"
BY DEF Conclude, Free, Steps, Shaped

LEMMA ServingSteps ==
    ASSUME Shaped, NEW t \in Threads, Serving(t)
    PROVE  Steps(t) /\ threads[t].at # "received" /\ threads'[t].at # "received"
<1>1. threads[t].at # "received"
  BY DEF Serving, RejectArguments, BeginPlan, BeginSubmit, CountActive, Inspect, Preflight,
     Check, AnswerPlan, Warmup, SaveRun, StartAttempt, Retain, Read, CancelRun, Reply, Call
<1>2. ASSUME NEW answer, Conclude(t, answer)
      PROVE  Steps(t) /\ threads'[t].at # "received"
  BY <1>2, ConcludeSteps
<1>3. ASSUME NEW place, MoveTo(t, place), place # "received"
      PROVE  Steps(t) /\ threads'[t].at # "received"
  BY <1>3, MoveToSteps DEF MoveTo, Shaped, Free
<1>4. Raise(t) => Steps(t) /\ threads'[t].at # "received"
  BY <1>2 DEF Raise
<1>5. CASE RejectArguments(t) \/ BeginPlan(t) \/ BeginSubmit(t) \/ CountActive(t)
           \/ AnswerPlan(t) \/ SaveRun(t) \/ Retain(t) \/ Read(t) \/ CancelRun(t)
           \/ Check(t)
  <2>1. \/ Raise(t)
        \/ Conclude(t, Answer("result", 0)) \/ Conclude(t, Answer("result", threads[t].run))
        \/ MoveTo(t, "inspecting") \/ MoveTo(t, "counting") \/ MoveTo(t, "starting")
        \/ MoveTo(t, "planned")
    BY <1>5 DEF RejectArguments, BeginPlan, BeginSubmit, CountActive, AnswerPlan, SaveRun,
                Retain, Read, CancelRun, Check
  <2>2. ASSUME NEW place \in {"inspecting", "counting", "starting", "planned"},
               MoveTo(t, place)
        PROVE  Steps(t) /\ threads'[t].at # "received"
    BY <1>3, <2>2
  <2>3. CASE Raise(t)
    BY <1>1, <1>4, <2>3
  <2>4. CASE Conclude(t, Answer("result", 0))
    BY <1>1, <1>2, <2>4
  <2>5. CASE Conclude(t, Answer("result", threads[t].run))
    BY <1>1, <1>2, <2>5
  <2>6. CASE \E place \in {"inspecting", "counting", "starting", "planned"} : MoveTo(t, place)
    BY <1>1, <2>2, <2>6
  <2> QED
    BY <2>1, <2>3, <2>4, <2>5, <2>6
<1>6. ASSUME NEW x,
             \/ threads' = [threads EXCEPT ![t].at = "preflight", ![t].cq = x]
             \/ threads' = [threads EXCEPT ![t].at = "checking", ![t].seen = x]
             \/ threads' = [threads EXCEPT ![t].at = "retaining", ![t].run = x]
      PROVE  Steps(t) /\ threads'[t].at # "received"
  BY <1>6 DEF Steps, Shaped, Free
<1>7. CASE Inspect(t) \/ Preflight(t) \/ StartAttempt(t)
  <2>1. CASE Inspect(t)
    BY <1>1, <1>4, <1>6, <2>1 DEF Inspect
  <2>2. CASE Preflight(t)
    <3>1. MoveTo(t, "checking") => Steps(t) /\ threads'[t].at # "received"
      BY <1>3
    <3> QED
      BY <1>1, <1>4, <1>6, <2>2, <3>1 DEF Preflight
  <2>3. CASE StartAttempt(t)
    BY <1>1, <1>4, <1>6, <2>3 DEF StartAttempt
  <2> QED
    BY <1>7, <2>1, <2>2, <2>3
<1>8. CASE Warmup(t)
  <2>1. CASE threads' = [threads EXCEPT ![t].at = "saving", ![t].cq = None,
                                        ![t].seen = None, ![t].call = None]
    <3>1. threads'[t].at = "saving" /\ DOMAIN threads'[t] = DOMAIN threads[t]
      BY <2>1 DEF Shaped, Free
    <3>2. DOMAIN threads' = Threads /\ \A u \in Threads : u # t => threads'[u] = threads[u]
      BY <2>1 DEF Shaped
    <3> QED
      BY <1>1, <3>1, <3>2 DEF Steps, Shaped
  <2> QED
    BY <1>1, <1>4, <1>8, <2>1 DEF Warmup
<1>9. CASE Reply(t)
  BY <1>9 DEF Reply, Steps, Shaped, Free
<1> QED
  BY <1>1, <1>5, <1>7, <1>8, <1>9 DEF Serving

LEMMA DispatchSteps ==
    ASSUME Shaped, NEW t \in Threads, Dispatch(t)
    PROVE  LET m == threads[t].message
           IN  /\ Steps(t)
               /\ \/ /\ PostVerdict(m).kind = "call" /\ threads'[t].at = "called"
                     /\ threads'[t].call = [tool |-> m.name, args |-> m.args]
                  \/ PostVerdict(m).kind # "call" /\ threads'[t].at = "answering"
<1> DEFINE m == threads[t].message
<1>1. CASE /\ PostVerdict(m).kind = "call"
           /\ threads' = [threads EXCEPT
                 ![t].at = "called", ![t].message = None,
                 ![t].call = [tool |-> m.name, args |-> m.args]]
  <2>1. Steps(t)
    BY <1>1 DEF Steps, Shaped
  <2>2. threads'[t].at = "called" /\ threads'[t].call = [tool |-> m.name, args |-> m.args]
    BY <1>1 DEF Shaped, Free
  <2> QED
    BY <1>1, <2>1, <2>2
<1>2. CASE /\ PostVerdict(m).kind # "call"
           /\ Conclude(t, Answer(PostVerdict(m).kind, 0))
  BY <1>2, ConcludeSteps
<1> QED
  BY <1>1, <1>2 DEF Dispatch

LEMMA SendSteps ==
    ASSUME Shaped, NEW c \in Clients, Send(c)
    PROVE  \E t \in Threads :
              /\ Steps(t) /\ threads[t].at = "free" /\ threads'[t].at = "received"
              /\ threads'[t].message \in Messages[c]
<1>1. PICK t \in Threads, m \in Messages[c] :
         /\ threads[t].at = "free"
         /\ threads' = [threads EXCEPT
                ![t] = [Free EXCEPT !.at = "received", !.message = m,
                                    !.by = <<c, clients[c].sent + 1>>]]
  BY DEF Send
<1>2. Steps(t) /\ threads'[t].at = "received" /\ threads'[t].message = m
  BY <1>1 DEF Steps, Shaped, Free
<1> QED
  BY <1>1, <1>2

\* What a step is to the threads.
LEMMA StepOfThreads ==
    ASSUME Shaped, [Next]_vars
    PROVE  \/ UNCHANGED threads
           \/ threads' = [t \in Threads |-> Free]
           \/ \E c \in Clients : Send(c)
           \/ \E t \in Threads : Dispatch(t) \/ Serving(t)
<1>1. ASSUME NEW c \in Clients, GiveUp(c) PROVE UNCHANGED threads
  BY <1>1 DEF GiveUp
<1>2. ASSUME NEW r \in DOMAIN runs, RunEnds(r) PROVE UNCHANGED threads
  BY <1>2 DEF RunEnds
<1>3. CASE Restart
  BY <1>3 DEF Restart
<1>4. CASE UNCHANGED vars
  BY <1>4 DEF vars
<1> QED
  BY <1>1, <1>2, <1>3, <1>4 DEF Next, Serving

LEMMA MInvInit == Init => MInv
BY DEF Init, MInv, Shaped, Free

LEMMA MInvStep == MInv /\ [Next]_vars => MInv'
<1> SUFFICES ASSUME MInv, [Next]_vars PROVE MInv'
  OBVIOUS
<1>1. ASSUME NEW t \in Threads, Steps(t),
             threads'[t].at = "received" => Message(threads'[t].message)
      PROVE  MInv'
  BY <1>1 DEF Steps, MInv, Shaped
<1>2. CASE UNCHANGED threads
  BY <1>2 DEF MInv, Shaped
<1>3. CASE threads' = [t \in Threads |-> Free]
  BY <1>3 DEF MInv, Shaped, Free
<1>4. ASSUME NEW c \in Clients, Send(c) PROVE MInv'
  <2>1. PICK t \in Threads : Steps(t) /\ threads'[t].message \in Messages[c]
    BY <1>4, SendSteps DEF MInv
  <2> QED
    BY <1>1, <2>1, MessagesAssumption
<1>5. ASSUME NEW t \in Threads, Dispatch(t) PROVE MInv'
  <2>1. Steps(t) /\ threads'[t].at # "received"
    BY <1>5, DispatchSteps DEF MInv
  <2> QED
    BY <1>1, <2>1
<1>6. ASSUME NEW t \in Threads, Serving(t) PROVE MInv'
  BY <1>1, <1>6, ServingSteps DEF MInv
<1> QED
  BY <1>2, <1>3, <1>4, <1>5, <1>6, StepOfThreads DEF MInv

\* A thread leaves "received" to the tool or to an answer as the contract says.
Decided(t) ==
    LET m == threads[t].message
    IN  threads[t].at = "received" /\ threads'[t].at \notin {"received", "free"} =>
          /\ threads'[t].at = "called" <=> Contract(m)
          /\ threads'[t].at = "called" => threads'[t].call = [tool |-> m.name, args |-> m.args]

LEMMA StepIsDecided ==
    ASSUME MInv, [Next]_vars, NEW t \in Threads
    PROVE  Decided(t)
<1>1. ASSUME NEW u \in Threads, Steps(u), u # t PROVE Decided(t)
  BY <1>1 DEF Steps, Decided
<1>2. CASE UNCHANGED threads
  BY <1>2 DEF Decided
<1>3. CASE threads' = [u \in Threads |-> Free]
  BY <1>3 DEF Decided, Free
<1>4. ASSUME NEW c \in Clients, Send(c) PROVE Decided(t)
  <2>1. PICK u \in Threads : Steps(u) /\ threads[u].at = "free"
    BY <1>4, SendSteps DEF MInv
  <2> QED
    BY <1>1, <2>1 DEF Decided
<1>5. ASSUME NEW u \in Threads, Serving(u) PROVE Decided(t)
  <2>1. Steps(u) /\ threads[u].at # "received"
    BY <1>5, ServingSteps DEF MInv
  <2> QED
    BY <1>1, <2>1 DEF Decided
<1>6. ASSUME NEW u \in Threads, Dispatch(u) PROVE Decided(t)
  <2>1. CASE u # t
    BY <1>1, <1>6, <2>1, DispatchSteps DEF MInv
  <2>2. CASE u = t
    <3>1. threads[t].at = "received" /\ Message(threads[t].message)
      BY <1>6, <2>2 DEF Dispatch, MInv
    <3>2. PostVerdict(threads[t].message).kind = "call" <=> Contract(threads[t].message)
      BY <3>1, VerdictIsContract
    <3> QED
      BY <1>6, <2>2, <3>2, DispatchSteps DEF MInv, Decided
  <2> QED
    BY <2>1, <2>2
<1> QED
  BY <1>2, <1>3, <1>4, <1>5, <1>6, StepOfThreads DEF MInv

\* For every message of every client, in both profiles and between the steps of
\* all the others: its tool runs, with its arguments, exactly when the contract
\* asks for it (server.py do_POST, mcp.py handle and _handle_legacy).
THEOREM CallsAreContract == Spec => CallsMatchContract
<1>1. MInv /\ [Next]_vars => \A t \in Threads : Decided(t)
  BY StepIsDecided
<1>2. Spec => []MInv
  BY MInvInit, MInvStep, PTL DEF Spec
<1> QED
  BY <1>1, <1>2, PTL DEF Spec, CallsMatchContract, Decided

-----------------------------------------------------------------------------
(* Types                                                                   *)

Told == [kind : AnswerKinds, run : 0..MaxRuns]

\* A thread is of its type, and what it is about to answer too.
ThreadTyped(t) ==
    /\ DOMAIN threads[t] = DOMAIN Free
    /\ threads[t].at \in Places
    /\ threads[t].by \in {None} \cup (Clients \X Nat)
    /\ threads[t].by = None <=> threads[t].at = "free"
    /\ threads[t].message # None => threads[t].at = "received"
    /\ threads[t].answer # None <=> threads[t].at = "answering"
    /\ threads[t].at = "answering" => threads[t].answer \in Told
    /\ threads[t].run \in 0..MaxRuns

ClientsTyped ==
    /\ clients \in [Clients -> [sent : Nat, at : {"idle", "waiting", "gave_up", "told"},
                                told : {None} \cup Told]]
    /\ \A c \in Clients : clients[c].sent <= MaxSends[c]

RunsTyped ==
    /\ runs \in Seq([by : Clients \X Nat, live : BOOLEAN])
    /\ Len(runs) <= MaxRuns

TInv ==
    /\ ClientsTyped /\ RunsTyped
    /\ DOMAIN threads = Threads
    /\ \A t \in Threads : ThreadTyped(t)
    /\ submitLock \in Threads \cup {None}
    /\ faults \in 0..MaxFaults

LEMMA TInvImplies == TInv => TypeOK
BY DEF TInv, TypeOK, ClientsTyped, RunsTyped, ThreadTyped, Told

LEMMA TInvShapes == TInv => Shaped
BY DEF TInv, Shaped, ThreadTyped

LEMMA FreeTyped ==
    /\ Free.at = "free" /\ Free.by = None /\ Free.message = None
    /\ Free.answer = None /\ Free.run = 0
BY DEF Free

LEMMA ZeroRun == 0 \in 0..MaxRuns
BY BoundsAssumption

LEMMA TInvInit == Init => TInv
<1> SUFFICES ASSUME Init PROVE TInv
  OBVIOUS
<1>1. ClientsTyped
  <2>1. \A c \in Clients : clients[c] = [sent |-> 0, at |-> "idle", told |-> None]
    BY DEF Init
  <2> QED
    BY <2>1, BoundsAssumption DEF Init, ClientsTyped
<1>2. RunsTyped
  BY BoundsAssumption DEF Init, RunsTyped
<1>3. \A t \in Threads : threads[t] = Free
  BY DEF Init
<1>4. \A t \in Threads : ThreadTyped(t)
  BY <1>3, FreeTyped, ZeroRun DEF ThreadTyped, Places
<1> QED
  BY <1>1, <1>2, <1>4, BoundsAssumption DEF Init, TInv

LEMMA AnswersTyped ==
    ASSUME NEW kind \in AnswerKinds, NEW run \in 0..MaxRuns
    PROVE  Answer(kind, run) \in Told /\ Answer(kind, run) # None
BY NoneAssumption, BoundsAssumption DEF Answer, Told

\* A thread that concludes is of its type.
LEMMA ConcludeTyped ==
    ASSUME TInv, NEW t \in Threads, threads[t].at # "free",
           NEW kind \in AnswerKinds, NEW run \in 0..MaxRuns, Conclude(t, Answer(kind, run))
    PROVE  Steps(t) /\ ThreadTyped(t)' /\ submitLock' \in Threads \cup {None}
<1> DEFINE answer == Answer(kind, run)
<1>1. Steps(t)
  BY ConcludeSteps, TInvShapes
<1>2. answer \in Told /\ answer # None
  BY AnswersTyped
<1>3. threads[t].by \in Clients \X Nat /\ threads[t].by # None
  BY DEF TInv, ThreadTyped
<1>4. threads'[t] = [Free EXCEPT !.at = "answering", !.by = threads[t].by, !.answer = answer]
  BY DEF Conclude, TInv
<1> HIDE DEF answer
<1>5. /\ threads'[t].at = "answering" /\ threads'[t].by = threads[t].by
      /\ threads'[t].answer = answer /\ threads'[t].message = None /\ threads'[t].run = 0
      /\ DOMAIN threads'[t] = DOMAIN Free
  BY <1>4 DEF Free
<1>6. ThreadTyped(t)'
  BY <1>2, <1>3, <1>5, ZeroRun DEF ThreadTyped, Places
<1>7. submitLock' \in Threads \cup {None}
  BY DEF Conclude, TInv
<1> QED
  BY <1>1, <1>6, <1>7

\* A thread that goes on with its request is.
LEMMA OnwardTyped ==
    ASSUME TInv, NEW t \in Threads, threads[t].at \notin {"free", "answering"},
           Steps(t), threads'[t].at \in Places \ {"free", "received", "answering"},
           threads'[t].by = threads[t].by, threads'[t].answer = threads[t].answer,
           threads'[t].message = None, threads'[t].run \in 0..MaxRuns
    PROVE  ThreadTyped(t)'
BY DEF Steps, TInv, ThreadTyped

\* A step of one thread that keeps the rest of the types.
LEMMA OneThreadTyped ==
    ASSUME TInv, NEW t \in Threads, Steps(t), ThreadTyped(t)',
           submitLock' \in Threads \cup {None}, UNCHANGED faults,
           ClientsTyped', RunsTyped'
    PROVE  TInv'
<1>1. ASSUME NEW u \in Threads, u # t PROVE ThreadTyped(u)'
  BY <1>1 DEF TInv, ThreadTyped, Steps
<1> QED
  BY <1>1 DEF TInv, Steps

LEMMA SameTyped ==
    ASSUME TInv
    PROVE  (UNCHANGED clients => ClientsTyped') /\ (UNCHANGED runs => RunsTyped')
BY DEF TInv, ClientsTyped, RunsTyped

LEMMA DispatchTyped ==
    ASSUME TInv, NEW t \in Threads, Dispatch(t)
    PROVE  TInv'
<1> DEFINE m == threads[t].message
           kind == PostVerdict(m).kind
<1>1. Steps(t) /\ threads[t].at = "received"
  BY DispatchSteps, TInvShapes DEF Dispatch
<1>2. ClientsTyped' /\ RunsTyped' /\ UNCHANGED faults
  BY SameTyped DEF Dispatch
<1>3. CASE /\ threads' = [threads EXCEPT
                 ![t].at = "called", ![t].message = None,
                 ![t].call = [tool |-> m.name, args |-> m.args]]
           /\ UNCHANGED submitLock
  <2>1. /\ threads'[t].at = "called" /\ threads'[t].message = None
        /\ threads'[t].by = threads[t].by /\ threads'[t].answer = threads[t].answer
        /\ threads'[t].run = threads[t].run
    BY <1>3 DEF TInv, ThreadTyped, Free
  <2>2. threads[t].run \in 0..MaxRuns /\ submitLock' \in Threads \cup {None}
    BY <1>3 DEF TInv, ThreadTyped
  <2>3. ThreadTyped(t)'
    BY <1>1, <2>1, <2>2, OnwardTyped DEF Places
  <2> QED
    BY <1>1, <1>2, <2>2, <2>3, OneThreadTyped
<1>4. CASE kind # "call" /\ Conclude(t, Answer(kind, 0))
  <2>1. kind \in AnswerKinds
    BY <1>4, VerdictKind DEF VerdictKinds, AnswerKinds
  <2> HIDE DEF kind
  <2>2. ThreadTyped(t)' /\ submitLock' \in Threads \cup {None}
    BY <1>1, <1>4, <2>1, ConcludeTyped, ZeroRun
  <2> QED
    BY <1>1, <1>2, <2>2, OneThreadTyped
<1> QED
  BY <1>3, <1>4 DEF Dispatch

\* What concludes a request leaves the rest as it is.
LEMMA ConcludesTyped ==
    ASSUME TInv, NEW t \in Threads, threads[t].at # "free",
           NEW kind \in AnswerKinds, NEW run \in 0..MaxRuns, Conclude(t, Answer(kind, run)),
           UNCHANGED <<clients, faults>>, RunsTyped'
    PROVE  TInv'
BY ConcludeTyped, OneThreadTyped, SameTyped

LEMMA RaiseTyped ==
    ASSUME TInv, NEW t \in Threads, threads[t].at # "free", Raise(t),
           UNCHANGED <<clients, faults>>, RunsTyped'
    PROVE  TInv'
BY ConcludesTyped, ZeroRun DEF Raise, AnswerKinds

\* A thread that moves on.
LEMMA MoveTyped ==
    ASSUME TInv, NEW t \in Threads, threads[t].at \notin {"free", "received", "answering"},
           NEW place \in Places \ {"free", "received", "answering"}, MoveTo(t, place),
           submitLock' \in Threads \cup {None},
           UNCHANGED <<clients, faults>>, RunsTyped'
    PROVE  TInv'
<1>1. Steps(t)
  BY MoveToSteps, TInvShapes
<1>2. /\ threads'[t].at = place /\ threads'[t].message = threads[t].message
      /\ threads'[t].by = threads[t].by /\ threads'[t].answer = threads[t].answer
      /\ threads'[t].run = threads[t].run
  BY DEF MoveTo, TInv, ThreadTyped, Free
<1>3. threads[t].message = None /\ threads[t].run \in 0..MaxRuns
  BY DEF TInv, ThreadTyped
<1> QED
  BY <1>1, <1>2, <1>3, OnwardTyped, OneThreadTyped, SameTyped

\* A thread that moves on with something in its hands.
LEMMA CarryTyped ==
    ASSUME TInv, NEW t \in Threads, threads[t].at \notin {"free", "received", "answering"},
           submitLock' \in Threads \cup {None}, UNCHANGED <<clients, runs, faults>>, NEW x,
           \/ threads' = [threads EXCEPT ![t].at = "preflight", ![t].cq = x]
           \/ threads' = [threads EXCEPT ![t].at = "checking", ![t].seen = x]
           \/ x \in 0..MaxRuns /\ threads' = [threads EXCEPT ![t].at = "retaining", ![t].run = x]
    PROVE  TInv'
<1>1. Steps(t)
  BY TInvShapes DEF Steps, Shaped, Free
<1>2. /\ threads'[t].at \in {"preflight", "checking", "retaining"}
      /\ threads'[t].message = threads[t].message
      /\ threads'[t].by = threads[t].by /\ threads'[t].answer = threads[t].answer
      /\ threads'[t].run \in {threads[t].run} \cup 0..MaxRuns
  BY DEF TInv, ThreadTyped, Free
<1>3. threads[t].message = None /\ threads[t].run \in 0..MaxRuns
  BY DEF TInv, ThreadTyped
<1>4. ThreadTyped(t)'
  BY <1>1, <1>2, <1>3, OnwardTyped DEF Places
<1> QED
  BY <1>1, <1>4, OneThreadTyped, SameTyped

LEMMA BeginTyped ==
    ASSUME TInv, NEW t \in Threads, RejectArguments(t) \/ BeginPlan(t) \/ BeginSubmit(t)
    PROVE  TInv'
<1>1. threads[t].at = "called" /\ UNCHANGED <<clients, faults>> /\ RunsTyped'
  BY SameTyped DEF RejectArguments, BeginPlan, BeginSubmit, Call
<1>2. CASE RejectArguments(t)
  BY <1>1, <1>2, RaiseTyped DEF RejectArguments
<1>3. CASE BeginPlan(t)
  <2>1. MoveTo(t, "inspecting") /\ submitLock' \in Threads \cup {None}
    BY <1>3 DEF BeginPlan, TInv
  <2> QED
    BY <1>1, <2>1, MoveTyped DEF Places
<1>4. CASE BeginSubmit(t)
  <2>1. MoveTo(t, "counting") /\ submitLock' \in Threads \cup {None}
    BY <1>4 DEF BeginSubmit
  <2> QED
    BY <1>1, <2>1, MoveTyped DEF Places
<1> QED
  BY <1>2, <1>3, <1>4

LEMMA PlanTyped ==
    ASSUME TInv, NEW t \in Threads,
           CountActive(t) \/ Inspect(t) \/ Preflight(t) \/ Check(t) \/ AnswerPlan(t)
    PROVE  TInv'
<1>1. /\ threads[t].at \in {"counting", "inspecting", "preflight", "checking", "planned"}
      /\ UNCHANGED <<clients, runs, faults>> /\ RunsTyped'
  BY SameTyped DEF CountActive, Inspect, Preflight, Check, AnswerPlan
<1>2. CASE Raise(t)
  BY <1>1, <1>2, RaiseTyped
<1>3. ASSUME NEW place \in {"inspecting", "checking", "planned"}, MoveTo(t, place),
             UNCHANGED submitLock
      PROVE  TInv'
  <2>1. submitLock' \in Threads \cup {None} /\ place \in Places \ {"free", "received", "answering"}
    BY <1>3 DEF TInv, Places
  <2> QED
    BY <1>1, <1>3, <2>1, MoveTyped
<1>4. CASE CountActive(t) \/ Check(t)
  BY <1>2, <1>3, <1>4 DEF CountActive, Check
<1>5. ASSUME NEW x, UNCHANGED submitLock,
             \/ threads' = [threads EXCEPT ![t].at = "preflight", ![t].cq = x]
             \/ threads' = [threads EXCEPT ![t].at = "checking", ![t].seen = x]
      PROVE  TInv'
  <2>1. submitLock' \in Threads \cup {None}
    BY <1>5 DEF TInv
  <2> QED
    BY <1>1, <1>5, <2>1, CarryTyped
<1>6. CASE Inspect(t)
  BY <1>2, <1>5, <1>6 DEF Inspect
<1>7. CASE Preflight(t)
  BY <1>2, <1>3, <1>5, <1>7 DEF Preflight
<1>8. CASE AnswerPlan(t)
  <2>1. "result" \in AnswerKinds /\ Conclude(t, Answer("result", 0))
    BY <1>8 DEF AnswerKinds, AnswerPlan
  <2> QED
    BY <1>1, <2>1, ConcludesTyped, ZeroRun
<1> QED
  BY <1>4, <1>6, <1>7, <1>8

LEMMA AppendTyped ==
    ASSUME TInv, NEW t \in Threads, threads[t].at = "saving", Len(runs) < MaxRuns,
           runs' = Append(runs, [by |-> threads[t].by, live |-> TRUE])
    PROVE  RunsTyped'
<1> DEFINE S == [by : Clients \X Nat, live : BOOLEAN]
           new == [by |-> threads[t].by, live |-> TRUE]
<1>1. runs \in Seq(S) /\ MaxRuns \in Nat
  BY BoundsAssumption DEF TInv, RunsTyped
<1>2. threads[t].by \in Clients \X Nat
  BY DEF TInv, ThreadTyped
<1>3. new \in S
  BY <1>2
<1>4. runs' = Append(runs, new)
  OBVIOUS
<1> HIDE DEF S, new
<1>5. runs' \in Seq(S) /\ Len(runs') = Len(runs) + 1
  BY <1>1, <1>3, <1>4
<1>6. Len(runs) \in Nat
  BY <1>1
<1>7. Len(runs') <= MaxRuns
  BY <1>1, <1>5, <1>6
<1> QED
  BY <1>5, <1>7 DEF S, RunsTyped

LEMMA SubmitTyped ==
    ASSUME TInv, NEW t \in Threads, Warmup(t) \/ SaveRun(t) \/ StartAttempt(t) \/ Retain(t)
    PROVE  TInv'
<1>1. /\ threads[t].at \in {"planned", "saving", "starting", "retaining"}
      /\ UNCHANGED <<clients, faults>>
  BY DEF Warmup, SaveRun, StartAttempt, Retain
<1>2. ASSUME Raise(t), UNCHANGED runs PROVE TInv'
  BY <1>1, <1>2, RaiseTyped, SameTyped
<1>3. CASE Warmup(t)
  <2>1. CASE /\ threads' = [threads EXCEPT ![t].at = "saving", ![t].cq = None,
                                           ![t].seen = None, ![t].call = None]
             /\ UNCHANGED submitLock
    <3>1. /\ threads'[t].at = "saving" /\ threads'[t].message = threads[t].message
          /\ threads'[t].by = threads[t].by /\ threads'[t].answer = threads[t].answer
          /\ threads'[t].run = threads[t].run
      BY <2>1 DEF TInv, ThreadTyped, Free
    <3>2. DOMAIN threads'[t] = DOMAIN Free
      BY <2>1 DEF TInv, ThreadTyped
    <3>3. Steps(t)
      BY <2>1, <3>2 DEF Steps, TInv
    <3>4. threads[t].message = None /\ threads[t].run \in 0..MaxRuns
      BY <1>1 DEF TInv, ThreadTyped
    <3>5. ThreadTyped(t)'
      BY <1>1, <3>1, <3>3, <3>4, OnwardTyped DEF Places
    <3>6. submitLock' \in Threads \cup {None} /\ UNCHANGED runs
      BY <1>3, <2>1 DEF TInv, Warmup
    <3> QED
      BY <1>1, <3>3, <3>5, <3>6, OneThreadTyped, SameTyped
  <2> QED
    BY <1>2, <1>3, <2>1 DEF Warmup
<1>4. CASE SaveRun(t)
  <2>1. CASE /\ threads[t].at = "saving" /\ Len(runs) < MaxRuns
             /\ runs' = Append(runs, [by |-> threads[t].by, live |-> TRUE])
             /\ MoveTo(t, "starting")
             /\ UNCHANGED submitLock
    <3>1. submitLock' \in Threads \cup {None}
      BY <2>1 DEF TInv
    <3>2. RunsTyped'
      BY <2>1, AppendTyped
    <3> QED
      BY <1>1, <2>1, <3>1, <3>2, MoveTyped DEF Places
  <2> QED
    BY <1>2, <1>4, <2>1 DEF SaveRun
<1>5. CASE StartAttempt(t)
  <2>1. Len(runs) \in 0..MaxRuns
    BY DEF TInv, RunsTyped
  <2>2. CASE /\ threads' = [threads EXCEPT ![t].at = "retaining", ![t].run = Len(runs)]
             /\ submitLock' = None
             /\ UNCHANGED runs
    BY <1>1, <2>1, <2>2, CarryTyped
  <2> QED
    BY <1>2, <1>5, <2>2 DEF StartAttempt
<1>6. CASE Retain(t)
  <2>1. threads[t].run \in 0..MaxRuns /\ "result" \in AnswerKinds /\ RunsTyped'
    BY <1>6, SameTyped DEF TInv, ThreadTyped, AnswerKinds, Retain
  <2>2. CASE Conclude(t, Answer("result", threads[t].run))
    BY <1>1, <2>1, <2>2, ConcludesTyped
  <2> QED
    BY <1>2, <1>6, <2>2 DEF Retain
<1> QED
  BY <1>3, <1>4, <1>5, <1>6

\* A run that ends stays of its type.
LEMMA EndTyped ==
    ASSUME TInv, NEW r \in DOMAIN runs, runs' = [runs EXCEPT ![r].live = FALSE]
    PROVE  RunsTyped'
<1> DEFINE S == [by : Clients \X Nat, live : BOOLEAN]
           ended == [runs[r] EXCEPT !.live = FALSE]
<1>1. runs \in Seq(S) /\ Len(runs) <= MaxRuns
  BY DEF TInv, RunsTyped
<1>2. runs[r] \in S
  <2> HIDE DEF S
  <2> QED
    BY <1>1
<1>3. ended \in S
  BY <1>2
<1>4. runs' = [runs EXCEPT ![r] = ended]
  OBVIOUS
<1> HIDE DEF S, ended
<1>5. runs' \in Seq(S) /\ Len(runs') = Len(runs)
  <2>1. Len(runs) \in Nat /\ runs \in [1..Len(runs) -> S]
    BY <1>1
  <2>2. runs' \in [1..Len(runs) -> S]
    BY <1>3, <1>4, <2>1
  <2> QED
    BY <2>1, <2>2
<1> QED
  BY <1>1, <1>5 DEF S, RunsTyped

LEMMA OtherToolsTyped ==
    ASSUME TInv, NEW t \in Threads, Read(t) \/ CancelRun(t)
    PROVE  TInv'
<1>1. threads[t].at = "called" /\ UNCHANGED <<clients, faults>> /\ "result" \in AnswerKinds
  BY DEF Read, CancelRun, Call, AnswerKinds
<1>2. RunsTyped'
  BY SameTyped, EndTyped DEF Read, CancelRun, LiveRuns
<1>3. Raise(t) \/ Conclude(t, Answer("result", 0))
  BY DEF Read, CancelRun
<1> QED
  BY <1>1, <1>2, <1>3, RaiseTyped, ConcludesTyped, ZeroRun

\* What a client has sent and was told stays of its type.
LEMMA ClientTyped ==
    ASSUME TInv, NEW c \in Clients, NEW sent \in Nat, sent <= MaxSends[c],
           NEW at \in {"idle", "waiting", "gave_up", "told"}, NEW told \in {None} \cup Told,
           clients' = [clients EXCEPT ![c] = [sent |-> sent, at |-> at, told |-> told]]
    PROVE  ClientsTyped'
<1> DEFINE S == [sent : Nat, at : {"idle", "waiting", "gave_up", "told"},
                 told : {None} \cup Told]
           new == [sent |-> sent, at |-> at, told |-> told]
<1>1. new \in S /\ new.sent <= MaxSends[c]
  OBVIOUS
<1>2. clients \in [Clients -> S] /\ \A d \in Clients : clients[d].sent <= MaxSends[d]
  BY DEF TInv, ClientsTyped
<1>3. clients' = [clients EXCEPT ![c] = new]
  OBVIOUS
<1> HIDE DEF S, new
<1>4. clients' \in [Clients -> S]
  BY <1>1, <1>2, <1>3
<1>5. \A d \in Clients : clients'[d].sent <= MaxSends[d]
  BY <1>1, <1>2, <1>3
<1> QED
  BY <1>4, <1>5 DEF ClientsTyped, S

\* The parts of a client.
LEMMA ClientParts ==
    ASSUME TInv, NEW c \in Clients
    PROVE  /\ clients[c].sent \in Nat /\ clients[c].sent <= MaxSends[c]
           /\ clients[c].at \in {"idle", "waiting", "gave_up", "told"}
           /\ clients[c].told \in {None} \cup Told
           /\ clients[c] = [sent |-> clients[c].sent, at |-> clients[c].at,
                            told |-> clients[c].told]
BY DEF TInv, ClientsTyped

\* What a step changes of a client.
LEMMA ClientGivesUp ==
    ASSUME NEW old, NEW sent, NEW at, NEW told, NEW newAt,
           old = [sent |-> sent, at |-> at, told |-> told]
    PROVE  [old EXCEPT !.at = newAt] = [sent |-> sent, at |-> newAt, told |-> told]
OBVIOUS

LEMMA GivenUpTyped ==
    ASSUME TInv, NEW c \in Clients, clients' = [clients EXCEPT ![c].at = "gave_up"]
    PROVE  ClientsTyped'
<1>1. [clients[c] EXCEPT !.at = "gave_up"] =
         [sent |-> clients[c].sent, at |-> "gave_up", told |-> clients[c].told]
  <2>1. clients[c] = [sent |-> clients[c].sent, at |-> clients[c].at, told |-> clients[c].told]
    BY ClientParts
  <2> QED
    BY <2>1, ClientGivesUp
<1>2. clients' = [clients EXCEPT ![c] = [sent |-> clients[c].sent, at |-> "gave_up",
                                         told |-> clients[c].told]]
  BY <1>1
<1> QED
  BY <1>2, ClientParts, ClientTyped

LEMMA ToldTyped ==
    ASSUME TInv, NEW c \in Clients, NEW answer \in Told,
           clients' = [clients EXCEPT ![c].at = "told", ![c].told = answer]
    PROVE  ClientsTyped'
<1>1. clients[c] = [sent |-> clients[c].sent, at |-> clients[c].at, told |-> clients[c].told]
  BY ClientParts
<1>2. [clients[c] EXCEPT !.at = "told", !.told = answer] =
         [sent |-> clients[c].sent, at |-> "told", told |-> answer]
  <2> DEFINE old == clients[c]
             changed == [f \in {"sent", "at", "told"} |->
                            IF f = "told" THEN answer ELSE IF f = "at" THEN "told" ELSE old[f]]
  <2>1. old = [sent |-> clients[c].sent, at |-> clients[c].at, told |-> clients[c].told]
    BY <1>1
  <2>2. [sent |-> clients[c].sent, at |-> "told", told |-> answer] = changed
    OBVIOUS
  <2> HIDE DEF old
  <2>3. [old EXCEPT !.at = "told", !.told = answer] = changed
    BY <2>1
  <2> HIDE DEF changed
  <2> QED
    BY <2>2, <2>3 DEF old
<1> DEFINE new == [sent |-> clients[c].sent, at |-> "told", told |-> answer]
<1>3. DOMAIN clients = Clients /\ clients = [d \in Clients |-> clients[d]]
  BY DEF TInv, ClientsTyped
<1>4. clients' = [clients EXCEPT ![c] = new]
  <2>1. clients' = [d \in Clients |-> IF d = c THEN [clients[c] EXCEPT !.at = "told", !.told = answer]
                                     ELSE clients[d]]
    BY <1>3
  <2> HIDE DEF new
  <2>2. [clients EXCEPT ![c] = new] = [d \in Clients |-> IF d = c THEN new ELSE clients[d]]
    BY <1>3
  <2> QED
    BY <1>2, <2>1, <2>2 DEF new
<1> QED
  BY <1>4, ClientParts, ClientTyped

LEMMA SendTyped ==
    ASSUME TInv, NEW c \in Clients, Send(c)
    PROVE  TInv'
<1>1. PICK t \in Threads, m \in Messages[c] :
         /\ threads[t].at = "free"
         /\ threads' = [threads EXCEPT
                ![t] = [Free EXCEPT !.at = "received", !.message = m,
                                    !.by = <<c, clients[c].sent + 1>>]]
  BY DEF Send
<1>2. /\ threads'[t].at = "received" /\ threads'[t].by = <<c, clients[c].sent + 1>>
      /\ threads'[t].answer = None /\ threads'[t].run = 0
      /\ DOMAIN threads'[t] = DOMAIN Free
  BY <1>1 DEF TInv, Free
<1>3. Steps(t)
  BY <1>1, <1>2 DEF Steps, TInv
<1>4. clients[c].sent + 1 \in Nat /\ clients[c].sent + 1 <= MaxSends[c]
  <2>1. MaxSends[c] \in Nat
    BY BoundsAssumption
  <2>2. clients[c].sent \in Nat
    BY ClientParts
  <2>3. clients[c].sent < MaxSends[c]
    BY DEF Send
  <2> QED
    BY <2>1, <2>2, <2>3
<1>5. <<c, clients[c].sent + 1>> \in Clients \X Nat
  BY <1>4
<1>6. threads'[t].by \in Clients \X Nat /\ threads'[t].by # None
  BY <1>2, <1>5, NoneAssumption
<1>7. ThreadTyped(t)'
  BY <1>2, <1>6, ZeroRun DEF ThreadTyped, Places
<1>8. ClientsTyped'
  <2>1. clients' = [clients EXCEPT ![c] = [sent |-> clients[c].sent + 1, at |-> "waiting",
                                           told |-> None]]
    BY DEF Send
  <2> QED
    BY <1>4, <2>1, ClientTyped
<1>9. RunsTyped' /\ UNCHANGED faults /\ submitLock' \in Threads \cup {None}
  BY SameTyped DEF Send, TInv
<1> QED
  BY <1>3, <1>7, <1>8, <1>9, OneThreadTyped

LEMMA ReplyTyped ==
    ASSUME TInv, NEW t \in Threads, Reply(t)
    PROVE  TInv'
<1> DEFINE by == threads[t].by
           c == by[1]
<1>1. threads[t].at = "answering" /\ threads' = [threads EXCEPT ![t] = Free]
  BY DEF Reply
<1>2. Steps(t) /\ threads'[t] = Free
  BY <1>1 DEF Steps, TInv
<1>3. ThreadTyped(t)'
  BY <1>2, FreeTyped, ZeroRun DEF ThreadTyped, Places
<1>4. by \in Clients \X Nat /\ c \in Clients
  BY <1>1 DEF TInv, ThreadTyped
<1>5. \A answer \in Bounded(threads[t].answer) : answer \in Told
  <2>1. threads[t].answer \in Told
    BY <1>1 DEF TInv, ThreadTyped
  <2>2. Answer("too_large", 0) \in Told
    BY AnswersTyped, ZeroRun DEF AnswerKinds
  <2> QED
    BY <2>1, <2>2 DEF Bounded
<1>6. ClientsTyped'
  <2>1. CASE UNCHANGED clients
    BY <2>1, SameTyped
  <2>2. CASE clients' = [clients EXCEPT ![c].at = "gave_up"]
    BY <1>4, <2>2, GivenUpTyped
  <2>3. ASSUME NEW answer \in Bounded(threads[t].answer),
               clients' = [clients EXCEPT ![c].at = "told", ![c].told = answer]
        PROVE  ClientsTyped'
    BY <1>4, <1>5, <2>3, ToldTyped
  <2> QED
    BY <2>1, <2>2, <2>3 DEF Reply
<1>7. RunsTyped' /\ UNCHANGED faults /\ submitLock' \in Threads \cup {None}
  BY SameTyped DEF Reply, TInv
<1> QED
  BY <1>2, <1>3, <1>6, <1>7, OneThreadTyped

LEMMA RestTyped ==
    ASSUME TInv,
           \/ \E c \in Clients : GiveUp(c)
           \/ \E r \in DOMAIN runs : RunEnds(r)
           \/ Restart
    PROVE  TInv'
<1>1. ASSUME UNCHANGED threads PROVE \A t \in Threads : ThreadTyped(t)'
  BY <1>1 DEF TInv, ThreadTyped
<1>2. ASSUME NEW c \in Clients, GiveUp(c) PROVE TInv'
  <2>1. ClientsTyped'
    BY <1>2, GivenUpTyped DEF GiveUp
  <2>2. RunsTyped'
    BY <1>2, SameTyped DEF GiveUp
  <2> QED
    BY <1>1, <1>2, <2>1, <2>2 DEF TInv, GiveUp
<1>3. ASSUME NEW r \in DOMAIN runs, RunEnds(r) PROVE TInv'
  <2>1. RunsTyped'
    BY <1>3, EndTyped DEF RunEnds
  <2>2. ClientsTyped'
    BY <1>3, SameTyped DEF RunEnds
  <2> QED
    BY <1>1, <1>3, <2>1, <2>2 DEF TInv, RunEnds
<1>4. CASE Restart
  <2>1. \A t \in Threads : ThreadTyped(t)'
    <3>1. \A t \in Threads : threads'[t] = Free
      BY <1>4 DEF Restart
    <3> QED
      BY <3>1, FreeTyped, ZeroRun DEF ThreadTyped, Places
  <2>2. ClientsTyped'
    <3> DEFINE S == [sent : Nat, at : {"idle", "waiting", "gave_up", "told"},
                     told : {None} \cup Told]
               broken(c) == [clients[c] EXCEPT
                                !.at = IF @ = "waiting" THEN "gave_up" ELSE @]
    <3>1. ASSUME NEW c \in Clients
          PROVE  broken(c) \in S /\ broken(c).sent <= MaxSends[c]
      BY <3>1 DEF TInv, ClientsTyped
    <3>2. clients' = [c \in Clients |-> broken(c)]
      BY <1>4 DEF Restart
    <3> HIDE DEF S, broken
    <3>3. clients' \in [Clients -> S] /\ \A c \in Clients : clients'[c].sent <= MaxSends[c]
      BY <3>1, <3>2
    <3> QED
      BY <3>3 DEF ClientsTyped, S
  <2>3. RunsTyped'
    BY <1>4, SameTyped DEF Restart
  <2>4. faults' \in 0..MaxFaults
    BY <1>4, BoundsAssumption DEF TInv, Restart
  <2> QED
    BY <1>4, <2>1, <2>2, <2>3, <2>4 DEF TInv, Restart
<1> QED
  BY <1>2, <1>3, <1>4

LEMMA TInvStep == TInv /\ [Next]_vars => TInv'
<1> SUFFICES ASSUME TInv, [Next]_vars PROVE TInv'
  OBVIOUS
<1>1. CASE UNCHANGED vars
  BY <1>1 DEF vars, TInv, ClientsTyped, RunsTyped, ThreadTyped
<1>2. CASE Next
  BY <1>2, SendTyped, DispatchTyped, BeginTyped, PlanTyped, SubmitTyped, OtherToolsTyped,
     ReplyTyped, RestTyped DEF Next
<1> QED
  BY <1>1, <1>2

\* Every request is with one thread that is somewhere, an answer is one of those
\* a client can get and names a run that can be there, and the bounds hold, for any
\* number of clients, threads, messages and restarts.
THEOREM GatewayTyped == Spec => []TypeOK
<1>1. Spec => []TInv
  BY TInvInit, TInvStep, PTL DEF Spec
<1> QED
  BY <1>1, TInvImplies, PTL

-----------------------------------------------------------------------------
(* Plans are complete                                                      *)

\* A thread that plan_benchmark sends away had no request that one flavor
\* has enough for.
SentAway(t) ==
    LET args == threads[t].call.args
    IN  threads[t].at = "checking" /\ threads'[t].at = "answering" =>
          \/ args.target \notin Targets \/ args.profile \notin Profiles
          \/ args.model \notin ServedModels[args.target]
          \/ args.queue \notin AllowedQueues[args.target]
          \/ ~OneFlavorSuffices(threads[t].cq, args.queue)

LEMMA StepSendsAway ==
    ASSUME PlanInv, [Next]_vars, NEW t \in Threads
    PROVE  SentAway(t)
<1> SUFFICES ASSUME threads[t].at = "checking", threads'[t].at = "answering"
             PROVE  SentAway(t)
  BY DEF SentAway
<1>1. Shaped
  BY DEF PlanInv
<1>2. ASSUME NEW u \in Threads, Steps(u) PROVE u = t
  BY <1>2 DEF Steps
<1>3. CASE Check(t)
  <2> DEFINE args == threads[t].call.args
             cq == threads[t].cq
  <2>1. ~PlanAccepts(args, cq)
    <3>1. ~MoveTo(t, "planned")
      BY <1>1 DEF MoveTo, Shaped, Free
    <3> QED
      BY <1>3, <3>1 DEF Check
  <2>2. WellFormedQueue(cq)
    BY QueuesAssumption DEF PlanInv, Planning
  <2> HIDE DEF args, cq
  <2>3. OneFlavorSuffices(cq, args.queue) =>
           cq.active /\ Required \subseteq Covered(cq) /\ EligibleFlavors(cq, args.queue) # {}
    BY <2>2, OneFlavorIsEligible DEF OneFlavorSuffices
  <2>4. \/ args.target \notin Targets \/ args.profile \notin Profiles
        \/ args.model \notin ServedModels[args.target]
        \/ args.queue \notin AllowedQueues[args.target]
        \/ ~OneFlavorSuffices(cq, args.queue)
    BY <2>1, <2>3 DEF PlanAccepts
  <2> QED
    BY <2>4 DEF SentAway, args, cq
<1>4. CASE UNCHANGED threads
  BY <1>4
<1>5. CASE threads' = [u \in Threads |-> Free]
  BY <1>5 DEF Free
<1>6. ASSUME NEW c \in Clients, Send(c) PROVE FALSE
  <2>1. PICK u \in Threads : Steps(u) /\ threads[u].at = "free"
    BY <1>1, <1>6, SendSteps
  <2> QED
    BY <1>2, <2>1
<1>7. ASSUME NEW u \in Threads, Dispatch(u) PROVE FALSE
  <2>1. Steps(u) /\ threads[u].at = "received"
    BY <1>1, <1>7, DispatchSteps DEF Dispatch
  <2> QED
    BY <1>2, <2>1
<1>8. ASSUME NEW u \in Threads, Serving(u) PROVE Check(t)
  <2>1. u = t
    BY <1>1, <1>2, <1>8, ServingSteps
  <2> QED
    BY <1>8, <2>1 DEF Serving, RejectArguments, BeginPlan, BeginSubmit, CountActive, Inspect,
       Preflight, AnswerPlan, Warmup, SaveRun, StartAttempt, Retain, Read, CancelRun, Reply,
       Call
<1> QED
  BY <1>1, <1>3, <1>4, <1>5, <1>6, <1>7, <1>8, StepOfThreads

\* plan_benchmark refuses no request, among what the operator configured, that one
\* flavor of one group has enough for, for every well-formed ClusterQueue.
THEOREM PlansAreComplete == Spec => PlanIsComplete
<1>1. PlanInv /\ [Next]_vars => \A t \in Threads : SentAway(t)
  BY StepSendsAway
<1>2. Spec => []PlanInv
  BY PlanInvInit, PlanInvStep, PTL DEF Spec
<1> QED
  BY <1>1, <1>2, PTL DEF Spec, PlanIsComplete, SentAway
=============================================================================
