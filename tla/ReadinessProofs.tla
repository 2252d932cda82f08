--------------------------- MODULE ReadinessProofs ---------------------------
(***************************************************************************)
(* Readiness, for any queues, runs and threshold and any number of         *)
(* restarts: types, and that the service is ready only when everything was *)
(* verified.                                                               *)
(***************************************************************************)
EXTENDS Readiness, TLAPS

-----------------------------------------------------------------------------
(* Types                                                                   *)

LEMMA NeededOf ==
    /\ Needed["check"] = Checked /\ Needed["pass"] = Range(Runs)
    /\ \A l \in Loops : Needed[l] \subseteq Dependencies
BY DEF Needed, Loops, Dependencies

LEMMA RunsTyped == Len(Runs) \in Nat /\ DOMAIN Runs = 1..Len(Runs)
BY ReadinessAssumption

LEMMA StartTyped ==
    /\ Idle \in [at : {"waiting", "storage", "kubernetes", "queues", "prometheus"},
                 queues : SUBSET Queues, inactive : BOOLEAN]
    /\ [l \in Loops |-> FALSE] \in [Loops -> BOOLEAN]
    /\ 0 \in 0..FailureThreshold /\ 0 \in 0..(Len(Runs) + 1)
<1>1. [l \in Loops |-> FALSE] \in [Loops -> BOOLEAN]
  BY Zenon
<1> QED
  BY <1>1, RunsTyped, ReadinessAssumption DEF Idle

LEMMA TypeInit == Init => TypeOK
BY StartTyped DEF Init, TypeOK, Dependencies

\* Both loops' records move as these three do, or not at all.
LEMMA HistoryTyped ==
    ASSUME TypeOK, NEW l \in Loops, NEW healthy \in BOOLEAN,
           Begin(l) \/ End(l, healthy)
    PROVE  /\ DOMAIN since' = Loops /\ \A k \in Loops : since'[k] \subseteq Needed[k]
           /\ verified' \in [Loops -> BOOLEAN]
<1>1. CASE Begin(l)
  BY <1>1 DEF Begin, TypeOK
<1>2. CASE End(l, healthy)
  <2> DEFINE all == healthy /\ Needed[l] \subseteq since[l]
  <2>1. all \in BOOLEAN
    OBVIOUS
  <2>2. verified' = [verified EXCEPT ![l] = all] /\ since' = [since EXCEPT ![l] = {}]
    BY <1>2 DEF End
  <2> HIDE DEF all
  <2> QED
    BY <2>1, <2>2 DEF TypeOK
<1> QED
  BY <1>1, <1>2

LEMMA CheckTyped ==
    ASSUME TypeOK,
           \/ \E healthy \in BOOLEAN : Publish(healthy)
           \/ \E next : Continue(next) /\ next \in [at : {"storage", "kubernetes", "queues",
                            "prometheus"}, queues : SUBSET Queues, inactive : BOOLEAN]
    PROVE  /\ check' \in [at : {"waiting", "storage", "kubernetes", "queues", "prometheus"},
                          queues : SUBSET Queues, inactive : BOOLEAN]
           /\ published' \in BOOLEAN
           /\ DOMAIN since' = Loops /\ \A l \in Loops : since'[l] \subseteq Needed[l]
           /\ verified' \in [Loops -> BOOLEAN]
<1>1. ASSUME NEW healthy \in BOOLEAN, Publish(healthy)
      PROVE  /\ check' = Idle /\ published' \in BOOLEAN /\ End("check", healthy)
  BY <1>1 DEF Publish
<1>2. CASE \E healthy \in BOOLEAN : Publish(healthy)
  <2>0. PICK healthy \in BOOLEAN : Publish(healthy)
    BY <1>2
  <2>1. /\ check' = Idle /\ published' \in BOOLEAN /\ End("check", healthy)
        /\ "check" \in Loops
    BY <1>1, <2>0 DEF Loops
  <2> QED
    BY <2>1, HistoryTyped DEF Idle
<1>3. CASE ~\E healthy \in BOOLEAN : Publish(healthy)
  BY <1>3 DEF Continue, TypeOK
<1> QED
  BY <1>2, <1>3

LEMMA TypeStep == TypeOK /\ [Next]_vars => TypeOK'
<1> SUFFICES ASSUME TypeOK, [Next]_vars PROVE TypeOK'
  OBVIOUS
<1> USE DEF world, loops, probe
<1>1. ASSUME NEW d \in Dependencies, Break(d) PROVE TypeOK'
  BY <1>1 DEF Break, TypeOK
<1>2. ASSUME NEW d \in Dependencies, Recover(d) PROVE TypeOK'
  BY <1>2 DEF Recover, TypeOK
<1>3. CASE Hang
  BY <1>3 DEF Hang, TypeOK
<1>4. ASSUME StartOver PROVE TypeOK'
  BY <1>4, StartTyped DEF StartOver, TypeOK
<1>5. CASE Restart \/ CutStart
  BY <1>5, <1>4 DEF Restart, CutStart
<1>6. CASE BeginPass
  <2>1. pass' \in 0..(Len(Runs) + 1)
    BY <1>6, RunsTyped DEF BeginPass
  <2>2. TRUE \in BOOLEAN /\ "pass" \in Loops
    BY DEF Loops
  <2>3. /\ DOMAIN since' = Loops /\ \A l \in Loops : since'[l] \subseteq Needed[l]
        /\ verified' \in [Loops -> BOOLEAN]
    BY <1>6, <2>2, HistoryTyped DEF BeginPass
  <2> QED
    BY <1>6, <2>1, <2>3 DEF BeginPass, TypeOK
<1>a. CASE Visit
  <2>1. pass' \in 0..(Len(Runs) + 1)
    BY <1>a, RunsTyped DEF Visit
  <2> QED
    BY <1>a, <2>1 DEF Visit, TypeOK
<1>b. CASE VisitRaises
  <2>1. CASE StartOver
    BY <2>1, <1>4
  <2>2. CASE ~StartOver
    <3>1. /\ pass' = 0 /\ reconciled' = FALSE /\ End("pass", FALSE)
          /\ UNCHANGED <<world, serving, check, published, probe>>
      BY <1>b, <2>2 DEF VisitRaises
    <3>2. FALSE \in BOOLEAN /\ "pass" \in Loops
      BY DEF Loops
    <3>3. /\ DOMAIN since' = Loops /\ \A l \in Loops : since'[l] \subseteq Needed[l]
          /\ verified' \in [Loops -> BOOLEAN]
      BY <3>1, <3>2, HistoryTyped
    <3> QED
      BY <3>1, <3>3, StartTyped DEF TypeOK
  <2> QED
    BY <2>1, <2>2
<1>7. CASE EndPass
  <2>1. /\ pass' = 0 /\ serving' = TRUE /\ reconciled' = TRUE /\ End("pass", TRUE)
        /\ UNCHANGED <<world, check, published, probe>>
    BY <1>7 DEF EndPass
  <2>2. TRUE \in BOOLEAN /\ "pass" \in Loops
    BY DEF Loops
  <2>3. /\ DOMAIN since' = Loops /\ \A l \in Loops : since'[l] \subseteq Needed[l]
        /\ verified' \in [Loops -> BOOLEAN]
    BY <2>1, <2>2, HistoryTyped
  <2> QED
    BY <2>1, <2>3, StartTyped DEF TypeOK
<1>8. CASE BeginCheck
  BY <1>8, HistoryTyped DEF BeginCheck, TypeOK, Loops
<1>9. ASSUME NEW next, Continue(next),
             next \in [at : {"storage", "kubernetes", "queues", "prometheus"},
                       queues : SUBSET Queues, inactive : BOOLEAN],
             UNCHANGED <<world, serving, pass, reconciled, probe>>
      PROVE  TypeOK'
  BY <1>9, CheckTyped DEF TypeOK
<1>10. ASSUME NEW healthy \in BOOLEAN, Publish(healthy),
              UNCHANGED <<world, serving, pass, reconciled, probe>>
       PROVE  TypeOK'
  BY <1>10, CheckTyped DEF TypeOK
<1>11. CASE CheckStorage
  BY <1>11, <1>9, <1>10 DEF CheckStorage, TypeOK
<1>12. CASE CheckKubernetes
  BY <1>12, <1>9, <1>10 DEF CheckKubernetes, TypeOK
<1>13. ASSUME NEW q \in Queues, CheckQueue(q) PROVE TypeOK'
  BY <1>13, <1>9, <1>10 DEF CheckQueue, TypeOK
<1>14. CASE AllActive
  BY <1>14, <1>9, <1>10 DEF AllActive, TypeOK
<1>15. CASE CheckPrometheus
  <2>1. ("prometheus" \in good) \in BOOLEAN
    OBVIOUS
  <2> QED
    BY <1>15, <1>10, <2>1 DEF CheckPrometheus
<1>16. CASE Probe
  <2>1. misses' \in 0..FailureThreshold
    BY <1>16, ReadinessAssumption DEF Probe, TypeOK
  <2>2. routed' \in BOOLEAN
    BY <1>16 DEF Probe, TypeOK
  <2> QED
    BY <1>16, <2>1, <2>2 DEF Probe, TypeOK
<1>17. CASE UNCHANGED vars
  BY <1>17 DEF vars, TypeOK
<1> QED
  BY <1>1, <1>2, <1>3, <1>5, <1>6, <1>a, <1>b, <1>7, <1>8, <1>11, <1>12, <1>13, <1>14, <1>15,
     <1>16, <1>17 DEF Next, World, CheckStep, PassStep

\* Every value a variable of Readiness takes is one of its type, for any queues,
\* runs, threshold and restarts (server.py, controller.py readiness).
THEOREM ReadinessTyped == Spec => []TypeOK
BY TypeInit, TypeStep, PTL DEF Spec

-----------------------------------------------------------------------------
(* Ready was verified                                                      *)

\* What the check has read so far; one that found a queue inactive only reads on
\* to publish that.
ReadSoFar ==
    CASE check.at = "kubernetes" -> {"storage"}
      [] check.at = "queues" ->
            {"storage", "kubernetes"} \cup
            (IF check.inactive THEN {} ELSE Queues \ check.queues)
      [] check.at = "prometheus" -> {"storage", "kubernetes"} \cup Queues
      [] OTHER -> {}

VInv ==
    /\ TypeOK
    /\ \A l \in Loops : Busy(l) => good \cap Needed[l] \subseteq since[l]
    /\ ReadSoFar \subseteq since["check"]
    /\ check.at \in {"storage", "kubernetes"} => check.queues = Queues
    /\ \A i \in DOMAIN Runs : i < pass => Runs[i] \in since["pass"]
    /\ ~serving => ~published /\ check.at = "waiting"
    /\ published => verified["check"]
    /\ serving /\ reconciled => verified["pass"]

LEMMA VInvInit == Init => VInv
<1> SUFFICES ASSUME Init PROVE VInv
  OBVIOUS
<1>1. TypeOK
  BY TypeInit
<1>2. \A i \in DOMAIN Runs : ~(i < pass)
  BY RunsTyped DEF Init
<1> QED
  BY <1>1, <1>2 DEF Init, VInv, Busy, ReadSoFar, Idle, Loops

\* A check that ends without an answer, or with an answer it has reason for.
LEMMA PublishVerified ==
    ASSUME VInv, TypeOK', NEW healthy \in BOOLEAN, Publish(healthy), serving,
           healthy => Checked \subseteq since["check"],
           UNCHANGED <<world, serving, pass, reconciled, probe>>
    PROVE  VInv'
<1>1. /\ check'.at = "waiting" /\ since'["check"] = {} /\ since'["pass"] = since["pass"]
      /\ verified'["check"] = (healthy /\ Checked \subseteq since["check"])
      /\ verified'["pass"] = verified["pass"] /\ published' = healthy
  BY NeededOf DEF Publish, End, Idle, VInv, TypeOK, Loops
<1>2. published' => verified'["check"]
  BY <1>1
<1>3. \A l \in Loops : Busy(l)' => good' \cap Needed[l] \subseteq since'[l]
  BY <1>1 DEF Busy, VInv, Loops, world
<1>4. ReadSoFar' \subseteq since'["check"]
  BY <1>1 DEF ReadSoFar
<1>5. /\ (~serving => ~published /\ check.at = "waiting")'
      /\ (\A i \in DOMAIN Runs : i < pass => Runs[i] \in since["pass"])'
  BY <1>1 DEF VInv
<1>6. (serving /\ reconciled => verified["pass"])'
  BY <1>1 DEF VInv
<1> QED
  BY <1>1, <1>2, <1>3, <1>4, <1>5, <1>6 DEF VInv

\* A check that reads on.
LEMMA ContinueVerified ==
    ASSUME VInv, TypeOK', NEW next, Continue(next), check.at # "waiting", serving,
           ReadSoFar' \subseteq since["check"],
           check'.at \in {"storage", "kubernetes"} => check'.queues = Queues,
           UNCHANGED <<world, serving, pass, reconciled, probe>>
    PROVE  VInv'
BY DEF Continue, VInv, Busy, Loops, world

LEMMA VInvStep == VInv /\ [Next]_vars => VInv'
<1> SUFFICES ASSUME VInv, [Next]_vars PROVE VInv'
  OBVIOUS
<1>t. TypeOK /\ TypeOK'
  BY TypeStep DEF VInv
<1>r. /\ check.at \in {"waiting", "storage", "kubernetes", "queues", "prometheus"}
      /\ check.at # "waiting" =>
            serving /\ good \cap Checked \subseteq since["check"]
      /\ "check" \in Loops /\ "pass" \in Loops
  BY <1>t, NeededOf DEF VInv, TypeOK, Busy, Loops
<1> USE DEF world, loops, probe
<1>1. ASSUME NEW d \in Dependencies, Break(d) PROVE VInv'
  BY <1>t, <1>1 DEF Break, VInv, Busy, ReadSoFar
<1>2. ASSUME NEW d \in Dependencies, Recover(d) PROVE VInv'
  <2>1. \A l \in Loops : /\ Busy(l)' = Busy(l) /\ since[l] \subseteq since'[l]
                         /\ Busy(l) => {d} \cap Needed[l] \subseteq since'[l]
    BY <1>2 DEF Recover, Busy
  <2>2. \A l \in Loops : Busy(l)' => good' \cap Needed[l] \subseteq since'[l]
    BY <1>2, <2>1 DEF Recover, VInv
  <2>3. ReadSoFar' \subseteq since'["check"]
    BY <1>2, <1>r, <2>1 DEF Recover, VInv, ReadSoFar
  <2>4. \A i \in DOMAIN Runs : i < pass' => Runs[i] \in since'["pass"]
    BY <1>2, <1>r, <2>1 DEF Recover, VInv
  <2> QED
    BY <1>t, <1>2, <2>2, <2>3, <2>4 DEF Recover, VInv
<1>3. CASE Hang
  BY <1>t, <1>3 DEF Hang, VInv, Busy, ReadSoFar
<1>4. ASSUME StartOver PROVE VInv'
  <2>1. \A l \in Loops : since'[l] = {} /\ ~Busy(l)'
    BY <1>4 DEF StartOver, Busy, Idle
  <2>2. ~serving' /\ ~published' /\ pass' = 0 /\ check'.at = "waiting"
    BY <1>4 DEF StartOver, Idle
  <2>3. \A i \in DOMAIN Runs : ~(i < pass')
    BY <2>2, RunsTyped
  <2> QED
    BY <1>t, <2>1, <2>2, <2>3 DEF VInv, ReadSoFar
<1>5. CASE Restart \/ CutStart
  BY <1>5, <1>4 DEF Restart, CutStart
<1>6. CASE BeginPass
  <2>1. since'["pass"] = good \cap Needed["pass"] /\ since'["check"] = since["check"]
    BY <1>t, <1>6, <1>r DEF BeginPass, Begin, TypeOK, Loops
  <2>2. \A l \in Loops : Busy(l)' => good' \cap Needed[l] \subseteq since'[l]
    BY <1>6, <2>1 DEF BeginPass, Busy, VInv, Loops
  <2>3. \A i \in DOMAIN Runs : ~(i < pass')
    BY <1>6, RunsTyped DEF BeginPass
  <2> QED
    BY <1>t, <1>6, <2>1, <2>2, <2>3 DEF BeginPass, Begin, VInv, ReadSoFar
<1>a. CASE Visit
  <2>1. Runs[pass] \in since["pass"]
    <3>1. Busy("pass") /\ Runs[pass] \in good \cap Needed["pass"]
      BY <1>a, NeededOf, RunsTyped DEF Visit, Busy, Range
    <3> QED
      BY <3>1, <1>r DEF VInv
  <2>2. pass \in 1..Len(Runs) /\ pass' = pass + 1 /\ since' = since
    BY <1>a, RunsTyped DEF Visit
  <2>3. \A i \in DOMAIN Runs : i < pass' => Runs[i] \in since'["pass"]
    <3> SUFFICES ASSUME NEW i \in DOMAIN Runs, i < pass' PROVE Runs[i] \in since["pass"]
      BY <2>2
    <3>1. i < pass \/ i = pass
      BY <2>2, RunsTyped
    <3> QED
      BY <2>1, <3>1 DEF VInv
  <2>4. \A l \in Loops : Busy(l)' => Busy(l)
    BY <1>a, <2>2 DEF Visit, Busy
  <2> QED
    BY <1>t, <1>a, <2>3, <2>4 DEF Visit, VInv, ReadSoFar
<1>b. CASE VisitRaises
  <2>1. CASE StartOver
    BY <2>1, <1>4
  <2>2. CASE ~StartOver
    <3>1. /\ serving /\ pass' = 0 /\ reconciled' = FALSE /\ End("pass", FALSE)
          /\ UNCHANGED <<world, serving, check, published, probe>>
      BY <1>b, <2>2 DEF VisitRaises
    <3>2. verified'["check"] = verified["check"] /\ since'["check"] = since["check"]
      BY <1>t, <3>1, <1>r DEF End, TypeOK, Loops
    <3>3. \A l \in Loops : Busy(l)' => good' \cap Needed[l] \subseteq since'[l]
      BY <3>1, <3>2 DEF Busy, VInv, Loops
    <3>4. \A i \in DOMAIN Runs : ~(i < pass')
      BY <3>1, RunsTyped
    <3>5. ReadSoFar' = ReadSoFar
      BY <3>1 DEF ReadSoFar
    <3> QED
      BY <1>t, <3>1, <3>2, <3>3, <3>4, <3>5 DEF VInv
  <2> QED
    BY <2>1, <2>2
<1>7. CASE EndPass
  <2>1. /\ pass = Len(Runs) + 1 /\ pass' = 0 /\ serving' /\ End("pass", TRUE)
        /\ UNCHANGED <<world, check, published, probe>>
    BY <1>7 DEF EndPass
  <2>2. Range(Runs) \subseteq since["pass"]
    BY <2>1, RunsTyped DEF VInv, Range
  <2>3. /\ verified'["pass"] = (Range(Runs) \subseteq since["pass"])
        /\ verified'["check"] = verified["check"] /\ since'["check"] = since["check"]
    BY <1>t, <2>1, <1>r, NeededOf DEF End, TypeOK, Loops
  <2>4. \A l \in Loops : Busy(l)' => good' \cap Needed[l] \subseteq since'[l]
    BY <2>1, <2>3 DEF Busy, VInv, Loops
  <2>5. \A i \in DOMAIN Runs : ~(i < pass')
    BY <2>1, RunsTyped
  <2>6. ReadSoFar' = ReadSoFar
    BY <2>1 DEF ReadSoFar
  <2> QED
    BY <1>t, <2>1, <2>2, <2>3, <2>4, <2>5, <2>6 DEF VInv
<1>8. CASE BeginCheck
  <2>1. since'["check"] = good \cap Needed["check"] /\ since'["pass"] = since["pass"]
    BY <1>t, <1>8, <1>r DEF BeginCheck, Begin, TypeOK, Loops
  <2>2. \A l \in Loops : Busy(l)' => good' \cap Needed[l] \subseteq since'[l]
    BY <1>8, <2>1 DEF BeginCheck, Busy, VInv, Loops
  <2>3. ReadSoFar' = {}
    BY <1>8 DEF BeginCheck, ReadSoFar
  <2> QED
    BY <1>t, <1>8, <2>1, <2>2, <2>3 DEF BeginCheck, Begin, VInv
<1>9. ASSUME NEW healthy \in BOOLEAN, Publish(healthy), check.at # "waiting",
             healthy => Checked \subseteq since["check"],
             UNCHANGED <<world, serving, pass, reconciled, probe>>
      PROVE  VInv'
  BY <1>t, <1>r, <1>9, PublishVerified
<1>10. ASSUME NEW next, Continue(next), check.at # "waiting",
              ReadSoFar' \subseteq since["check"],
              check'.at \in {"storage", "kubernetes"} => check'.queues = Queues,
              UNCHANGED <<world, serving, pass, reconciled, probe>>
       PROVE  VInv'
  BY <1>t, <1>r, <1>10, ContinueVerified
<1>11. CASE CheckStorage
  <2>1. CASE "storage" \in good
    <3>1. /\ check' = [check EXCEPT !.at = "kubernetes"]
          /\ check'.at = "kubernetes" /\ check'.queues = Queues
      BY <1>t, <1>11, <2>1 DEF CheckStorage, Continue, TypeOK, VInv
    <3>2. ReadSoFar' = {"storage"}
      BY <3>1 DEF ReadSoFar
    <3>3. ReadSoFar' \subseteq since["check"]
      BY <1>r, <1>11, <2>1, <3>2 DEF CheckStorage, Checked
    <3> QED
      BY <1>10, <1>11, <2>1, <3>1, <3>3 DEF CheckStorage
  <2>2. CASE "storage" \notin good
    BY <1>9, <1>11, <2>2 DEF CheckStorage
  <2> QED
    BY <2>1, <2>2
<1>12. CASE CheckKubernetes
  <2>1. CASE "kubernetes" \in good
    <3>1. /\ check' = [check EXCEPT !.at = "queues"]
          /\ check'.at = "queues" /\ check'.queues = Queues
      BY <1>t, <1>12, <2>1 DEF CheckKubernetes, Continue, TypeOK, VInv
    <3>2. ReadSoFar' \subseteq {"storage", "kubernetes"}
      BY <3>1 DEF ReadSoFar
    <3>3. "storage" \in since["check"] /\ "kubernetes" \in since["check"]
      BY <1>r, <1>12, <2>1 DEF CheckKubernetes, Checked, VInv, ReadSoFar
    <3> QED
      BY <1>10, <1>12, <2>1, <3>1, <3>2, <3>3 DEF CheckKubernetes
  <2>2. CASE "kubernetes" \notin good
    BY <1>9, <1>12, <2>2 DEF CheckKubernetes
  <2> QED
    BY <2>1, <2>2
<1>13. ASSUME NEW q \in Queues, CheckQueue(q) PROVE VInv'
  <2>1. /\ check.at = "queues" /\ q \in check.queues
        /\ {"storage", "kubernetes"} \subseteq since["check"]
        /\ ~check.inactive => Queues \ check.queues \subseteq since["check"]
    BY <1>13 DEF CheckQueue, VInv, ReadSoFar
  <2>2. CASE q \in good /\ Continue([check EXCEPT !.queues = @ \ {q}])
    <3>1. /\ check'.at = "queues" /\ check'.queues = check.queues \ {q}
          /\ check'.inactive = check.inactive
      BY <1>t, <2>1, <2>2 DEF Continue, TypeOK
    <3>2. q \in since["check"]
      BY <1>r, <2>1, <2>2 DEF Checked
    <3>3. ReadSoFar' \subseteq since["check"]
      BY <2>1, <3>1, <3>2 DEF ReadSoFar
    <3> QED
      BY <1>10, <1>13, <2>1, <2>2, <3>1, <3>3 DEF CheckQueue
  <2>3. CASE q \notin good /\ Publish(FALSE)
    BY <1>9, <1>13, <2>1, <2>3 DEF CheckQueue
  <2>4. CASE q \notin good /\ Continue([check EXCEPT !.queues = @ \ {q}, !.inactive = TRUE])
    <3>1. check'.at = "queues" /\ check'.inactive
      BY <1>t, <2>1, <2>4 DEF Continue, TypeOK
    <3>2. ReadSoFar' \subseteq since["check"]
      BY <2>1, <3>1 DEF ReadSoFar
    <3> QED
      BY <1>10, <1>13, <2>1, <2>4, <3>1, <3>2 DEF CheckQueue
  <2> QED
    BY <1>13, <2>2, <2>3, <2>4 DEF CheckQueue
<1>14. CASE AllActive
  <2>1. check.at = "queues" /\ check.queues = {}
    BY <1>14 DEF AllActive
  <2>2. CASE check.inactive
    BY <1>9, <1>14, <2>1, <2>2 DEF AllActive
  <2>3. CASE ~check.inactive
    <3>1. check'.at = "prometheus"
      BY <1>t, <1>14, <2>3 DEF AllActive, Continue, TypeOK
    <3>2. ReadSoFar' \subseteq since["check"]
      BY <2>1, <2>3, <3>1 DEF ReadSoFar, VInv
    <3> QED
      BY <1>10, <1>14, <2>1, <2>3, <3>1, <3>2 DEF AllActive
  <2> QED
    BY <2>2, <2>3
<1>15. CASE CheckPrometheus
  <2> DEFINE healthy == "prometheus" \in good
  <2>1. check.at = "prometheus"
    BY <1>15 DEF CheckPrometheus
  <2>2. healthy \in BOOLEAN
    OBVIOUS
  <2>3. {"storage", "kubernetes"} \cup Queues \subseteq since["check"]
    BY <2>1 DEF VInv, ReadSoFar
  <2>4. healthy => Checked \subseteq since["check"]
    BY <1>r, <2>1, <2>3 DEF Checked
  <2>5. Publish(healthy)
    BY <1>15 DEF CheckPrometheus
  <2>6. check.at # "waiting"
    BY <2>1
  <2> HIDE DEF healthy
  <2> QED
    BY <1>9, <1>15, <2>4, <2>5, <2>6, <2>2 DEF CheckPrometheus
<1>16. CASE Probe
  BY <1>t, <1>16 DEF Probe, VInv, Busy, ReadSoFar
<1>17. CASE UNCHANGED vars
  BY <1>t, <1>17 DEF vars, VInv, Busy, ReadSoFar
<1> QED
  BY <1>1, <1>2, <1>3, <1>5, <1>6, <1>a, <1>b, <1>7, <1>8, <1>11, <1>12, <1>13, <1>14, <1>15,
     <1>16, <1>17 DEF Next, World, CheckStep, PassStep

\* The service is ready only when everything it depends on was in order during
\* the last check and the last pass, for any queues and runs, however things break
\* and recover between the reads and visits (server.py do_GET, controller.py
\* readiness).
THEOREM ReadyIsVerified == Spec => []ReadyWasVerified
<1>1. VInv => ReadyWasVerified
  BY DEF VInv, ReadyWasVerified, Ready
<1> QED
  BY VInvInit, VInvStep, <1>1, PTL DEF Spec
=============================================================================
