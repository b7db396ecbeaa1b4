------------------------ MODULE RegistrationProofs ------------------------
(***************************************************************************)
(* Proofs about Registration, for any number of processes, any budget and  *)
(* target, any responses, and without the bound on the runs.               *)
(*                                                                         *)
(* The overrun of the budget needs no induction on it: a process that      *)
(* passes the check sees fewer rows than the budget, and at most all       *)
(* processes are past their check then.                                    *)
(***************************************************************************)
EXTENDS Registration, FiniteSetTheorems, TLAPS

(* Every run has a job, and only an import reads a document.               *)
RunsHaveJobs ==
  \A w \in Workers : /\ pc[w] # "idle" => job[w] \in Jobs
                     /\ pc[w] = "read" => job[w] = "import"

TypeInv == RegistrationTypeOK /\ RunsHaveJobs

(* The processes that are about to write a registration.                   *)
Storing == {w \in Creating : pc[w] = "upsert"}

-----------------------------------------------------------------------------
(* Facts about the client and the retry memory.                            *)

LEMMA OkMeansCreated ==
  ASSUME NEW response \in Responses, create_public_registration(response) = "ok"
  PROVE  CreatedRemotely(response)
<1>1. classify_status(response.status) = "ok"
  BY DEF create_public_registration, Normalizes, Present
<1>2. response.status \in 100..599
  BY RegistrationAssumption DEF Response
<1> QED
  BY <1>1, <1>2 DEF classify_status, CreatedRemotely

LEMMA AnswerType ==
  ASSUME NEW response \in Responses
  PROVE  create_public_registration(response) \in {"ok", "blocked", "unsupported", "transient"}
<1>1. classify_status(response.status) \in {"ok", "blocked", "unsupported", "transient"}
  BY DEF classify_status
<1> QED
  BY <1>1 DEF create_public_registration

LEMMA FreshType == Fresh \in Memory
  BY DEF Fresh, Memory

LEMMA AfterFailureType ==
  ASSUME NEW memory \in Memory, NEW error
  PROVE  AfterFailure(memory, error) \in Memory
  BY DEF AfterFailure, Memory, Reasons

-----------------------------------------------------------------------------
(* Type correctness.                                                       *)

LEMMA TypeStart ==
  ASSUME TypeInv, NEW w \in Workers, NEW j \in Jobs, Start(w, j)
  PROVE  TypeInv'
<1>1. j \in {"harness", "fullPath", "import"}
  BY RegistrationAssumption
<1>2. FirstStep(j) \in {"budget", "list", "read"}
  BY <1>1 DEF FirstStep
<1>3. retry' \in [Workers -> Memory] /\ job' \in [Workers -> Jobs \cup {"none"}] /\ runs' \in Nat
      /\ UNCHANGED <<prepares, stored, remote>>
  BY FreshType DEF TypeInv, RegistrationTypeOK, Start
<1>4. pc' \in [Workers -> Steps]
  BY <1>2 DEF Steps, TypeInv, RegistrationTypeOK, Start, Fails, Goto
<1>5. /\ failure' \in [Workers -> Errors \cup {"none"}]
      /\ report' \in [Workers -> Reports]
  BY DEF TypeInv, RegistrationTypeOK, Start, Fails, Errors, Reports
<1>6. RunsHaveJobs'
  <2>1. FirstStep(j) = "read" => j = "import"
    BY <1>1 DEF FirstStep
  <2> QED
    BY <2>1 DEF TypeInv, RegistrationTypeOK, RunsHaveJobs, Start, Fails, Goto
<1> QED
  BY <1>3, <1>4, <1>5, <1>6 DEF TypeInv, RegistrationTypeOK, stored

(* A run that ends with an error leaves the type.                          *)
LEMMA TypeFails ==
  ASSUME TypeInv, NEW w \in Workers, NEW error \in Errors,
         Fails(w, error, ClassOf(w, error)) \/ Fails(w, error, error),
         UNCHANGED <<job, prepares, stored, runs>>,
         retry' \in [Workers -> Memory], remote' \in Nat
  PROVE  TypeInv'
<1>1. ClassOf(w, error) \in Errors \cup {"registration"}
  BY DEF ClassOf
<1>2. /\ failure' \in [Workers -> Errors \cup {"none"}]
      /\ report' \in [Workers -> Reports]
      /\ pc' \in [Workers -> Steps]
  BY <1>1 DEF TypeInv, RegistrationTypeOK, Fails, Goto, Steps, Reports
<1>3. RunsHaveJobs'
  BY DEF TypeInv, RegistrationTypeOK, RunsHaveJobs, Fails, Goto
<1> QED
  BY <1>2, <1>3 DEF TypeInv, RegistrationTypeOK, stored

LEMMA TypeWork ==
  ASSUME TypeInv, NEW w \in Workers, Work(w) \/ Crash(w)
  PROVE  TypeInv'
<1>1. CASE ListInLoop(w)
  <2>1. CASE Fails(w, "store", ClassOf(w, "store"))
    BY <1>1, <2>1, TypeFails DEF ListInLoop, Errors, TypeInv, RegistrationTypeOK
  <2>2. CASE UNCHANGED <<failure, report>>
    BY <1>1, <2>2 DEF Fails, ListInLoop, Goto, TypeInv, RegistrationTypeOK, RunsHaveJobs, Steps, stored
  <2> QED
    BY <1>1, <2>1, <2>2 DEF ListInLoop
<1>2. CASE CheckBudget(w)
  <2>1. CASE Fails(w, "store", ClassOf(w, "store"))
    BY <1>2, <2>1, TypeFails DEF CheckBudget, Errors, TypeInv, RegistrationTypeOK
  <2>2. CASE Fails(w, "budget", ClassOf(w, "budget"))
    BY <1>2, <2>2, TypeFails DEF CheckBudget, Errors, TypeInv, RegistrationTypeOK
  <2>3. CASE Goto(w, "call") /\ UNCHANGED <<failure, report>>
    BY <1>2, <2>3 DEF CheckBudget, Goto, TypeInv, RegistrationTypeOK, RunsHaveJobs, Steps, stored
  <2> QED
    BY <1>2, <2>1, <2>2, <2>3 DEF CheckBudget
<1>3. CASE \E response \in Responses : CallRemote(w, response)
  <2> PICK response \in Responses : CallRemote(w, response)
    BY <1>3
  <2> DEFINE answer == create_public_registration(response)
  <2>1. answer \in {"ok", "blocked", "unsupported", "transient"}
    BY AnswerType
  <2>2. remote' \in Nat /\ UNCHANGED <<job, stored, runs>>
    BY DEF CallRemote, TypeInv, RegistrationTypeOK
  <2>3. retry' \in [Workers -> Memory]
    BY FreshType, AfterFailureType DEF CallRemote, TypeInv, RegistrationTypeOK
  <2>4. CASE answer = "ok"
    <3>1. /\ pc' \in [Workers -> Steps] /\ prepares' \in [Workers -> BOOLEAN]
          /\ UNCHANGED <<failure, report>>
      BY <2>4 DEF CallRemote, Goto, TypeInv, RegistrationTypeOK, Steps, Prepares
    <3>2. RunsHaveJobs'
      BY <2>4 DEF CallRemote, Goto, TypeInv, RegistrationTypeOK, RunsHaveJobs
    <3> QED
      BY <2>2, <2>3, <3>1, <3>2 DEF TypeInv, RegistrationTypeOK, stored
  <2>5. CASE answer # "ok"
    <3>1. answer \in Errors /\ Fails(w, answer, ClassOf(w, answer)) /\ UNCHANGED prepares
      BY <2>1, <2>5 DEF CallRemote, Errors
    <3> QED
      BY <2>2, <2>3, <3>1, TypeFails
  <2> QED
    BY <2>4, <2>5
<1>4. CASE \E material \in Materials : ReadMaterial(w, material)
  <2> PICK material \in Materials : ReadMaterial(w, material)
    BY <1>4
  <2>1. UNCHANGED <<job, retry, stored, remote, runs>>
    BY DEF ReadMaterial
  <2>2. CASE Fails(w, "read", "read") /\ UNCHANGED prepares
    BY <2>1, <2>2, TypeFails DEF Errors, TypeInv, RegistrationTypeOK
  <2>3. CASE Fails(w, "unsupported", "unsupported") /\ UNCHANGED prepares
    BY <2>1, <2>3, TypeFails DEF Errors, TypeInv, RegistrationTypeOK
  <2>4. CASE Importable(material)
             /\ prepares' = [prepares EXCEPT ![w] = Prepares(Observed(material.fields))]
             /\ Goto(w, "upsert") /\ UNCHANGED <<failure, report>>
    <3>1. pc' \in [Workers -> Steps] /\ prepares' \in [Workers -> BOOLEAN]
      BY <2>4 DEF Goto, TypeInv, RegistrationTypeOK, Steps, Prepares
    <3>2. pc[w] # "idle"
      BY DEF ReadMaterial
    <3>3. RunsHaveJobs'
      BY <2>1, <2>4, <3>2 DEF Goto, TypeInv, RegistrationTypeOK, RunsHaveJobs
    <3> QED
      BY <2>1, <2>4, <3>1, <3>3 DEF TypeInv, RegistrationTypeOK, stored
  <2> QED
    BY <2>2, <2>3, <2>4 DEF ReadMaterial
<1>5. CASE Upsert(w)
  <2>1. CASE Fails(w, "store", ClassOf(w, "store")) /\ UNCHANGED stored
    BY <1>5, <2>1, TypeFails DEF Upsert, Errors, TypeInv, RegistrationTypeOK
  <2>2. CASE Goto(w, AfterUpsert(w)) /\ UNCHANGED <<failure, report>> /\ ~UNCHANGED stored
    <3>1. job[w] \in {"harness", "fullPath", "import"}
      BY <1>5, RegistrationAssumption DEF Upsert, TypeInv, RunsHaveJobs
    <3>2. AfterUpsert(w) \in {"evidence", "list", "idle"}
      BY <3>1 DEF AfterUpsert
    <3>3. pc' \in [Workers -> Steps]
      BY <2>2, <3>2 DEF Goto, TypeInv, RegistrationTypeOK, Steps
    <3>4. /\ registered' \in Nat /\ imported' \in Nat /\ looped' \in 0..registered'
          /\ unfit' \in 0..(registered' + imported')
      BY <1>5, <2>2 DEF Upsert, TypeInv, RegistrationTypeOK, stored
    <3>5. RunsHaveJobs'
      BY <1>5, <2>2, <3>2 DEF Upsert, Goto, TypeInv, RegistrationTypeOK, RunsHaveJobs
    <3> QED
      BY <1>5, <2>2, <3>3, <3>4, <3>5 DEF Upsert, TypeInv, RegistrationTypeOK
  <2> QED
    <3>1. CASE UNCHANGED stored
      BY <1>5, <2>1, <3>1 DEF Upsert, TypeInv, RegistrationTypeOK, stored
    <3> QED
      BY <1>5, <2>1, <2>2, <3>1 DEF Upsert
<1>6. CASE Evidence(w)
  <2>1. CASE Fails(w, "store", "store")
    BY <1>6, <2>1, TypeFails DEF Evidence, Errors, TypeInv, RegistrationTypeOK
  <2>2. CASE Ends(w, IF job[w] = "harness" THEN "succeeded"
                     ELSE IF unfit = 0 THEN "runtimeUnsupported" ELSE "notPrepared")
    BY <1>6, <2>2 DEF Evidence, Ends, Goto, TypeInv, RegistrationTypeOK, RunsHaveJobs, Steps,
                      Reports, stored
  <2> QED
    BY <1>6, <2>1, <2>2 DEF Evidence
<1>7. CASE Crash(w)
  BY <1>7, FreshType DEF Crash, Goto, TypeInv, RegistrationTypeOK, RunsHaveJobs, Steps, stored
<1> QED
  BY <1>1, <1>2, <1>3, <1>4, <1>5, <1>6, <1>7 DEF Work

LEMMA TypeStep == TypeInv /\ [Next]_vars => TypeInv'
<1> SUFFICES ASSUME TypeInv, [Next]_vars PROVE TypeInv'
  OBVIOUS
<1>1. CASE UNCHANGED vars
  BY <1>1 DEF vars, worker, stored, TypeInv, RegistrationTypeOK, RunsHaveJobs
<1> QED
  BY <1>1, TypeStart, TypeWork DEF Next

LEMMA TypeInit == Init => TypeInv
  BY FreshType DEF Init, TypeInv, RegistrationTypeOK, RunsHaveJobs, Errors, Steps, Reports

LEMMA TypeInvariant == Spec => []TypeInv
  BY TypeInit, TypeStep, PTL DEF Spec

(* Type correctness of Registration.                                       *)
THEOREM RegistrationTypeCorrect == Spec => []RegistrationTypeOK
<1>1. TypeInv => RegistrationTypeOK
  BY DEF TypeInv
<1> QED
  BY <1>1, TypeInvariant, PTL

-----------------------------------------------------------------------------
(* The budget.  A step leaves the processes that are past their check, or  *)
(* takes one away, or adds the one that has just passed it.                *)

LEMMA CreatingIsFinite ==
  /\ IsFiniteSet(Creating) /\ Cardinality(Creating) \in Nat
  /\ Cardinality(Creating) <= Cardinality(Workers)
  /\ IsFiniteSet(Storing) /\ Cardinality(Storing) \in Nat
  /\ Cardinality(Workers) \in Nat
<1>1. Creating \subseteq Workers /\ Storing \subseteq Creating
  BY DEF Creating, Storing
<1> QED
  BY <1>1, RegistrationAssumption, FS_Subset, FS_CardinalityType

(* A set of processes that loses one, or nothing.                          *)
LEMMA FewerProcesses ==
  ASSUME NEW S, NEW T, IsFiniteSet(S), T \subseteq S
  PROVE  IsFiniteSet(T) /\ Cardinality(T) \in Nat /\ Cardinality(T) <= Cardinality(S)
  BY FS_Subset, FS_CardinalityType

(* The write of a registration: its process is not creating any more.      *)
LEMMA WriteFinishes ==
  ASSUME TypeInv, NEW w \in Workers, Upsert(w), job[w] # "import"
  PROVE  /\ w \in Storing /\ w \in Creating
         /\ Creating' \subseteq Creating \ {w}
         /\ Storing' \subseteq Storing \ {w}
<1>1. job[w] \in {"harness", "fullPath"} /\ pc[w] = "upsert"
  BY RegistrationAssumption DEF Upsert, TypeInv, RunsHaveJobs
<1>2. pc \in [Workers -> Steps]
  BY DEF TypeInv, RegistrationTypeOK
<1>3. pc'[w] \in {"idle", "evidence", "list"} /\ job' = job
  BY <1>1, <1>2 DEF Upsert, Fails, Goto, AfterUpsert
<1>4. \A u \in Workers \ {w} : pc'[u] = pc[u]
  BY <1>2 DEF Upsert, Fails, Goto
<1> QED
  BY <1>1, <1>3, <1>4 DEF Creating, Storing

(* Every other step but a passed check and an answered call.               *)
Elsewhere(w) ==
  \/ \E j \in Jobs : Start(w, j)
  \/ ListInLoop(w)
  \/ CheckBudget(w) /\ pc'[w] # "call"
  \/ \E material \in Materials : ReadMaterial(w, material)
  \/ Upsert(w) /\ job[w] = "import"
  \/ Evidence(w)
  \/ Crash(w)

LEMMA NobodyStarts ==
  ASSUME TypeInv, NEW w \in Workers, Elsewhere(w)
  PROVE  Creating' \subseteq Creating /\ Storing' \subseteq Storing /\ UNCHANGED <<registered, remote>>
<1>1. /\ pc \in [Workers -> Steps] /\ RunsHaveJobs
      /\ job \in [Workers -> Jobs \cup {"none"}]
  BY DEF TypeInv, RegistrationTypeOK
<1>2. /\ UNCHANGED <<registered, remote>>
      /\ \A u \in Workers \ {w} : pc'[u] = pc[u] /\ job'[u] = job[u]
  BY <1>1 DEF Elsewhere, stored, Start, ListInLoop, CheckBudget, ReadMaterial, Upsert,
            Evidence, Crash, Fails, Ends, Goto
<1>3. pc'[w] \notin {"call", "upsert"} \/ job'[w] = "import"
  <2>1. CASE \E j \in Jobs : Start(w, j)
    <3> PICK j \in Jobs : Start(w, j)
      BY <2>1
    <3>1. j \in {"harness", "fullPath", "import"} /\ pc[w] = "idle"
      BY RegistrationAssumption DEF Start
    <3>2. FirstStep(j) \in {"budget", "list"} \/ j = "import"
      BY <3>1 DEF FirstStep
    <3> QED
      BY <1>1, <3>1, <3>2 DEF Start, Fails, Goto
  <2>2. CASE ListInLoop(w) \/ Evidence(w) \/ Crash(w)
    BY <1>1, <2>2 DEF ListInLoop, Evidence, Crash, Fails, Ends, Goto
  <2>3. CASE CheckBudget(w) /\ pc'[w] # "call"
    BY <1>1, <2>3 DEF CheckBudget, Fails, Goto
  <2>4. CASE Upsert(w) /\ job[w] = "import"
    BY <1>1, <2>4 DEF Upsert
  <2>5. CASE \E material \in Materials : ReadMaterial(w, material)
    BY <1>1, <2>5 DEF ReadMaterial, RunsHaveJobs
  <2> QED
    BY <2>1, <2>2, <2>3, <2>4, <2>5 DEF Elsewhere
<1> QED
  BY <1>1, <1>2, <1>3 DEF Creating, Storing

(* The call leaves who is creating, and adds to who is storing only when   *)
(* it created a registration.                                              *)
LEMMA CallAnswered ==
  ASSUME TypeInv, NEW w \in Workers, NEW response \in Responses, CallRemote(w, response)
  PROVE  /\ Creating' \subseteq Creating /\ UNCHANGED registered /\ w \notin Storing
         /\ \/ Storing' \subseteq Storing /\ remote' \in {remote, remote + 1}
            \/ Storing' \subseteq Storing \cup {w} /\ remote' = remote + 1
<1>1. /\ pc \in [Workers -> Steps]
      /\ pc[w] = "call" /\ job' = job
  BY DEF CallRemote, TypeInv, RegistrationTypeOK
<1>2. CASE create_public_registration(response) = "ok"
  <2>1. CreatedRemotely(response)
    BY <1>2, OkMeansCreated
  <2>2. remote' = remote + 1 /\ UNCHANGED registered
    BY <2>1 DEF stored, CallRemote
  <2>3. Creating' = Creating /\ Storing' \subseteq Storing \cup {w} /\ w \notin Storing
    BY <1>1, <1>2 DEF CallRemote, Goto, Creating, Storing
  <2> QED
    BY <2>2, <2>3
<1>3. CASE create_public_registration(response) # "ok"
  <2>1. remote' \in {remote, remote + 1} /\ UNCHANGED registered
    BY DEF stored, CallRemote
  <2>2. Creating' \subseteq Creating /\ Storing' \subseteq Storing /\ w \notin Storing
    BY <1>1, <1>3 DEF CallRemote, Fails, Goto, Creating, Storing
  <2> QED
    BY <2>1, <2>2
<1> QED
  BY <1>2, <1>3

(* A check that is passed: there is room for one row at least.             *)
LEMMA CheckPassed ==
  ASSUME TypeInv, NEW w \in Workers, CheckBudget(w), pc'[w] = "call"
  PROVE  registered + 1 <= Budget /\ Storing' \subseteq Storing /\ UNCHANGED <<registered, remote>>
<1>1. /\ pc \in [Workers -> Steps]
      /\ registered \in Nat /\ imported \in Nat /\ Budget \in Nat
  BY RegistrationAssumption DEF TypeInv, RegistrationTypeOK
<1>2. rows < Budget /\ UNCHANGED <<registered, remote, job>>
  BY <1>1 DEF stored, CheckBudget, Fails, Goto
<1>3. Storing' \subseteq Storing
  BY <1>1, <1>2 DEF CheckBudget, Fails, Goto, Creating, Storing
<1> QED
  BY <1>1, <1>2, <1>3 DEF rows

-----------------------------------------------------------------------------

(* The cases of a step.                                                    *)
LEMMA StepCases ==
  ASSUME [Next]_vars, TypeInv
  PROVE  \/ UNCHANGED vars
         \/ \E w \in Workers :
              \/ Elsewhere(w)
              \/ CheckBudget(w) /\ pc'[w] = "call"
              \/ \E response \in Responses : CallRemote(w, response)
              \/ Upsert(w) /\ job[w] # "import"
  BY DEF Next, Work, Elsewhere

LEMMA BudgetStep == TypeInv /\ RetainedWithinBudget /\ [Next]_vars => RetainedWithinBudget'
<1> SUFFICES ASSUME TypeInv, RetainedWithinBudget, [Next]_vars PROVE RetainedWithinBudget'
  OBVIOUS
<1> DEFINE Allowed == IF Budget = 0 THEN 0 ELSE Budget + Cardinality(Workers) - 1
<1>1. /\ registered \in Nat /\ Budget \in Nat /\ Cardinality(Workers) \in Nat
      /\ registered + Cardinality(Creating) <= Allowed
  BY CreatingIsFinite, RegistrationAssumption DEF TypeInv, RegistrationTypeOK, RetainedWithinBudget
<1>2. IsFiniteSet(Creating) /\ Cardinality(Creating) \in Nat
  BY CreatingIsFinite
<1>3. Cardinality(Creating') <= Cardinality(Workers) /\ Cardinality(Creating') \in Nat
  <2>1. Creating' \subseteq Workers
    BY DEF Creating
  <2> QED
    BY <2>1, RegistrationAssumption, FewerProcesses
<1>4. ASSUME Creating' \subseteq Creating, registered' = registered
      PROVE  registered' + Cardinality(Creating') <= Allowed
  <2>1. Cardinality(Creating') <= Cardinality(Creating) /\ Cardinality(Creating') \in Nat
    BY <1>2, <1>4, FewerProcesses
  <2> QED
    BY <1>1, <1>2, <1>4, <2>1
<1>5. CASE UNCHANGED vars
  <2>1. Creating' = Creating /\ registered' = registered
    BY <1>5 DEF stored, vars, worker, Creating
  <2> QED
    BY <1>4, <2>1 DEF RetainedWithinBudget
<1>6. ASSUME NEW w \in Workers, Elsewhere(w) PROVE RetainedWithinBudget'
  BY <1>4, <1>6, NobodyStarts DEF RetainedWithinBudget
<1>7. ASSUME NEW w \in Workers, CheckBudget(w), pc'[w] = "call" PROVE RetainedWithinBudget'
  <2>1. registered + 1 <= Budget /\ registered' = registered
    BY <1>7, CheckPassed
  <2>2. registered' + Cardinality(Creating') <= Allowed
    BY <1>1, <1>3, <2>1
  <2> QED
    BY <2>2 DEF RetainedWithinBudget
<1>8. ASSUME NEW w \in Workers, NEW response \in Responses, CallRemote(w, response)
      PROVE  RetainedWithinBudget'
  BY <1>4, <1>8, CallAnswered DEF RetainedWithinBudget
<1>9. ASSUME NEW w \in Workers, Upsert(w), job[w] # "import" PROVE RetainedWithinBudget'
  <2>1. w \in Creating /\ Creating' \subseteq Creating \ {w}
    BY <1>9, WriteFinishes
  <2>2. /\ Cardinality(Creating \ {w}) = Cardinality(Creating) - 1
        /\ IsFiniteSet(Creating \ {w})
    BY <1>2, <2>1, FS_RemoveElement
  <2>3. Cardinality(Creating') <= Cardinality(Creating) - 1
    BY <2>1, <2>2, FewerProcesses
  <2>4. registered' \in {registered, registered + 1}
    BY <1>9 DEF stored, Upsert
  <2>5. registered' + Cardinality(Creating') <= Allowed
    BY <1>1, <1>2, <1>3, <2>3, <2>4
  <2> QED
    BY <2>5 DEF RetainedWithinBudget
<1> QED
  BY <1>5, <1>6, <1>7, <1>8, <1>9, StepCases

LEMMA BudgetInit == Init => RetainedWithinBudget
<1> SUFFICES ASSUME Init PROVE RetainedWithinBudget
  OBVIOUS
<1>1. Creating = {} /\ registered = 0
  BY DEF Init, Creating
<1>2. Cardinality(Creating) = 0
  BY <1>1, FS_EmptySet
<1> QED
  BY <1>1, <1>2, CreatingIsFinite, RegistrationAssumption DEF RetainedWithinBudget

(* RegistrationService::create_public_registration checks the budget and   *)
(* writes in two steps: it is overrun by the other processes at most, for  *)
(* any number of processes and any budget.                                 *)
THEOREM BudgetOverrunIsBounded == Spec => []RetainedWithinBudget
  BY BudgetInit, BudgetStep, TypeInvariant, PTL DEF Spec

-----------------------------------------------------------------------------
(* Nothing is stored of a call that failed.                                *)

LEMMA InventedStep == TypeInv /\ NothingInvented /\ [Next]_vars => NothingInvented'
<1> SUFFICES ASSUME TypeInv, NothingInvented, [Next]_vars PROVE NothingInvented'
  OBVIOUS
<1>1. /\ registered \in Nat /\ remote \in Nat
      /\ registered + Cardinality(Storing) <= remote
      /\ IsFiniteSet(Storing) /\ Cardinality(Storing) \in Nat
  BY CreatingIsFinite DEF TypeInv, RegistrationTypeOK, NothingInvented, Storing
<1>2. ASSUME Storing' \subseteq Storing, registered' = registered, remote' \in {remote, remote + 1}
      PROVE  registered' + Cardinality(Storing') <= remote'
  <2>1. Cardinality(Storing') <= Cardinality(Storing) /\ Cardinality(Storing') \in Nat
    BY <1>1, <1>2, FewerProcesses
  <2> QED
    BY <1>1, <1>2, <2>1
<1>3. CASE UNCHANGED vars
  <2>1. Storing' = Storing /\ registered' = registered /\ remote' = remote
    BY <1>3 DEF stored, vars, worker, Creating, Storing
  <2> QED
    BY <1>2, <2>1 DEF NothingInvented, Storing
<1>4. ASSUME NEW w \in Workers, Elsewhere(w) PROVE NothingInvented'
  BY <1>2, <1>4, NobodyStarts DEF NothingInvented, Storing
<1>5. ASSUME NEW w \in Workers, CheckBudget(w), pc'[w] = "call" PROVE NothingInvented'
  BY <1>2, <1>5, CheckPassed DEF NothingInvented, Storing
<1>6. ASSUME NEW w \in Workers, NEW response \in Responses, CallRemote(w, response)
      PROVE  NothingInvented'
  <2>1. CASE Storing' \subseteq Storing /\ remote' \in {remote, remote + 1}
    BY <1>2, <1>6, <2>1, CallAnswered DEF NothingInvented, Storing
  <2>2. CASE Storing' \subseteq Storing \cup {w} /\ remote' = remote + 1
    <3>1. w \notin Storing /\ registered' = registered
      BY <1>6, CallAnswered
    <3>2. /\ Cardinality(Storing \cup {w}) = Cardinality(Storing) + 1
          /\ IsFiniteSet(Storing \cup {w})
      BY <1>1, <3>1, FS_AddElement
    <3>3. Cardinality(Storing') <= Cardinality(Storing) + 1 /\ Cardinality(Storing') \in Nat
      BY <2>2, <3>2, FewerProcesses
    <3>4. registered' + Cardinality(Storing') <= remote'
      BY <1>1, <2>2, <3>1, <3>3
    <3> QED
      BY <3>4 DEF NothingInvented, Storing
  <2> QED
    BY <1>6, <2>1, <2>2, CallAnswered
<1>7. ASSUME NEW w \in Workers, Upsert(w), job[w] # "import" PROVE NothingInvented'
  <2>1. w \in Storing /\ Storing' \subseteq Storing \ {w}
    BY <1>7, WriteFinishes
  <2>2. /\ Cardinality(Storing \ {w}) = Cardinality(Storing) - 1
        /\ IsFiniteSet(Storing \ {w})
    BY <1>1, <2>1, FS_RemoveElement
  <2>3. Cardinality(Storing') <= Cardinality(Storing) - 1 /\ Cardinality(Storing') \in Nat
    BY <2>1, <2>2, FewerProcesses
  <2>4. registered' \in {registered, registered + 1} /\ remote' = remote
    BY <1>7 DEF stored, Upsert
  <2>5. registered' + Cardinality(Storing') <= remote'
    BY <1>1, <2>3, <2>4
  <2> QED
    BY <2>5 DEF NothingInvented, Storing
<1> QED
  BY <1>3, <1>4, <1>5, <1>6, <1>7, StepCases

LEMMA InventedInit == Init => NothingInvented
<1> SUFFICES ASSUME Init PROVE NothingInvented
  OBVIOUS
<1>1. Storing = {} /\ registered = 0 /\ remote = 0
  BY DEF Init, Creating, Storing
<1>2. Cardinality(Storing) = 0
  BY <1>1, FS_EmptySet
<1> QED
  BY <1>1, <1>2 DEF NothingInvented, Storing

(* Every row that a registration created stands for one that exists at the *)
(* remote end: the row is written on the answer of the remote call only    *)
(* (RegistrationService::create_public_registration).                      *)
THEOREM RowsAreReal == Spec => []NothingInvented
  BY InventedInit, InventedStep, TypeInvariant, PTL DEF Spec

-----------------------------------------------------------------------------
(* The loop of the full path.  A turn that is let through sees fewer rows  *)
(* than the target; every other step leaves the processes in the middle of *)
(* a turn or takes one away, with the row it creates.                      *)

LEMMA OthersStay ==
  ASSUME TypeInv, NEW w \in Workers, Work(w) \/ Crash(w) \/ \E j \in Jobs : Start(w, j)
  PROVE  Looping' \ {w} \subseteq Looping
<1>1. \A u \in Workers \ {w} : pc'[u] = pc[u] /\ job'[u] = job[u]
  BY DEF TypeInv, RegistrationTypeOK, Work, Start, ListInLoop, CheckBudget, CallRemote,
         ReadMaterial, Upsert, Evidence, Crash, Fails, Ends, Goto
<1> QED
  BY <1>1 DEF Looping

LEMMA TurnGoesOn ==
  ASSUME TypeInv, NEW w \in Workers,
         \/ CheckBudget(w) \/ Evidence(w) \/ Crash(w)
         \/ \E response \in Responses : CallRemote(w, response)
         \/ \E material \in Materials : ReadMaterial(w, material)
         \/ \E j \in Jobs : Start(w, j)
         \/ ListInLoop(w) /\ pc'[w] # "budget"
         \/ Upsert(w) /\ job[w] # "fullPath"
  PROVE  Looping' \subseteq Looping /\ UNCHANGED looped
<1>1. /\ pc \in [Workers -> Steps] /\ RunsHaveJobs
      /\ job \in [Workers -> Jobs \cup {"none"}]
  BY DEF TypeInv, RegistrationTypeOK
<1>2. Looping' \ {w} \subseteq Looping
  BY OthersStay DEF Work
<1>3. UNCHANGED looped
  BY DEF stored, CheckBudget, Evidence, Crash, CallRemote, ReadMaterial, Start, ListInLoop, Upsert
<1>4. w \in Looping' => w \in Looping
  <2>1. CASE CheckBudget(w) \/ \E response \in Responses : CallRemote(w, response)
    BY <1>1, <2>1 DEF CheckBudget, CallRemote, Looping
  <2>2. CASE Evidence(w) \/ Crash(w) \/ (ListInLoop(w) /\ pc'[w] # "budget")
    BY <1>1, <2>2 DEF Evidence, Crash, ListInLoop, Fails, Ends, Goto, Looping
  <2>3. CASE Upsert(w) /\ job[w] # "fullPath"
    BY <1>1, <2>3 DEF Upsert, Looping
  <2>4. CASE \E j \in Jobs : Start(w, j)
    BY <1>1, <2>4 DEF Start, Fails, Goto, FirstStep, Looping
  <2>5. CASE \E material \in Materials : ReadMaterial(w, material)
    BY <1>1, <2>5 DEF ReadMaterial, RunsHaveJobs, Looping
  <2> QED
    BY <2>1, <2>2, <2>3, <2>4, <2>5
<1> QED
  BY <1>2, <1>3, <1>4

LEMMA TurnEnds ==
  ASSUME TypeInv, NEW w \in Workers, Upsert(w), job[w] = "fullPath"
  PROVE  /\ w \in Looping /\ Looping' \subseteq Looping \ {w}
         /\ looped' \in {looped, looped + 1}
<1>1. /\ pc \in [Workers -> Steps]
      /\ pc'[w] \in {"idle", "list"} /\ pc[w] = "upsert"
  BY DEF TypeInv, RegistrationTypeOK, Upsert, Fails, Goto, AfterUpsert
<1>2. w \in Looping /\ w \notin Looping'
  BY <1>1 DEF Looping
<1>3. Looping' \ {w} \subseteq Looping
  BY OthersStay DEF Work
<1> QED
  BY <1>2, <1>3 DEF stored, Upsert

LEMMA LoopStep == TypeInv /\ CreatedOnlyWhenNeeded /\ [Next]_vars => CreatedOnlyWhenNeeded'
<1> SUFFICES ASSUME TypeInv, CreatedOnlyWhenNeeded, [Next]_vars PROVE CreatedOnlyWhenNeeded'
  OBVIOUS
<1> DEFINE Allowed == IF Target = 0 THEN 0 ELSE Target + Cardinality(Workers) - 1
<1>1. /\ looped \in Nat /\ registered \in Nat /\ imported \in Nat /\ looped <= registered
      /\ Target \in Nat /\ looped + Cardinality(Looping) <= Allowed
  BY RegistrationAssumption DEF TypeInv, RegistrationTypeOK, CreatedOnlyWhenNeeded
<1>2. /\ IsFiniteSet(Looping) /\ Cardinality(Looping) \in Nat
      /\ Cardinality(Workers) \in Nat
      /\ Cardinality(Looping') \in Nat /\ Cardinality(Looping') <= Cardinality(Workers)
  <2>1. Looping \subseteq Workers /\ Looping' \subseteq Workers
    BY DEF Looping
  <2> QED
    BY <2>1, RegistrationAssumption, FewerProcesses, FS_CardinalityType
<1>3. ASSUME Looping' \subseteq Looping, looped' = looped PROVE CreatedOnlyWhenNeeded'
  <2>1. Cardinality(Looping') <= Cardinality(Looping)
    BY <1>2, <1>3, FewerProcesses
  <2>2. looped' + Cardinality(Looping') <= Allowed
    BY <1>1, <1>2, <1>3, <2>1
  <2> QED
    BY <2>2 DEF CreatedOnlyWhenNeeded
<1>4. CASE UNCHANGED vars
  BY <1>3, <1>4 DEF stored, vars, worker, Looping
<1>5. ASSUME NEW w \in Workers, ListInLoop(w), pc'[w] = "budget" PROVE CreatedOnlyWhenNeeded'
  <2>1. rows < Target /\ looped' = looped
    BY <1>5 DEF stored, ListInLoop, Fails, Goto, TypeInv, RegistrationTypeOK
  <2>2. looped + 1 <= Target
    BY <1>1, <2>1 DEF rows
  <2>3. looped' + Cardinality(Looping') <= Allowed
    BY <1>1, <1>2, <2>1, <2>2
  <2> QED
    BY <2>3 DEF CreatedOnlyWhenNeeded
<1>6. ASSUME NEW w \in Workers, Upsert(w), job[w] = "fullPath" PROVE CreatedOnlyWhenNeeded'
  <2>1. /\ w \in Looping /\ Looping' \subseteq Looping \ {w}
        /\ looped' \in {looped, looped + 1}
    BY <1>6, TurnEnds
  <2>2. Cardinality(Looping \ {w}) = Cardinality(Looping) - 1 /\ IsFiniteSet(Looping \ {w})
    BY <1>2, <2>1, FS_RemoveElement
  <2>3. Cardinality(Looping') <= Cardinality(Looping) - 1
    BY <2>1, <2>2, FewerProcesses
  <2>4. looped' + Cardinality(Looping') <= Allowed
    BY <1>1, <1>2, <2>1, <2>3
  <2> QED
    BY <2>4 DEF CreatedOnlyWhenNeeded
<1>7. ASSUME NEW w \in Workers,
             \/ CheckBudget(w) \/ Evidence(w) \/ Crash(w)
             \/ \E response \in Responses : CallRemote(w, response)
             \/ \E material \in Materials : ReadMaterial(w, material)
             \/ \E j \in Jobs : Start(w, j)
             \/ ListInLoop(w) /\ pc'[w] # "budget"
             \/ Upsert(w) /\ job[w] # "fullPath"
      PROVE  CreatedOnlyWhenNeeded'
  BY <1>3, <1>7, TurnGoesOn
<1> QED
  BY <1>4, <1>5, <1>6, <1>7 DEF Next, Work

LEMMA LoopInit == Init => CreatedOnlyWhenNeeded
<1> SUFFICES ASSUME Init PROVE CreatedOnlyWhenNeeded
  OBVIOUS
<1>1. Looping = {} /\ looped = 0
  BY DEF Init, Looping
<1>2. Cardinality(Looping) = 0
  BY <1>1, FS_EmptySet
<1> QED
  BY <1>1, <1>2, CreatingIsFinite, RegistrationAssumption, FS_EmptySet
  DEF CreatedOnlyWhenNeeded

(* ensure_registrations of the full path lists the rows before each turn:  *)
(* it creates no more than the target calls for, and one per process that  *)
(* runs beside it, whatever other jobs add to the store.                   *)
THEOREM LoopStopsAtTarget == Spec => []CreatedOnlyWhenNeeded
  BY LoopInit, LoopStep, TypeInvariant, PTL DEF Spec

-----------------------------------------------------------------------------
(* Runs end: the measure of a run.  (That a run takes its next step is     *)
(* fairness, and left to the model checker.)                               *)

Short(r)  == IF r < Target THEN Target - r ELSE 0
OneLess(n) == IF n > 0 THEN n - 1 ELSE 0
OneMore(r, s) == s = r + 1

LEMMA ShortArithmetic ==
  \A r, s \in Nat : r <= s =>
    /\ Short(r) \in Nat /\ Short(s) \in Nat /\ Short(s) <= Short(r)
    /\ OneLess(Short(r)) \in Nat /\ OneLess(Short(s)) \in Nat
    /\ OneLess(Short(s)) <= OneLess(Short(r)) /\ OneLess(Short(r)) <= Short(r)
    /\ OneMore(r, s) => Short(s) = OneLess(Short(r))
    /\ r < Target => OneLess(Short(r)) + 1 = Short(r)
<1> SUFFICES ASSUME NEW r \in Nat, NEW s \in Nat, r <= s
             PROVE  /\ Short(r) \in Nat /\ Short(s) \in Nat /\ Short(s) <= Short(r)
                    /\ OneLess(Short(r)) \in Nat /\ OneLess(Short(s)) \in Nat
                    /\ OneLess(Short(s)) <= OneLess(Short(r)) /\ OneLess(Short(r)) <= Short(r)
                    /\ OneMore(r, s) => Short(s) = OneLess(Short(r))
                    /\ r < Target => OneLess(Short(r)) + 1 = Short(r)
  OBVIOUS
<1>1. Target \in Nat
  BY RegistrationAssumption
<1> QED
  BY <1>1 DEF Short, OneLess, OneMore

Plus(a, b) == a + b

LEMMA PlusArithmetic ==
  /\ \A a, b \in Nat : Plus(a, b) \in Nat
  /\ \A a, b, c, d \in Nat : a <= c /\ b <= d => Plus(a, b) <= Plus(c, d)
  /\ \A a, b, c, d \in Nat :
       (c = a + 1 /\ d = b) \/ (c = a /\ d = b + 1) => OneMore(Plus(a, b), Plus(c, d))
  BY DEF Plus, OneMore

(* The distance from a step, with m rows missing and a after the turn.     *)
DistanceFrom(step, m, a) ==
  CASE step = "idle"     -> 0
    [] step = "evidence" -> 1
    [] step = "list"     -> 4 * m + 2
    [] step = "upsert"   -> 4 * a + 3
    [] step \in {"call", "read"} -> 4 * a + 4
    [] step = "budget"   -> 4 * a + 5

LEMMA DistanceArithmetic ==
  ASSUME NEW m \in Nat, NEW n \in Nat, NEW a \in Nat, NEW b \in Nat, n <= m, b <= a
  PROVE  /\ \A p \in Steps :
              /\ DistanceFrom(p, n, b) \in Nat /\ DistanceFrom(p, m, a) \in Nat
              /\ DistanceFrom(p, n, b) <= DistanceFrom(p, m, a)
              /\ p # "idle" => DistanceFrom("idle", n, b) < DistanceFrom(p, m, a)
         /\ a + 1 = m => DistanceFrom("budget", n, b) < DistanceFrom("list", m, a)
         /\ DistanceFrom("evidence", n, b) < DistanceFrom("list", m, a)
         /\ DistanceFrom("call", n, b) < DistanceFrom("budget", m, a)
         /\ DistanceFrom("upsert", n, b) < DistanceFrom("call", m, a)
         /\ DistanceFrom("upsert", n, b) < DistanceFrom("read", m, a)
         /\ n = a => DistanceFrom("list", n, b) < DistanceFrom("upsert", m, a)
         /\ DistanceFrom("evidence", n, b) < DistanceFrom("upsert", m, a)
<1>1. /\ a + 1 = m => DistanceFrom("budget", n, b) < DistanceFrom("list", m, a)
      /\ DistanceFrom("evidence", n, b) < DistanceFrom("list", m, a)
      /\ DistanceFrom("call", n, b) < DistanceFrom("budget", m, a)
  BY DEF DistanceFrom
<1>2. /\ DistanceFrom("upsert", n, b) < DistanceFrom("call", m, a)
      /\ DistanceFrom("upsert", n, b) < DistanceFrom("read", m, a)
      /\ DistanceFrom("evidence", n, b) < DistanceFrom("upsert", m, a)
  BY DEF DistanceFrom
<1>3. n = a => DistanceFrom("list", n, b) < DistanceFrom("upsert", m, a)
  BY DEF DistanceFrom
<1>4. ASSUME NEW p \in Steps
      PROVE  /\ DistanceFrom(p, n, b) \in Nat /\ DistanceFrom(p, m, a) \in Nat
             /\ DistanceFrom(p, n, b) <= DistanceFrom(p, m, a)
             /\ p # "idle" => DistanceFrom("idle", n, b) < DistanceFrom(p, m, a)
  <2>1. CASE p = "idle"
    BY <2>1 DEF DistanceFrom
  <2>2. CASE p = "evidence"
    BY <2>2 DEF DistanceFrom
  <2>3. CASE p = "list"
    BY <2>3 DEF DistanceFrom
  <2>4. CASE p = "upsert"
    BY <2>4 DEF DistanceFrom
  <2>5. CASE p = "call"
    BY <2>5 DEF DistanceFrom
  <2>6. CASE p = "read"
    BY <2>6 DEF DistanceFrom
  <2>7. CASE p = "budget"
    BY <2>7 DEF DistanceFrom
  <2> QED
    BY <2>1, <2>2, <2>3, <2>4, <2>5, <2>6, <2>7 DEF Steps
<1> QED
  BY <1>1, <1>2, <1>3, <1>4

LEMMA RowsGrow ==
  ASSUME TypeInv, TypeInv', [Next]_vars
  PROVE  rows \in Nat /\ rows' \in Nat /\ rows <= rows'
<1>1. /\ registered \in Nat /\ imported \in Nat /\ registered' \in Nat /\ imported' \in Nat
  BY DEF TypeInv, RegistrationTypeOK
<1>2. registered <= registered' /\ imported <= imported'
  <2>1. registered' \in {registered, registered + 1} /\ imported' \in {imported, imported + 1}
    BY DEF Next, vars, stored, Start, Work, ListInLoop, CheckBudget, CallRemote, ReadMaterial,
           Upsert, Evidence, Crash
  <2>2. \A n \in Nat : n <= n /\ n <= n + 1
    OBVIOUS
  <2> QED
    BY <1>1, <2>1, <2>2
<1>3. rows = Plus(registered, imported) /\ rows' = Plus(registered', imported')
  BY DEF rows, Plus
<1> HIDE DEF rows
<1> QED
  BY <1>1, <1>2, <1>3, PlusArithmetic

(* More rows, not more to do.                                              *)
LEMMA MoreRowsLessMissing ==
  ASSUME rows \in Nat, rows' \in Nat, rows <= rows'
  PROVE  /\ Missing \in Nat /\ Missing' \in Nat /\ Missing' <= Missing
         /\ AfterTurn \in Nat /\ AfterTurn' \in Nat /\ AfterTurn' <= AfterTurn
         /\ AfterTurn <= Missing
         /\ OneMore(rows, rows') => Missing' = AfterTurn
         /\ rows < Target => AfterTurn + 1 = Missing
<1> HIDE DEF rows
<1>1. /\ Missing = Short(rows) /\ AfterTurn = OneLess(Short(rows))
      /\ Missing' = Short(rows') /\ AfterTurn' = OneLess(Short(rows'))
  BY DEF Missing, AfterTurn, Short, OneLess
<1> QED
  BY <1>1, ShortArithmetic

(* Both distances of a step, in the same terms.                            *)
LEMMA Distances ==
  ASSUME TypeInv, TypeInv', [Next]_vars, NEW w \in Workers
  PROVE  /\ pc[w] \in Steps
         /\ Distance(w) = DistanceFrom(pc[w], Missing, AfterTurn)
         /\ Distance(w)' = DistanceFrom(pc'[w], Missing', AfterTurn')
         /\ Missing \in Nat /\ Missing' \in Nat /\ Missing' <= Missing
         /\ AfterTurn \in Nat /\ AfterTurn' \in Nat /\ AfterTurn' <= AfterTurn
         /\ OneMore(rows, rows') => Missing' = AfterTurn
         /\ rows < Target => AfterTurn + 1 = Missing
<1>1. Distance(w) = DistanceFrom(pc[w], Missing, AfterTurn)
  BY DEF Distance, DistanceFrom
<1>2. Distance(w)' = DistanceFrom(pc'[w], Missing', AfterTurn')
  BY DEF Distance, DistanceFrom
<1>3. pc[w] \in Steps
  BY DEF TypeInv, RegistrationTypeOK
<1> HIDE DEF rows
<1> QED
  BY <1>1, <1>2, <1>3, RowsGrow, MoreRowsLessMissing

(* The step of a run that works.                                           *)
LEMMA WorkComesCloser ==
  ASSUME TypeInv, TypeInv', NEW w \in Workers, Work(w)
  PROVE  \/ pc[w] # "idle" /\ pc'[w] = "idle"
         \/ pc[w] = "list" /\ pc'[w] = "evidence"
         \/ pc[w] = "list" /\ pc'[w] = "budget" /\ rows < Target
         \/ pc[w] = "budget" /\ pc'[w] = "call"
         \/ pc[w] \in {"call", "read"} /\ pc'[w] = "upsert"
         \/ pc[w] = "upsert" /\ pc'[w] = "evidence"
         \/ pc[w] = "upsert" /\ pc'[w] = "list" /\ OneMore(rows, rows')
<1>1. /\ pc \in [Workers -> Steps]
      /\ job[w] \in {"harness", "fullPath", "import"}
  BY RegistrationAssumption
     DEF TypeInv, RegistrationTypeOK, RunsHaveJobs, Work, ListInLoop, CheckBudget, CallRemote,
         ReadMaterial, Upsert, Evidence
<1>2. CASE ListInLoop(w)
  BY <1>1, <1>2 DEF ListInLoop, Fails, Goto
<1>3. CASE CheckBudget(w)
  BY <1>1, <1>3 DEF CheckBudget, Fails, Goto
<1>4. CASE (\E response \in Responses : CallRemote(w, response))
             \/ (\E material \in Materials : ReadMaterial(w, material))
  BY <1>1, <1>4 DEF CallRemote, ReadMaterial, Fails, Goto
<1>5. CASE Upsert(w)
  <2>1. pc[w] = "upsert" /\ pc'[w] \in {"idle", AfterUpsert(w)}
    BY <1>1, <1>5 DEF Upsert, Fails, Goto
  <2>2. CASE pc'[w] = "list"
    <3>1. \/ registered' = registered + 1 /\ imported' = imported
          \/ registered' = registered /\ imported' = imported + 1
      BY <1>1, <1>5, <2>2 DEF Upsert, Fails, Goto
    <3>2. /\ registered \in Nat /\ imported \in Nat /\ registered' \in Nat /\ imported' \in Nat
      BY DEF TypeInv, RegistrationTypeOK
    <3>3. rows = Plus(registered, imported) /\ rows' = Plus(registered', imported')
      BY DEF rows, Plus
    <3> HIDE DEF rows
    <3> QED
      BY <2>1, <2>2, <3>1, <3>2, <3>3, PlusArithmetic
  <2> QED
    BY <1>1, <2>1, <2>2 DEF AfterUpsert
<1>6. CASE Evidence(w)
  BY <1>1, <1>6 DEF Evidence, Fails, Ends, Goto
<1> QED
  BY <1>2, <1>3, <1>4, <1>5, <1>6 DEF Work

LEMMA RunStep ==
  ASSUME TypeInv, TypeInv', [Next]_vars, NEW w \in Workers, pc[w] # "idle"
  PROVE  /\ Distance(w)' <= Distance(w)
         /\ pc'[w] # pc[w] => Distance(w)' < Distance(w)
<1>1. /\ pc[w] \in Steps /\ pc'[w] \in Steps
      /\ Distance(w) = DistanceFrom(pc[w], Missing, AfterTurn)
      /\ Distance(w)' = DistanceFrom(pc'[w], Missing', AfterTurn')
      /\ Missing \in Nat /\ Missing' \in Nat /\ Missing' <= Missing
      /\ AfterTurn \in Nat /\ AfterTurn' \in Nat /\ AfterTurn' <= AfterTurn
      /\ OneMore(rows, rows') => Missing' = AfterTurn
      /\ rows < Target => AfterTurn + 1 = Missing
  BY Distances DEF TypeInv, RegistrationTypeOK
<1> HIDE DEF rows
<1>2. CASE pc'[w] = pc[w]
  <2>1. DistanceFrom(pc[w], Missing', AfterTurn') <= DistanceFrom(pc[w], Missing, AfterTurn)
    BY <1>1, DistanceArithmetic
  <2> QED
    BY <1>1, <1>2, <2>1
<1>3. CASE pc'[w] # pc[w]
  <2>1. Work(w) \/ Crash(w)
    BY <1>3
       DEF TypeInv, RegistrationTypeOK, Next, vars, worker, Start, Work, ListInLoop, CheckBudget,
           CallRemote, ReadMaterial, Upsert, Evidence, Crash, Fails, Ends, Goto
  <2>2. \/ pc'[w] = "idle"
        \/ pc[w] = "list" /\ pc'[w] = "evidence"
        \/ pc[w] = "list" /\ pc'[w] = "budget" /\ rows < Target
        \/ pc[w] = "budget" /\ pc'[w] = "call"
        \/ pc[w] = "call" /\ pc'[w] = "upsert"
        \/ pc[w] = "read" /\ pc'[w] = "upsert"
        \/ pc[w] = "upsert" /\ pc'[w] = "evidence"
        \/ pc[w] = "upsert" /\ pc'[w] = "list" /\ OneMore(rows, rows')
    <3>1. CASE Crash(w)
      BY <3>1 DEF Crash, Goto, TypeInv, RegistrationTypeOK
    <3>2. CASE Work(w)
      BY <3>2, WorkComesCloser
    <3> QED
      BY <2>1, <3>1, <3>2
  <2>3. DistanceFrom(pc'[w], Missing', AfterTurn') < DistanceFrom(pc[w], Missing, AfterTurn)
    BY <1>1, <2>2, DistanceArithmetic
  <2>4. \A a, b \in Nat : a < b => a <= b
    OBVIOUS
  <2> QED
    <3>1. /\ DistanceFrom(pc'[w], Missing', AfterTurn') \in Nat
          /\ DistanceFrom(pc[w], Missing, AfterTurn) \in Nat
      BY <1>1, DistanceArithmetic
    <3> QED
      BY <1>1, <2>3, <2>4, <3>1
<1> QED
  BY <1>2, <1>3

(* The loop of ensure_registrations, and every other run, has a measure    *)
(* that each of its steps lowers and nobody else's raises: no run goes on  *)
(* for ever, whatever other processes register or import beside it.        *)
THEOREM RunsHaveAMeasure == Spec => RunsComeCloser
<1>1. TypeInv /\ TypeInv' /\ [Next]_vars =>
        [\A w \in Workers :
           pc[w] # "idle" =>
             /\ Distance(w)' <= Distance(w)
             /\ pc'[w] # pc[w] => Distance(w)' < Distance(w)]_vars
  BY RunStep
<1> QED
  BY <1>1, TypeInvariant, PTL DEF Spec, RunsComeCloser

-----------------------------------------------------------------------------
(* Reports.                                                                *)

ReportsInv ==
  \A w \in Workers :
    /\ pc[w] # "idle" => failure[w] = "none"
    /\ failure[w] # "none" =>
         report[w] = failure[w] \/ (job[w] = "fullPath" /\ report[w] = "registration")

LEMMA ReportsStep == TypeInv /\ ReportsInv /\ [Next]_vars => ReportsInv'
<1> SUFFICES ASSUME TypeInv, ReportsInv, [Next]_vars PROVE ReportsInv'
  OBVIOUS
<1>1. /\ pc \in [Workers -> Steps] /\ failure \in [Workers -> Errors \cup {"none"}]
      /\ report \in [Workers -> Reports]
      /\ job \in [Workers -> Jobs \cup {"none"}]
  BY DEF TypeInv, RegistrationTypeOK
<1>2. CASE UNCHANGED vars
  BY <1>2 DEF vars, worker, ReportsInv
<1>3. ASSUME NEW w \in Workers, NEW error,
             Fails(w, error, ClassOf(w, error)) \/ Fails(w, error, error), UNCHANGED job
      PROVE  ReportsInv'
  BY <1>1, <1>3 DEF Fails, ClassOf, Goto, ReportsInv
<1>4. ASSUME NEW w \in Workers, pc[w] # "idle", UNCHANGED <<job, failure>>,
             \A u \in Workers \ {w} : pc'[u] = pc[u] /\ report'[u] = report[u]
      PROVE  ReportsInv'
  BY <1>1, <1>4 DEF ReportsInv
<1>5. ASSUME NEW w \in Workers, NEW j \in Jobs, Start(w, j) PROVE ReportsInv'
  BY <1>1, <1>5 DEF Start, Fails, Goto, ReportsInv
<1>6. ASSUME NEW w \in Workers, Work(w) PROVE ReportsInv'
  <2>1. CASE \E error, class \in {TRUE, FALSE} :
               Fails(w, error, IF class THEN ClassOf(w, error) ELSE error)
    <3>1. UNCHANGED job
      BY <1>6 DEF Work, ListInLoop, CheckBudget, CallRemote, ReadMaterial, Upsert, Evidence
    <3> QED
      BY <1>3, <2>1, <3>1
  <2>2. CASE UNCHANGED failure
    BY <1>1, <1>4, <1>6, <2>2
       DEF Work, ListInLoop, CheckBudget, CallRemote, ReadMaterial, Upsert, Evidence, Fails, Ends,
           Goto
  <2>3. CASE ListInLoop(w) \/ CheckBudget(w) \/ Upsert(w) \/ Evidence(w)
    BY <1>3, <2>2, <2>3 DEF ListInLoop, CheckBudget, Upsert, Evidence, Ends
  <2>4. CASE \E response \in Responses : CallRemote(w, response)
    BY <1>3, <2>2, <2>4 DEF CallRemote
  <2>5. CASE \E material \in Materials : ReadMaterial(w, material)
    BY <1>3, <2>2, <2>5 DEF ReadMaterial
  <2> QED
    BY <1>6, <2>3, <2>4, <2>5 DEF Work
<1>7. ASSUME NEW w \in Workers, Crash(w) PROVE ReportsInv'
  BY <1>1, <1>4, <1>7 DEF Crash, Goto
<1> QED
  BY <1>2, <1>5, <1>6, <1>7 DEF Next

(* What StoreFailuresNotHidden is violated by, and nothing else: only      *)
(* ensure_registrations calls an error of another kind a registration      *)
(* failure.  A harness and an import report every error as what it is.     *)
THEOREM OnlyLoopsHideErrors == Spec => []OnlyTheFullPathHides
<1>1. Init => ReportsInv
  BY DEF Init, ReportsInv
<1>2. ReportsInv => OnlyTheFullPathHides
  BY DEF ReportsInv, OnlyTheFullPathHides
<1> QED
  BY <1>1, <1>2, ReportsStep, TypeInvariant, PTL DEF Spec

-----------------------------------------------------------------------------
(* Stored material.                                                        *)

FieldsRead == {"v4", "v6", "public_key", "endpoint"}

(* Which registrations the data plane can prepare: those whose addresses,  *)
(* key and endpoint its parsers take.  The rest of the config is made by   *)
(* normalize_registration_response itself.                                 *)
THEOREM NormalizedPrepares ==
  ASSUME NEW body \in Body, Normalizes(body)
  PROVE  Prepares(normalize_registration_response(body))
           <=> \A field \in FieldsRead : body[field] = "good"
<1> DEFINE config == normalize_registration_response(body)
<1>1. /\ DOMAIN FieldOrder = 1..6
      /\ FieldOrder[1] = "private_key" /\ FieldOrder[2] = "interface_addresses"
      /\ FieldOrder[3] = "peer_public_key" /\ FieldOrder[4] = "peer_endpoint"
      /\ FieldOrder[5] = "allowed_ips" /\ FieldOrder[6] = "dns_servers"
  BY DEF FieldOrder
<1>2. Fields = {"private_key", "interface_addresses", "peer_public_key", "peer_endpoint",
                "allowed_ips", "dns_servers"}
  BY <1>1 DEF Fields
<1>3. /\ config.kind = "public_warp_wireguard_observed_v1" /\ config.version = 1
      /\ config.fields["private_key"] = "good" /\ config.fields["allowed_ips"] = "good"
      /\ config.fields["dns_servers"] = "good"
      /\ config.fields["peer_public_key"] = body["public_key"]
      /\ config.fields["peer_endpoint"] = body["endpoint"]
      /\ config.fields["interface_addresses"] =
           IF body["v4"] = "good" /\ body["v6"] = "good" THEN "good" ELSE "bad"
  BY <1>2 DEF normalize_registration_response, Observed
<1>4. \A field \in BodyFields : body[field] \in {"good", "bad"}
  BY DEF Body, Text, Normalizes, Present
<1>5. \A field \in Fields : config.fields[field] # "missing"
  BY <1>2, <1>3, <1>4 DEF BodyFields
<1>6. ensure_supported(config) /\ config.kind # "mock"
  BY <1>3 DEF ensure_supported
<1> DEFINE wrong == {i \in 1..6 : config.fields[FieldOrder[i]] # "good"}
<1>7. wrong = {} <=> \A field \in FieldsRead : body[field] = "good"
  <2>1. wrong = {} <=> config.fields["interface_addresses"] = "good"
                       /\ config.fields["peer_public_key"] = "good"
                       /\ config.fields["peer_endpoint"] = "good"
    <3>1. 1..6 = {1, 2, 3, 4, 5, 6}
      OBVIOUS
    <3> QED
      BY <1>1, <1>3, <3>1
  <2> QED
    BY <1>3, <2>1 DEF FieldsRead
<1>8. CASE wrong = {}
  <2>1. from_adapter_config(config) = "ok"
    BY <1>5, <1>6, <1>8 DEF from_adapter_config
  <2> QED
    BY <1>7, <1>8, <2>1 DEF Prepares
<1>9. CASE wrong # {}
  <2>1. PICK i \in 1..6 : i \in wrong /\ \A j \in wrong : i <= j
    <3>1. \A S \in SUBSET (1..6) : S # {} => \E i \in S : \A j \in S : i <= j
      <4> SUFFICES ASSUME NEW S \in SUBSET (1..6), NEW i \in S
                   PROVE  \E k \in S : \A j \in S : k <= j
        OBVIOUS
      <4>1. 1..6 = {1, 2, 3, 4, 5, 6}
        OBVIOUS
      <4>2. CASE 1 \in S
        BY <4>2
      <4>3. CASE 1 \notin S /\ 2 \in S
        BY <4>1, <4>3
      <4>4. CASE 1 \notin S /\ 2 \notin S /\ 3 \in S
        BY <4>1, <4>4
      <4>5. CASE 1 \notin S /\ 2 \notin S /\ 3 \notin S /\ 4 \in S
        BY <4>1, <4>5
      <4>6. CASE 1 \notin S /\ 2 \notin S /\ 3 \notin S /\ 4 \notin S /\ 5 \in S
        BY <4>1, <4>6
      <4>7. CASE 1 \notin S /\ 2 \notin S /\ 3 \notin S /\ 4 \notin S /\ 5 \notin S
        BY <4>1, <4>7
      <4> QED
        BY <4>2, <4>3, <4>4, <4>5, <4>6, <4>7
    <3>2. wrong \in SUBSET (1..6)
      OBVIOUS
    <3> HIDE DEF wrong
    <3> QED
      BY <1>9, <3>1, <3>2
  <2>2. (CHOOSE k \in wrong : \A j \in wrong : k <= j) \in 1..6
    <3>1. wrong \subseteq 1..6
      OBVIOUS
    <3> HIDE DEF wrong
    <3> QED
      BY <2>1, <3>1
  <2>3. from_adapter_config(config) = FieldOrder[CHOOSE k \in wrong : \A j \in wrong : k <= j]
    BY <1>5, <1>6, <1>9 DEF from_adapter_config
  <2>4. \A k \in 1..6 : FieldOrder[k] # "ok"
    BY DEF FieldOrder
  <2> HIDE DEF config, wrong
  <2>5. from_adapter_config(config) # "ok"
    BY <2>2, <2>3, <2>4
  <2> QED
    BY <1>7, <1>9, <2>5 DEF Prepares, config, wrong
<1> QED
  BY <1>8, <1>9

(* What the remote service and the documents would have to be like.        *)
AllIsGood ==
  /\ \A response \in Responses :
       create_public_registration(response) = "ok" =>
         \A field \in FieldsRead : response.body[field] = "good"
  /\ \A material \in Materials :
       Importable(material) => \A field \in Fields : material.fields[field] = "good"

LEMMA ImportedPrepares ==
  ASSUME NEW fields \in [Fields -> Text], \A field \in Fields : fields[field] = "good"
  PROVE  Prepares(Observed(fields))
<1>1. \A i \in 1..6 : FieldOrder[i] \in Fields
  BY DEF Fields
<1> QED
  BY <1>1 DEF Prepares, Observed, from_adapter_config, ensure_supported

FitInv == unfit = 0 /\ \A w \in Workers : pc[w] = "upsert" => prepares[w]

LEMMA FitStep ==
  ASSUME AllIsGood, TypeInv, FitInv, [Next]_vars
  PROVE  FitInv'
<1>1. /\ pc \in [Workers -> Steps] /\ prepares \in [Workers -> BOOLEAN]
  BY DEF TypeInv, RegistrationTypeOK
<1>2. CASE UNCHANGED vars
  BY <1>2 DEF vars, worker, stored, FitInv
<1>3. ASSUME NEW w \in Workers, UNCHANGED <<prepares, unfit>>, pc'[w] # "upsert",
             \A u \in Workers \ {w} : pc'[u] = pc[u]
      PROVE  FitInv'
  BY <1>3 DEF FitInv
<1>4. ASSUME NEW w \in Workers, NEW j \in Jobs, Start(w, j) PROVE FitInv'
  <2>1. FirstStep(j) # "upsert" /\ pc[w] = "idle"
    BY <1>4, RegistrationAssumption DEF Start, FirstStep
  <2> QED
    BY <1>1, <1>3, <1>4, <2>1 DEF Start, Fails, Goto, stored
<1>5. ASSUME NEW w \in Workers,
             ListInLoop(w) \/ CheckBudget(w) \/ Evidence(w) \/ Crash(w)
      PROVE  FitInv'
  BY <1>1, <1>3, <1>5 DEF ListInLoop, CheckBudget, Evidence, Crash, Fails, Ends, Goto, stored
<1>6. ASSUME NEW w \in Workers, NEW fit \in BOOLEAN, fit,
             prepares' = [prepares EXCEPT ![w] = fit], Goto(w, "upsert"), UNCHANGED unfit
      PROVE  FitInv'
  BY <1>1, <1>6 DEF Goto, FitInv
<1>7. ASSUME NEW w \in Workers, NEW response \in Responses, CallRemote(w, response)
      PROVE  FitInv'
  <2>1. CASE create_public_registration(response) = "ok"
    <3>1. response.body \in Body /\ Normalizes(response.body)
      BY <2>1, RegistrationAssumption DEF Response, create_public_registration
    <3>2. Prepares(normalize_registration_response(response.body))
      BY <2>1, <3>1, NormalizedPrepares DEF AllIsGood
    <3> QED
      BY <1>6, <1>7, <2>1, <3>2 DEF CallRemote, stored
  <2>2. CASE create_public_registration(response) # "ok"
    BY <1>1, <1>3, <1>7, <2>2 DEF CallRemote, Fails, Goto, stored
  <2> QED
    BY <2>1, <2>2
<1>8. ASSUME NEW w \in Workers, NEW material \in Materials, ReadMaterial(w, material)
      PROVE  FitInv'
  <2>1. CASE Importable(material) /\ Goto(w, "upsert")
             /\ prepares' = [prepares EXCEPT ![w] = Prepares(Observed(material.fields))]
    <3>1. material.fields \in [Fields -> Text]
      BY RegistrationAssumption DEF Material
    <3>2. Prepares(Observed(material.fields))
      BY <2>1, <3>1, ImportedPrepares DEF AllIsGood
    <3> QED
      BY <1>6, <1>8, <2>1, <3>2 DEF ReadMaterial, stored
  <2>2. CASE Fails(w, "read", "read") \/ Fails(w, "unsupported", "unsupported")
    BY <1>1, <1>3, <1>8, <2>2 DEF ReadMaterial, Fails, Goto, stored
  <2> QED
    BY <1>8, <2>1, <2>2 DEF ReadMaterial
<1>9. ASSUME NEW w \in Workers, Upsert(w) PROVE FitInv'
  <2>1. unfit' = unfit /\ UNCHANGED prepares
    BY <1>9 DEF Upsert, FitInv, stored
  <2>2. AfterUpsert(w) # "upsert"
    BY <1>9, RegistrationAssumption DEF AfterUpsert, Upsert, TypeInv, RunsHaveJobs
  <2> QED
    BY <1>1, <1>3, <1>9, <2>1, <2>2 DEF Upsert, Fails, Goto
<1> QED
  BY <1>2, <1>4, <1>5, <1>7, <1>8, <1>9 DEF Next, Work

(* What StoredMaterialPrepares is violated by, and nothing else: a field   *)
(* that normalize_registration_response or ObservedWarpMaterial::from_json *)
(* took without parsing it.  Where they are given none, every row of the   *)
(* store can be prepared.                                                  *)
THEOREM GoodMaterialPrepares ==
  ASSUME AllIsGood
  PROVE  Spec => []StoredMaterialPrepares
<1>1. Init => FitInv
  BY DEF Init, FitInv
<1>2. FitInv => StoredMaterialPrepares
  BY DEF FitInv, StoredMaterialPrepares
<1> QED
  BY <1>1, <1>2, FitStep, TypeInvariant, PTL DEF Spec

=============================================================================
