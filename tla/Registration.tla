--------------------------- MODULE Registration ---------------------------
(***************************************************************************)
(* The registration lifecycle: RegistrationService of src/warp_lifecycle.rs*)
(* as the two harnesses run it (src/public_warp_registration_harness.rs,   *)
(* src/real_warp_integration.rs), and the import of observed material of   *)
(* src/observed_warp_material.rs, against one State Store.                 *)
(*                                                                         *)
(* A worker is a process: it opens the store, reads how many rows there    *)
(* are, asks the remote service, and writes a row; other processes run     *)
(* between any two of these steps, any of them may crash, and any access   *)
(* of the store may fail.  No code deletes a row, and what was stored of a *)
(* row is looked at again only when a data plane is prepared.              *)
(***************************************************************************)
EXTENDS RetryPolicy, RegistrationClient, FiniteSets

CONSTANTS
  Workers,    \* the processes
  Jobs,       \* what they run: "harness", "fullPath" or "import"
  Budget,     \* registration_budget
  Target,     \* target_serving_size
  Responses,  \* the responses of the remote service
  Materials,  \* the documents that are imported
  MaxRuns     \* bound: how many runs are started

ASSUME RegistrationAssumption ==
  /\ IsFiniteSet(Workers)
  /\ Jobs \subseteq {"harness", "fullPath", "import"}
  /\ Budget \in Nat
  /\ Target \in Nat
  /\ Responses \subseteq Response
  /\ Materials \subseteq Material
  /\ MaxRuns \in Nat

VARIABLES
  pc,          \* where each worker is
  job,         \* what it runs
  retry,       \* its service's memory of OperationKind::Registration
  failure,     \* the RegistrationError of its last run, or "none"
  report,      \* what its last run reported
  prepares,    \* the material it has read or was given is fit for the data plane
  registered,  \* rows of the store that registrations created
  looped,      \* history: how many of them the loop of the full path created
  imported,    \* rows of the store that imports created
  unfit,       \* how many of the rows the data plane cannot prepare
  remote,      \* registrations that exist at the remote end
  runs         \* how many runs were started

worker == <<pc, job, retry, failure, report, prepares>>
stored == <<registered, looped, imported, unfit>>
vars   == <<worker, stored, remote, runs>>

rows == registered + imported

Goto(w, step) == pc' = [pc EXCEPT ![w] = step]

(* The run of w is over with an error, reported in a class: the harness    *)
(* has a class per error, the full path calls every error of the lifecycle *)
(* service a registration failure.                                         *)
ClassOf(w, error) ==
  IF job[w] = "fullPath" THEN "registration" ELSE error

Fails(w, error, class) ==
  /\ Goto(w, "idle")
  /\ failure' = [failure EXCEPT ![w] = error]
  /\ report' = [report EXCEPT ![w] = class]

Ends(w, as) ==
  /\ Goto(w, "idle")
  /\ report' = [report EXCEPT ![w] = as]
  /\ UNCHANGED failure

-----------------------------------------------------------------------------

FirstStep(j) == CASE j = "harness"  -> "budget"
                  [] j = "fullPath" -> "list"
                  [] j = "import"   -> "read"

(* A process starts: the gate of a harness is closed and nothing happens,  *)
(* or its store cannot be opened, or it goes on with a new service.        *)
Start(w, j) ==
  /\ pc[w] = "idle"
  /\ runs < MaxRuns
  /\ runs' = runs + 1
  /\ job' = [job EXCEPT ![w] = j]
  /\ retry' = [retry EXCEPT ![w] = Fresh]
  /\ \/ /\ j # "import"
        /\ failure' = [failure EXCEPT ![w] = "none"]
        /\ report' = [report EXCEPT ![w] = "skipped"]
        /\ UNCHANGED pc
     \/ Fails(w, "store", "store")
     \/ /\ Goto(w, FirstStep(j))
        /\ failure' = [failure EXCEPT ![w] = "none"]
        /\ report' = [report EXCEPT ![w] = "none"]
  /\ UNCHANGED <<prepares, stored, remote>>

(* ensure_registrations: the condition of its loop.  The mutant goes one   *)
(* beyond the target.                                                      *)
ListInLoopLate(w) ==
  /\ pc[w] = "list"
  /\ \/ Fails(w, "store", ClassOf(w, "store"))
     \/ /\ Goto(w, IF rows <= Target THEN "budget" ELSE "evidence")
        /\ UNCHANGED <<failure, report>>
  /\ UNCHANGED <<job, retry, prepares, stored, remote, runs>>

ListInLoop(w) ==
  /\ pc[w] = "list"
  /\ \/ Fails(w, "store", ClassOf(w, "store"))
     \/ /\ Goto(w, IF rows < Target THEN "budget" ELSE "evidence")
        /\ UNCHANGED <<failure, report>>
  /\ UNCHANGED <<job, retry, prepares, stored, remote, runs>>

(* RegistrationService::create_public_registration, its first statement:   *)
(* the rows of the store against the budget.  The mutants let one too many *)
(* pass, and turn the loop again when the store fails.                     *)
CheckBudgetLate(w) ==
  /\ pc[w] = "budget"
  /\ \/ Fails(w, "store", ClassOf(w, "store"))
     \/ rows > Budget /\ Fails(w, "budget", ClassOf(w, "budget"))
     \/ /\ rows <= Budget
        /\ Goto(w, "call")
        /\ UNCHANGED <<failure, report>>
  /\ UNCHANGED <<job, retry, prepares, stored, remote, runs>>

CheckBudgetAgain(w) ==
  /\ pc[w] = "budget"
  /\ \/ Goto(w, "list") /\ UNCHANGED <<failure, report>>
     \/ rows >= Budget /\ Fails(w, "budget", ClassOf(w, "budget"))
     \/ /\ rows < Budget
        /\ Goto(w, "call")
        /\ UNCHANGED <<failure, report>>
  /\ UNCHANGED <<job, retry, prepares, stored, remote, runs>>

CheckBudget(w) ==
  /\ pc[w] = "budget"
  /\ \/ Fails(w, "store", ClassOf(w, "store"))
     \/ rows >= Budget /\ Fails(w, "budget", ClassOf(w, "budget"))
     \/ /\ rows < Budget
        /\ Goto(w, "call")
        /\ UNCHANGED <<failure, report>>
  /\ UNCHANGED <<job, retry, prepares, stored, remote, runs>>

(* Its second statement: the remote call, and what the retry discipline    *)
(* remembers of it.  The success is remembered before anything is stored.  *)
CallRemote(w, response) ==
  /\ pc[w] = "call"
  /\ remote' = IF CreatedRemotely(response) THEN remote + 1 ELSE remote
  /\ LET answer == create_public_registration(response) IN
     IF answer = "ok"
     THEN /\ retry' = [retry EXCEPT ![w] = Fresh]
          /\ prepares' = [prepares EXCEPT ![w] =
                          Prepares(normalize_registration_response(response.body))]
          /\ Goto(w, "upsert")
          /\ UNCHANGED <<failure, report>>
     ELSE /\ retry' = [retry EXCEPT ![w] = AfterFailure(@, answer)]
          /\ Fails(w, answer, ClassOf(w, answer))
          /\ UNCHANGED prepares
  /\ UNCHANGED <<job, stored, runs>>

(* The import reads its document: it cannot, or finds a shape that it does *)
(* not support, or has material to store.                                  *)
ReadMaterial(w, material) ==
  /\ pc[w] = "read"
  /\ \/ Fails(w, "read", "read") /\ UNCHANGED prepares
     \/ /\ ~Importable(material)
        /\ Fails(w, "unsupported", "unsupported")
        /\ UNCHANGED prepares
     \/ /\ Importable(material)
        /\ prepares' = [prepares EXCEPT ![w] = Prepares(Observed(material.fields))]
        /\ Goto(w, "upsert")
        /\ UNCHANGED <<failure, report>>
  /\ UNCHANGED <<job, retry, stored, remote, runs>>

(* upsert_instance under a new identity: of a registration, or of imported *)
(* material, which no budget is asked for.                                 *)
AfterUpsert(w) == CASE job[w] = "harness"  -> "evidence"
                    [] job[w] = "fullPath" -> "list"
                    [] job[w] = "import"   -> "idle"

Upsert(w) ==
  /\ pc[w] = "upsert"
  /\ \/ /\ Fails(w, "store", ClassOf(w, "store"))
        /\ UNCHANGED stored
     \/ /\ Goto(w, AfterUpsert(w))
        /\ IF job[w] = "import"
           THEN imported' = imported + 1 /\ UNCHANGED <<registered, looped>>
           ELSE /\ registered' = registered + 1
                /\ looped' = IF job[w] = "fullPath" THEN looped + 1 ELSE looped
                /\ UNCHANGED imported
        /\ unfit' = IF prepares[w] THEN unfit ELSE unfit + 1
        /\ UNCHANGED <<failure, report>>
  /\ UNCHANGED <<job, retry, prepares, remote, runs>>

(* The rows are listed once more for the report.  The full path prepares   *)
(* one data plane for all of them, and reports that a real one is not      *)
(* implemented: with the evidence that it was prepared, or without.        *)
Evidence(w) ==
  /\ pc[w] = "evidence"
  /\ \/ Fails(w, "store", "store")
     \/ Ends(w, IF job[w] = "harness" THEN "succeeded"
                ELSE IF unfit = 0 THEN "runtimeUnsupported"
                ELSE "notPrepared")
  /\ UNCHANGED <<job, retry, prepares, stored, remote, runs>>

(* The process dies: its service is lost, the store and the remote stay.   *)
Crash(w) ==
  /\ pc[w] # "idle"
  /\ Goto(w, "idle")
  /\ retry' = [retry EXCEPT ![w] = Fresh]
  /\ UNCHANGED <<job, failure, report, prepares, stored, remote, runs>>

-----------------------------------------------------------------------------

Init ==
  /\ pc = [w \in Workers |-> "idle"]
  /\ job = [w \in Workers |-> "none"]
  /\ retry = [w \in Workers |-> Fresh]
  /\ failure = [w \in Workers |-> "none"]
  /\ report = [w \in Workers |-> "none"]
  /\ prepares = [w \in Workers |-> FALSE]
  /\ registered = 0
  /\ looped = 0
  /\ imported = 0
  /\ unfit = 0
  /\ remote = 0
  /\ runs = 0

Work(w) ==
  \/ ListInLoop(w)
  \/ CheckBudget(w)
  \/ \E response \in Responses : CallRemote(w, response)
  \/ \E material \in Materials : ReadMaterial(w, material)
  \/ Upsert(w)
  \/ Evidence(w)

Next ==
  \E w \in Workers :
    \/ \E j \in Jobs : Start(w, j)
    \/ Work(w)
    \/ Crash(w)

Spec == Init /\ [][Next]_vars

(* A process that runs goes on, and the remote service answers or the      *)
(* request times out.                                                      *)
FairSpec == Spec /\ \A w \in Workers : WF_vars(Work(w))

-----------------------------------------------------------------------------
(* Properties.                                                             *)

(* The type of the state.                                                  *)
Errors == {"store", "budget", "blocked", "unsupported", "transient", "read"}

Steps == {"idle", "list", "budget", "call", "read", "upsert", "evidence"}

Reports == Errors \cup {"none", "skipped", "succeeded", "registration", "runtimeUnsupported",
                       "notPrepared"}

RegistrationTypeOK ==
  /\ pc \in [Workers -> Steps]
  /\ job \in [Workers -> Jobs \cup {"none"}]
  /\ retry \in [Workers -> Memory]
  /\ failure \in [Workers -> Errors \cup {"none"}]
  /\ report \in [Workers -> Reports]
  /\ prepares \in [Workers -> BOOLEAN]
  /\ registered \in Nat
  /\ looped \in 0..registered
  /\ imported \in Nat
  /\ unfit \in 0..(registered + imported)
  /\ remote \in Nat
  /\ runs \in Nat

Creating == {w \in Workers : job[w] # "import" /\ pc[w] \in {"call", "upsert"}}

(* How far the budget can be overrun: the check and the write are not one  *)
(* step, so every other process may pass the check before a row appears,   *)
(* and no more than that.  A process alone keeps the budget exactly.       *)
RetainedWithinBudget ==
  registered + Cardinality(Creating)
    <= IF Budget = 0 THEN 0 ELSE Budget + Cardinality(Workers) - 1

Looping == {w \in Workers : job[w] = "fullPath" /\ pc[w] \in {"budget", "call", "upsert"}}

(* The loop of the full path creates only what the target calls for, with  *)
(* the same allowance for the other processes, whatever rows the other     *)
(* jobs add meanwhile.                                                     *)
CreatedOnlyWhenNeeded ==
  looped + Cardinality(Looping)
    <= IF Target = 0 THEN 0 ELSE Target + Cardinality(Workers) - 1

(* Every row that a registration created stands for a registration that    *)
(* exists at the remote end: nothing is stored on a failed call.           *)
NothingInvented ==
  registered + Cardinality({w \in Creating : pc[w] = "upsert"}) <= remote

(* How far a run is from its end.  A turn of the loop takes four steps and *)
(* leaves one row less to create, or as many as there were if others have  *)
(* created them meanwhile.                                                 *)
Missing == IF rows < Target THEN Target - rows ELSE 0
AfterTurn == IF Missing > 0 THEN Missing - 1 ELSE 0

Distance(w) ==
  CASE pc[w] = "idle"     -> 0
    [] pc[w] = "evidence" -> 1
    [] pc[w] = "list"     -> 4 * Missing + 2
    [] pc[w] = "upsert"   -> 4 * AfterTurn + 3
    [] pc[w] \in {"call", "read"} -> 4 * AfterTurn + 4
    [] pc[w] = "budget"   -> 4 * AfterTurn + 5

(* Every step of a run brings it closer to its end, and no step of another *)
(* process takes it further away.                                          *)
RunsComeCloser ==
  [][\A w \in Workers :
       pc[w] # "idle" =>
         /\ Distance(w)' <= Distance(w)
         /\ pc'[w] # pc[w] => Distance(w)' < Distance(w)]_vars

(* Who hides what: an error is reported as what it is, or as a failure of  *)
(* the registration by the full path.                                      *)
OnlyTheFullPathHides ==
  \A w \in Workers :
    failure[w] # "none" =>
      report[w] = failure[w] \/ (job[w] = "fullPath" /\ report[w] = "registration")

(* Every run ends: the loop of the full path gives up at the first error   *)
(* and every turn without one brings it closer to the target.              *)
RunsEnd == \A w \in Workers : pc[w] # "idle" ~> pc[w] = "idle"

(* What the documents say and the code does not keep.                      *)

(* CONTEXT.md:160: the budget bounds the registrations created.            *)
RemoteWithinBudget == remote <= Budget

(* docs/public-warp-registration.md:78: a store failure is not reported as *)
(* a failure of the remote registration.                                   *)
StoreFailuresNotHidden ==
  \A w \in Workers : failure[w] = "store" => report[w] = "store"

(* docs/public-warp-registration.md:21: what is stored of a registration   *)
(* is enough for the data plane to establish a connection later.           *)
StoredMaterialPrepares == unfit = 0

=============================================================================
