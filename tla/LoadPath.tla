-------------------------------- MODULE LoadPath --------------------------------
(***************************************************************************)
(* From the caller's request to a model that serves: precision and tier    *)
(* ceiling, package, step schedule, plan, caller exclusions, backend       *)
(* (runtime/facade.py from_pretrained, runtime/precision.py,               *)
(* runtime/step_cache_policy.py, planners/planner.py,                      *)
(* runtime/execution.py choose_backend, runtime/engine_backend.py).        *)
(* Each stage may refuse; each rewrites what the ones before it decided.   *)
(*                                                                         *)
(* Four passes stand for the registry: the FP8 engine, a numeric pass a    *)
(* checkpoint may require, a numeric pass of choice, and the step schedule *)
(* the runtime enters by itself.  Tiers: 0 bit-exact, 1 numeric, 2         *)
(* behavioral.                                                             *)
(***************************************************************************)
EXTENDS Naturals

CONSTANTS
  Steps,        (* step counts a caller or a checkpoint may ask for        *)
  BakedSteps,   (* the count a fused engine was built for                  *)
  NoCeiling     (* tier_ceiling is not given                               *)

ASSUME LoadAssumption == BakedSteps \in Steps /\ 0 \notin Steps /\ NoCeiling \notin 0 .. 2

VARIABLES
  stage,        (* what the load does next                                 *)
  request,      (* what the caller asked for, and of what                  *)
  ceiling,      (* tier_ceiling                                            *)
  schedule,     (* resolved_step_cache                                     *)
  plan,         (* pass -> its PassResult                                  *)
  where,        (* the backend that serves                                 *)
  loop          (* step count of the engine loop that was built, or 0      *)

loadVars == <<stage, request, ceiling, schedule, plan, where, loop>>

(* The caller's arguments; the family and what its checkpoint declares;    *)
(* the process environment; the device's kind of FP8 executor.  What       *)
(* decides nothing for a request keeps one value.                          *)
Requests ==
  {r \in [family : {"pi05", "dreamzero", "other"},
          placement : {"auto", "in_process", "worker", "engine"},
          precision : {"native", "fp8"},
          ceiling : {NoCeiling, 0, 1, 2},
          exclude : SUBSET {"engine_offload", "dreamzero_schedule", "tf32"},
          step_cache : {"none", "dynamic", "checkpoint"},
          steps : Steps, seed : BOOLEAN,
          required : BOOLEAN, dynamic : BOOLEAN, env_steps : {6, 8},
          device : {"none", "torch", "fused"}] :
     /\ r.required => r.family = "pi05"
     /\ r.dynamic \/ r.env_steps # 8 => r.family = "dreamzero"
     /\ r.step_cache # "none" \/ "dreamzero_schedule" \in r.exclude => r.family # "pi05"
     /\ r.steps # BakedSteps \/ r.seed => r.precision = "fp8"
     /\ r.steps # BakedSteps => r.device = "fused" /\ r.family # "other"}

NoSchedule == [dynamic |-> FALSE, steps |-> 8]

Changed(s) == s.dynamic \/ s.steps # 8

Pass(tier, applies) == [tier |-> tier, applies |-> applies, excluded |-> FALSE]

Applied == {n \in DOMAIN plan : plan[n].applies}

LoadInit ==
  /\ stage = "idle"
  /\ request = <<>> /\ plan = <<>>
  /\ ceiling = 0 /\ schedule = NoSchedule /\ where = "nowhere" /\ loop = 0

-----------------------------------------------------------------------------
Ask ==
  /\ stage = "idle"
  /\ request' \in Requests
  /\ stage' = "precision"
  /\ UNCHANGED <<ceiling, schedule, plan, where, loop>>

(* The runtime is closed, or there is none: the next request. *)
CloseRuntime ==
  /\ stage \in {"refused", "serving"}
  /\ stage' = "idle"
  /\ request' = <<>> /\ plan' = <<>>
  /\ ceiling' = 0 /\ schedule' = NoSchedule /\ where' = "nowhere" /\ loop' = 0

Refuse(at, refused) ==
  /\ stage = at /\ refused
  /\ stage' = "refused"
  /\ UNCHANGED <<request, ceiling, schedule, plan, where, loop>>

(* resolve_precision: FP8 is asked for, never inferred.                    *)
PrecisionRefused ==
  \/ request.precision = "native" /\ request.placement = "engine"
  \/ request.precision = "fp8" /\ (request.placement = "worker" \/ request.ceiling = 0)

ResolvePrecision ==
  /\ stage = "precision" /\ ~PrecisionRefused
  /\ ceiling' = CASE request.ceiling # NoCeiling -> request.ceiling
                  [] request.ceiling = NoCeiling /\ request.precision = "native" -> 0
                  [] OTHER -> 1
  /\ stage' = "package"
  /\ UNCHANGED <<request, schedule, plan, where, loop>>

(* _load_package: the package is found and may serve, or it is refused. *)
LoadPackage ==
  /\ stage = "package"
  /\ stage' = "schedule"
  /\ UNCHANGED <<request, ceiling, schedule, plan, where, loop>>

(* resolve_step_cache: an explicit choice, else the environment, else the  *)
(* checkpoint.                                                             *)
Selected ==
  [dynamic |-> request.step_cache = "dynamic" \/ request.dynamic,
   steps |-> IF request.step_cache = "none" THEN request.env_steps ELSE 8]

ScheduleRefused ==
  \/ request.family # "dreamzero" /\ request.step_cache = "dynamic"
  \/ /\ request.family = "dreamzero" /\ Changed(Selected)
     /\ \/ ceiling # 2
        \/ request.placement = "worker"
        \/ "dreamzero_schedule" \in request.exclude

ResolveSchedule ==
  /\ stage = "schedule" /\ ~ScheduleRefused
  /\ schedule' = IF request.family = "dreamzero" THEN Selected ELSE NoSchedule
  /\ stage' = "compile"
  /\ UNCHANGED <<request, ceiling, plan, where, loop>>

(* The registry evaluates the request's declaration on the device: torch   *)
(* executors have a recipe per family, a fused engine declines a step      *)
(* count it was not built for and knows of no other reason to decline.     *)
Evaluated ==
  [engine_offload |->
     Pass(1, \/ request.device = "torch" /\ request.family # "other"
             \/ /\ request.device = "fused"
                /\ request.family = "pi05" => request.steps = BakedSteps),
   tf32 |-> Pass(1, request.required),
   conv |-> Pass(1, request.family # "other")]

(* A slip: the ceiling binds the required passes only. *)
DemotedNever == Evaluated

(* A pass above the ceiling is demoted. *)
Demoted == [n \in DOMAIN Evaluated |->
             [Evaluated[n] EXCEPT !.applies = @ /\ Evaluated[n].tier <= ceiling]]

(* annotate_step_cache_plan *)
Annotated(results) ==
  IF request.family = "dreamzero"
  THEN [n \in DOMAIN results \cup {"dreamzero_schedule"} |->
          IF n = "dreamzero_schedule" THEN Pass(IF Changed(schedule) THEN 2 ELSE 0, TRUE)
                                      ELSE results[n]]
  ELSE results

RequiredIsOver == request.required /\ Evaluated.tf32.tier > ceiling

Compile ==
  /\ stage = "compile" /\ ~RequiredIsOver /\ (Changed(schedule) => ceiling = 2)
  /\ plan' = Annotated(Demoted)
  /\ stage' = "exclude"
  /\ UNCHANGED <<request, ceiling, schedule, where, loop>>

(* Plan.without: a name the plan does not know is refused.                 *)
ExcludeByCaller ==
  /\ stage = "exclude" /\ request.exclude \subseteq DOMAIN plan
  /\ plan' = [n \in DOMAIN plan |->
               IF n \in request.exclude
               THEN [plan[n] EXCEPT !.applies = FALSE, !.excluded = TRUE] ELSE plan[n]]
  /\ stage' = "choose"
  /\ UNCHANGED <<request, ceiling, schedule, where, loop>>

-----------------------------------------------------------------------------
(* A slip: the plan of a native request keeps the engine. *)
HostKeepingEngine(placement) ==
  /\ request.precision = "native"
  /\ where' = placement /\ stage' = "serving"
  /\ UNCHANGED <<request, ceiling, schedule, plan, loop>>

(* constrain_precision, then a host: the engine entry of a native plan     *)
(* never applies.                                                          *)
Host(placement) ==
  /\ request.precision = "native"
  /\ placement = "worker" => ~Changed(schedule)
  /\ plan' = [plan EXCEPT !.engine_offload.applies = FALSE]
  /\ where' = placement /\ stage' = "serving"
  /\ UNCHANGED <<request, ceiling, schedule, loop>>

(* can_host_in_process: the adapter says, at the time it is asked. *)
ChooseHost ==
  /\ stage = "choose"
  /\ \/ request.placement \in {"in_process", "auto"} /\ Host("in_process")
     \/ request.placement \in {"worker", "auto"} /\ Host("worker")

(* require_fp8_plan, and what FP8 does not support.                        *)
Fp8Refused ==
  \/ request.family = "dreamzero" /\ schedule.steps # 8
  \/ request.family = "other"
  \/ plan.engine_offload.excluded \/ ~plan.engine_offload.applies
  \/ request.seed

(* A fused engine that bakes its point only when it is built. *)
DeclaresItsPoint == request.device = "fused" /\ request.family # "pi05"

(* EngineBackend: the loop is built.  The torch executors run the native   *)
(* loop and have no count of their own.                                    *)
Build ==
  /\ stage = "choose" /\ request.precision = "fp8" /\ ~Fp8Refused
  /\ loop' \in IF DeclaresItsPoint THEN Steps
               ELSE IF request.device = "fused" THEN {BakedSteps} ELSE {0}
  /\ stage' = "built"
  /\ UNCHANGED <<request, ceiling, schedule, plan, where>>

PointAgrees == request.device = "fused" => loop = request.steps

(* _mark_plan_engine_executed: a fused engine runs none of the passes that *)
(* rewrite torch modules.                                                  *)
Executed ==
  [n \in DOMAIN plan |->
    IF n = "engine_offload" /\ ~plan[n].excluded THEN [plan[n] EXCEPT !.applies = TRUE]
    ELSE [plan[n] EXCEPT !.applies = @ /\ (request.device = "torch" \/ n = "dreamzero_schedule")]]

ServeEngine ==
  /\ stage = "built" /\ PointAgrees
  /\ plan' = Executed
  /\ where' = "engine" /\ stage' = "serving"
  /\ UNCHANGED <<request, ceiling, schedule, loop>>

(* The loop declares another point than was asked for, or lacks its FP8    *)
(* projections: it is closed.                                              *)
RefuseLoop ==
  /\ stage = "built" /\ DeclaresItsPoint
  /\ loop' = 0 /\ stage' = "refused"
  /\ UNCHANGED <<request, ceiling, schedule, plan, where>>
-----------------------------------------------------------------------------
(* The stages refuse; the last one also for what it finds on the host: no  *)
(* room in this process, no kernels, a worker for an altered schedule.     *)
Refusals ==
  \/ Refuse("precision", PrecisionRefused)
  \/ Refuse("package", TRUE)
  \/ Refuse("schedule", ScheduleRefused)
  \/ Refuse("compile", RequiredIsOver)
  \/ Refuse("exclude", ~(request.exclude \subseteq DOMAIN plan))
  \/ Refuse("choose", \/ request.precision = "fp8"
                      \/ request.placement = "in_process"
                      \/ Changed(schedule))

LoadNext ==
  \/ Ask \/ CloseRuntime \/ ResolvePrecision \/ LoadPackage \/ ResolveSchedule \/ Compile
  \/ ExcludeByCaller \/ ChooseHost \/ Build \/ ServeEngine \/ RefuseLoop \/ Refusals

LoadSpec == LoadInit /\ [][LoadNext]_loadVars

-----------------------------------------------------------------------------
Serving == stage = "serving"

(* What the caller allows: no ceiling given means bit-exact, and numeric   *)
(* for a request of FP8.                                                   *)
Allowed == IF request.ceiling # NoCeiling THEN request.ceiling
           ELSE IF request.precision = "fp8" THEN 1 ELSE 0

(* Nothing above the caller's ceiling and nothing the caller excluded is   *)
(* served, whatever stage had entered it; and an altered step schedule is  *)
(* served only where the ceiling was raised for it, and by no worker.      *)
ServedWithinPermission ==
  Serving =>
    /\ \A n \in Applied : plan[n].tier <= Allowed /\ n \notin request.exclude
    /\ Changed(schedule) => request.ceiling = 2 /\ where # "worker"

(* What serves is what was asked for, and what the plan that explain()     *)
(* prints says: the engine serves exactly the requests of FP8, a request   *)
(* of a placement for native precision gets it, and the engine entry       *)
(* applies exactly when the engine serves; a fused engine leaves no entry  *)
(* for the torch modules it does not run, and runs the step count that was *)
(* asked for; an altered schedule is priced as one; and a pass the         *)
(* checkpoint requires is served, unless the caller excluded it by name or *)
(* a fused engine replaces the modules it works on.                        *)
ServedAsAsked ==
  Serving =>
    /\ where = "engine" <=> request.precision = "fp8"
    /\ request.precision = "native" /\ request.placement # "auto" => where = request.placement
    /\ plan.engine_offload.applies <=> where = "engine"
    /\ where = "engine" /\ request.device = "fused"
         => /\ Applied \subseteq {"engine_offload", "dreamzero_schedule"}
            /\ loop = request.steps
    /\ Changed(schedule) => \E n \in Applied : plan[n].tier = 2
    /\ request.required => \/ plan.tf32.applies \/ "tf32" \in request.exclude
                           \/ where = "engine" /\ request.device = "fused"
=============================================================================
