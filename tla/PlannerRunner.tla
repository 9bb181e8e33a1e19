---------------------------- MODULE PlannerRunner ----------------------------
(***************************************************************************)
(* CandidatePlannerRunner (lama/search/cegis_framework.cc and              *)
(* cegis_native_runtime.inc): how a CEGIS process runs a candidate planner *)
(* and takes its result from files.  A call cleans up, starts a shell in a *)
(* process group of its own, polls it until it ends or its deadline is     *)
(* over, and reads what was left.  The planner is external and runs side   *)
(* by side with the runner; files outlive calls, processes outlive the     *)
(* runner.  A call is named <<r, n>>: the n-th round of the process r.     *)
(***************************************************************************)
EXTENDS Naturals

CONSTANTS
  Runs,          (* the CEGIS processes that use one installation            *)
  Kinds,         (* the planners they may be configured with                 *)
  Native,        (* IGC_CANDIDATE_RUNTIME_MODE is "native"                   *)
  MaxRounds,     (* bound on the calls of a process                          *)
  Parallel,      (* the processes run at the same time, in their own run dirs *)
  Killable,      (* a CEGIS process may be killed; its planner lives on      *)
  Background,    (* a planner may leave a descendant that writes a file late *)
  Outputs,       (* what planners print                                      *)
  Nobody         (* the author of what no call has written                   *)

GcFamily == {"IGC", "GC_LAMA"}
CpcesFamily == {"GCPCES", "ICPCES"}
CpaFamily == {"CNF", "DNF", "PIP"}
AllKinds == {"T1", "CFF", "CPAH"} \cup GcFamily \cup CpcesFamily \cup CpaFamily

\* A finished file: a plan, the no-plan marker, the success marker without
\* actions, or anything else.
Whole == {"plan", "noplan", "bare", "junk"}

ASSUME RunnerSetup == /\ Kinds \subseteq AllKinds /\ Outputs \subseteq Whole
                      /\ MaxRounds \in Nat \ {0}
                      /\ {Native, Parallel, Killable, Background} \subseteq BOOLEAN
                      /\ Nobody \notin Runs \cup (Runs \X (1..MaxRounds))

Calls == Runs \X (1..MaxRounds)

(* The files that matter: what one stage of a planner leaves for the next  *)
(* (theory_0.al, theory_names, output, sas_plan, inp.cnf.nnf), the file    *)
(* with the plan (planner.result, plan-result, finalplan, the raw plan),   *)
(* a second one (C_Plan), the console, the recovered plan, and plan-result *)
(* of the iteration.                                                       *)
FileNames == {"mid", "artifact", "second", "stdout", "recovered", "stable"}

\* What a file may hold: an interrupted write, or one of Whole.
Content == [of : Calls \cup {Nobody}, what : Whole \cup {"absent", "empty", "cut"}]
NoFile == [of |-> Nobody, what |-> "absent"]
Exists(c) == c.what # "absent"
Readable(c) == c.what \notin {"absent", "empty"}

VARIABLES
  kind,    (* the configured planner                                         *)
  run,     (* the runner in each process                                     *)
  group,   (* the process group of the last command of each process          *)
  files,   (* contents by directory and name                                 *)
  lock,    (* the process whose planner holds the iCPCES lock                *)
  strays   (* descendants that have yet to write                             *)

vars == <<kind, run, group, files, lock, strays>>

Current(r) == <<r, run[r].round>>
Command(r) == <<Current(r), run[r].command>>

-----------------------------------------------------------------------------
(* Directories.                                                             *)

Root == <<"root", 0>>

\* Native runs use the run directory for every round.
IterDir(c) == <<c[1], IF Native THEN 0 ELSE c[2]>>

WorkFiles == {"mid", "artifact", "second"}

InRootAlways(f) == f \in WorkFiles \ (IF kind \in CpcesFamily THEN {"artifact"} ELSE {})

\* Native planners work in the solver directory, but gCPCES and iCPCES are
\* given the file for their plan; iCPCES works there in both modes.
InRoot(f) == \/ Native /\ kind \notin CpcesFamily /\ f \in WorkFiles
             \/ kind = "ICPCES" /\ f = "mid"

At(c, f) == <<IF InRoot(f) THEN Root ELSE IterDir(c), f>>
Locations == ({Root} \cup {IterDir(c) : c \in Calls}) \X FileNames

Removed(c, names) == [l \in DOMAIN files |-> IF l \in {At(c, f) : f \in names} THEN NoFile ELSE files[l]]
Put(l, author, what) == [files EXCEPT ![l] = [of |-> author, what |-> what]]
View(c) == [f \in FileNames |-> files[At(c, f)]]

\* What the runner unlinks before it starts the planner.
Unlinked ==
  CASE kind = "T1"        -> {"mid", "artifact", "stdout"} \cup (IF Native THEN {"stable"} ELSE {})
    [] kind = "CFF"       -> {"stdout", "stable"}
    [] kind \in GcFamily  -> IF Native THEN {"stdout", "stable"} ELSE {}
    [] kind \in CpcesFamily -> {"stdout", "artifact", "stable"}
    [] OTHER              -> {"stdout"} \cup (IF Native THEN {"artifact", "stable"} ELSE {})

\* What the command itself removes (rm -f).
RemovedByShell ==
  CASE kind \in GcFamily -> {"mid", "artifact", "second"}
    [] kind = "ICPCES"   -> {"mid"}
    [] OTHER             -> {"mid", "artifact"}

-----------------------------------------------------------------------------
(* The planner (external), as the commands of the runner start it.          *)

\* The stages of a command, in this order.  The second command is the
\* search of the GC family and the recovery of the CPA family.
Stages(command) ==
  IF command = 2 THEN {"solve"}
  ELSE CASE kind = "T1"                -> {"open", "translate", "solve"}
         [] kind \in {"CFF", "GCPCES"} -> {"open", "solve"}
         [] kind \in GcFamily          -> {"open", "clean", "translate", "test"}
         [] kind = "ICPCES"            -> {"open", "lock", "clean", "translate", "solve"}
         [] OTHER                      -> {"open", "clean", "translate", "test", "solve"}

Earlier == [open      |-> {},
            lock      |-> {"open"},
            clean     |-> {"open", "lock"},
            translate |-> {"open", "lock", "clean"},
            test      |-> {"open", "lock", "clean", "translate"},
            solve     |-> {"open", "lock", "clean", "translate", "test"}]

\* Where a plan may be printed.
Printed(command) ==
  CASE kind = "CFF"                          -> {"stdout"}
    [] kind \in GcFamily                     -> {"artifact", "second", "stdout"}
    [] kind \in CpcesFamily                  -> {"artifact", "stdout"}
    [] kind \in CpaFamily /\ command = 2     -> {"recovered"}
    [] OTHER                                 -> {"artifact"}

\* Only the CPA family claims plans without printing them.
Printable == IF kind \in CpaFamily THEN Outputs ELSE Outputs \ {"bare"}

Group(state, stages) ==
  [state |-> state, stages |-> stages, input |-> Nobody, todo |-> {}, writing |-> "nothing"]

Doing(r, stage) == /\ group[r].state = "running"
                   /\ stage \in group[r].stages
                   /\ group[r].stages \cap Earlier[stage] = {}
Done(r, stage) == group' = [group EXCEPT ![r].stages = @ \ {stage}]

Release(r) == lock' = IF lock = r THEN Nobody ELSE lock

\* The shell opens the console.
OpenConsole(r) ==
  /\ Doing(r, "open") /\ Done(r, "open")
  /\ files' = Put(At(Current(r), "stdout"), Current(r), "empty")
  /\ UNCHANGED <<kind, run, lock, strays>>

TakeLockAnyway(r) ==
  /\ Doing(r, "lock") /\ Done(r, "lock")
  /\ lock' = r
  /\ UNCHANGED <<kind, run, files, strays>>

\* flock -x.
TakeLock(r) ==
  /\ Doing(r, "lock") /\ Done(r, "lock")
  /\ lock = Nobody /\ lock' = r
  /\ UNCHANGED <<kind, run, files, strays>>

RemoveOld(r) ==
  /\ Doing(r, "clean") /\ Done(r, "clean")
  /\ files' = Removed(Current(r), RemovedByShell)
  /\ UNCHANGED <<kind, run, lock, strays>>

\* A translator may end without having written anything.
Translate(r) ==
  /\ Doing(r, "translate") /\ Done(r, "translate")
  /\ files' \in {files, Put(At(Current(r), "mid"), Current(r), "junk")}
  /\ UNCHANGED <<kind, run, lock, strays>>

\* test -s: the command fails when there is nothing to go on with.
TestOutput(r) ==
  /\ Doing(r, "test")
  /\ IF Readable(files[At(Current(r), "mid")])
       THEN Done(r, "test") /\ UNCHANGED lock
       ELSE group' = [group EXCEPT ![r] = Group("failed", {})] /\ Release(r)
  /\ UNCHANGED <<kind, run, files, strays>>

\* A search works on the problem of its call, or on what the stage before
\* it left, whoever that was.
Solve(r) ==
  /\ Doing(r, "solve")
  /\ LET mid == files[At(Current(r), "mid")]
         direct == kind \in {"CFF", "GCPCES"}
     IN  group' = [group EXCEPT ![r].stages = {},
                                ![r].input = IF direct THEN Current(r) ELSE mid.of,
                                ![r].todo = IF direct \/ Readable(mid)
                                              THEN Printed(run[r].command) ELSE {}]
  /\ UNCHANGED <<kind, run, files, lock, strays>>

\* A planner prints to one file after the other, in any order, or not at all.
StartPrinting(r) ==
  /\ group[r].state = "running" /\ group[r].writing = "nothing"
  /\ \E f \in group[r].todo, what \in {"empty", "cut"} :
       /\ group' = [group EXCEPT ![r].writing = f, ![r].todo = @ \ {f}]
       /\ files' = Put(At(Current(r), f), group[r].input, what)
  /\ UNCHANGED <<kind, run, lock, strays>>

EndPrinting(r) ==
  /\ group[r].state = "running" /\ group[r].writing # "nothing"
  /\ \E what \in Printable :
       files' = Put(At(Current(r), group[r].writing), group[r].input, what)
  /\ group' = [group EXCEPT ![r].writing = "nothing"]
  /\ UNCHANGED <<kind, run, lock, strays>>

\* A descendant that goes on in the background when its planner has ended.  iCPCES waits
\* for its subprocesses, which inherit its lock.
Leaves(r) ==
  \/ UNCHANGED strays
  \/ /\ Background /\ kind # "ICPCES"
     /\ \E f \in group[r].todo :
          strays' = strays \cup {[by |-> Command(r), at |-> At(Current(r), f), of |-> group[r].input]}

\* Exit with status 0, with everything written that was begun.
Exit(r) ==
  /\ group[r].state = "running" /\ group[r].stages = {} /\ group[r].writing = "nothing"
  /\ Leaves(r)
  /\ group' = [group EXCEPT ![r] = Group("exited", {})]
  /\ Release(r)
  /\ UNCHANGED <<kind, run, files>>

\* Exit with another status, or death by a signal, SIGTERM included.
Fail(r) ==
  /\ group[r].state = "running"
  /\ Leaves(r)
  /\ group' = [group EXCEPT ![r] = Group("failed", {})]
  /\ Release(r)
  /\ UNCHANGED <<kind, run, files>>

StrayWrites ==
  /\ \E s \in strays, what \in {"cut", "plan"} :
       /\ files' = Put(s.at, s.of, what)
       /\ strays' = strays \ {s}
  /\ UNCHANGED <<kind, run, group, lock>>

-----------------------------------------------------------------------------
(* How the files are read.  An answer is a status and the content it rests  *)
(* on; "MORE" asks for the second command.                                  *)

Said(status, basis) == [status |-> status, basis |-> basis]

Reading(plans, c) ==
  Said(IF c.what \in plans THEN "OK"
       ELSE IF c.what = "noplan" THEN "PLANNER_NO_PLAN" ELSE "PLANNER_PARSE_ERROR", c)

Counted(c) == Reading({"plan"}, c)                  \* the number of actions is declared
Console(c) == Reading({"plan", "cut"}, c)           \* as many steps as there are
Listed(c) == Reading({"plan", "cut", "noplan"}, c)  \* any line is an action
Unparsed(c) == Reading({"plan", "cut", "junk"}, c)  \* left to the plan mapper

Gave(status) == Said(status, NoFile)

T1Answer(v, st) == IF st = "OK" THEN Unparsed(v["artifact"]) ELSE Gave(st)

\* The console decides, whatever became of the process.
CffAnswer(v, st) ==
  LET console == Console(v["stdout"])
  IN  IF st # "OK" /\ console.status = "PLANNER_PARSE_ERROR" THEN Gave(st) ELSE console

GcFrontendAnswer(st) == Gave(IF st = "OK" THEN "MORE" ELSE st)

\* An empty finalplan is an empty plan when the console reports success.
FinalPlan(v) ==
  CASE v["artifact"].what = "absent" -> Gave("PLANNER_PARSE_ERROR")
    [] v["artifact"].what = "empty"  ->
         IF v["stdout"].what \in {"plan", "cut"} THEN Said("OK", v["stdout"]) ELSE Gave("PLANNER_PARSE_ERROR")
    [] OTHER -> Listed(v["artifact"])

\* finalplan, C_Plan, the console: the first plan, or what finalplan says.
GcSearchAnswer(v, st) ==
  CASE st # "OK" /\ v["stdout"].what = "noplan" -> Counted(v["stdout"])
    [] st # "OK" /\ v["stdout"].what # "noplan" -> Gave(st)
    [] st = "OK" -> IF FinalPlan(v).status = "OK" THEN FinalPlan(v)
                    ELSE IF Counted(v["second"]).status = "OK" THEN Counted(v["second"])
                    ELSE IF Console(v["stdout"]).status = "OK" THEN Console(v["stdout"])
                    ELSE FinalPlan(v)

CpcesAnswerAnyway(v, st) ==
  IF Readable(v["artifact"]) THEN Listed(v["artifact"])
  ELSE IF st = "OK" \/ v["stdout"].what = "noplan" THEN Counted(v["stdout"]) ELSE Gave(st)

CpcesAnswer(v, st) ==
  CASE st # "OK" -> IF v["stdout"].what = "noplan" THEN Counted(v["stdout"]) ELSE Gave(st)
    [] st = "OK" -> IF Readable(v["artifact"]) THEN Listed(v["artifact"]) ELSE Counted(v["stdout"])

CpahAnswer(v, st) == IF st = "OK" THEN Counted(v["artifact"]) ELSE Gave(st)

\* The plan section of the CPA family may declare no length.
CpaAnswer(v, st) ==
  CASE st # "OK" -> Gave(st)
    [] st = "OK" -> IF v["artifact"].what = "bare" /\ kind # "CNF" THEN Gave("MORE")
                                                                 ELSE Console(v["artifact"])

RecoveryAnswer(v, st) ==
  LET recovered == Console(v["recovered"])
  IN  IF st # "OK" THEN Gave(st)
      ELSE IF recovered.status = "OK" THEN recovered ELSE Gave("PLANNER_PARSE_ERROR")

Answer(r) ==
  LET v == View(Current(r))
      st == run[r].outcome
      first == run[r].command = 1
  IN  CASE kind = "T1"          -> T1Answer(v, st)
        [] kind = "CFF"         -> CffAnswer(v, st)
        [] kind \in GcFamily    -> IF first THEN GcFrontendAnswer(st) ELSE GcSearchAnswer(v, st)
        [] kind \in CpcesFamily -> CpcesAnswer(v, st)
        [] kind = "CPAH"        -> CpahAnswer(v, st)
        [] kind \in CpaFamily   -> IF first THEN CpaAnswer(v, st) ELSE RecoveryAnswer(v, st)

\* Other checks on the way: the errors of c2d; the normalisation of the files
\* of the front-end; the copy of the primary result and the recovery program.
Refusals(r) ==
  CASE kind = "T1" /\ run[r].outcome = "OK"                 -> {"PLANNER_FAILED"}
    [] kind \in GcFamily /\ Answer(r).status = "MORE"       -> {"PLANNER_PARSE_ERROR", "IO_ERROR", "INPUT_ERROR"}
    [] kind \in CpaFamily /\ Answer(r).status = "MORE"      -> {"IO_ERROR", "PLANNER_PARSE_ERROR"}
    [] kind = "CNF" /\ ~Native /\ Answer(r).basis.what = "bare" -> {"IO_ERROR"}
    [] OTHER -> {}

-----------------------------------------------------------------------------
(* The runner.                                                              *)

EarlyErrors == {"PLANNER_FAILED", "IO_ERROR"} \cup (IF kind \in CpaFamily THEN {"INPUT_ERROR"} ELSE {})

\* The others have not begun, or are over.
Alone(r) == \A s \in Runs \ {r} : run[s].pc = "over" \/ run[s].round = 0

NewCall(r, pc, status) ==
  [pc |-> pc, round |-> run[r].round + 1, command |-> 1, late |-> FALSE,
   outcome |-> "OK", status |-> status, basis |-> NoFile]

\* A call: checks of the installation, then the unlinks.
Begin(r) ==
  /\ run[r].pc = "idle"
  /\ Parallel \/ Alone(r)
  /\ \/ /\ run' = [run EXCEPT ![r] = NewCall(r, "fork", "OK")]
        /\ files' = Removed(<<r, run[r].round + 1>>, Unlinked)
     \/ /\ \E e \in EarlyErrors : run' = [run EXCEPT ![r] = NewCall(r, "returned", e)]
        /\ UNCHANGED files
  /\ UNCHANGED <<kind, group, lock, strays>>

\* fork and setpgid.
Fork(r) ==
  /\ run[r].pc = "fork"
  /\ \/ /\ run' = [run EXCEPT ![r].pc = "wait", ![r].late = FALSE]
        /\ group' = [group EXCEPT ![r] = Group("running", Stages(run[r].command))]
     \/ /\ run' = [run EXCEPT ![r].pc = "read", ![r].outcome = "IO_ERROR"]
        /\ UNCHANGED group
  /\ UNCHANGED <<kind, files, lock, strays>>

TickOnceStarted(r) ==
  /\ run[r].pc = "wait" /\ ~run[r].late
  /\ group[r].state = "running" => group[r].stages = {}
  /\ run' = [run EXCEPT ![r].late = TRUE]
  /\ UNCHANGED <<kind, group, files, lock, strays>>

Tick(r) ==
  /\ run[r].pc = "wait" /\ ~run[r].late
  /\ run' = [run EXCEPT ![r].late = TRUE]
  /\ UNCHANGED <<kind, group, files, lock, strays>>

\* waitpid with WNOHANG.
Poll(r) ==
  /\ run[r].pc = "wait" /\ group[r].state # "running"
  /\ run' = [run EXCEPT ![r].pc = "read",
                        ![r].outcome = IF group[r].state = "exited" THEN "OK" ELSE "PLANNER_FAILED"]
  /\ UNCHANGED <<kind, group, files, lock, strays>>

\* The deadline is over: SIGTERM to the group, which may have ended since
\* the last poll, and a second for it to end.
Expire(r) ==
  /\ run[r].pc = "wait" /\ run[r].late
  /\ run' = [run EXCEPT ![r].pc = "term"]
  /\ UNCHANGED <<kind, group, files, lock, strays>>

TimedOut(r) == run' = [run EXCEPT ![r].pc = "read", ![r].outcome = "PLANNER_TIMEOUT"]
Killed(r) ==
  /\ group' = IF group[r].state = "running" THEN [group EXCEPT ![r] = Group("killed", {})] ELSE group
  /\ Release(r)

KillLeader(r) ==
  /\ run[r].pc = "term"
  /\ TimedOut(r) /\ Killed(r)
  /\ UNCHANGED <<kind, files, strays>>

SignalOnly(r) ==
  /\ run[r].pc = "term"
  /\ TimedOut(r)
  /\ UNCHANGED <<kind, group, files, lock, strays>>

\* SIGKILL to the group, descendants included, and waitpid.
Kill(r) ==
  /\ run[r].pc = "term"
  /\ TimedOut(r) /\ Killed(r)
  /\ strays' = {s \in strays : s.by # Command(r)}
  /\ UNCHANGED <<kind, files>>

ReadOnce(r) ==
  /\ run[r].pc = "read"
  /\ \E a \in {Answer(r)} \cup {Gave(e) : e \in Refusals(r)} :
       run' = [run EXCEPT ![r].pc = IF a.status = "OK" THEN "publish" ELSE "returned",
                          ![r].status = a.status, ![r].basis = a.basis]
  /\ UNCHANGED <<kind, group, files, lock, strays>>

\* What follows run_shell_command: a second command, a result or an error.
Read(r) ==
  /\ run[r].pc = "read"
  /\ \E a \in {Answer(r)} \cup {Gave(e) : e \in Refusals(r)} :
       IF a.status = "MORE"
         THEN /\ run' = [run EXCEPT ![r].pc = "fork", ![r].command = 2]
              /\ files' = IF kind \in CpaFamily THEN Removed(Current(r), {"recovered"}) ELSE files
         ELSE /\ run' = [run EXCEPT ![r].pc = IF a.status = "OK" THEN "publish" ELSE "returned",
                                    ![r].status = a.status, ![r].basis = a.basis]
              /\ UNCHANGED files
  /\ UNCHANGED <<kind, group, lock, strays>>

\* The file whose path is returned: T1's own, when it is in the iteration.
ResultFile == IF kind = "T1" /\ ~Native THEN "artifact" ELSE "stable"

\* Some results are copied from the planner's file, read again; the others
\* are written from the actions that were parsed.
Result(r) ==
  CASE kind \in {"T1", "CPAH"} -> files[At(Current(r), "artifact")]
    [] kind \in CpaFamily      -> files[At(Current(r), IF run[r].command = 2 THEN "recovered" ELSE "artifact")]
    [] OTHER                   -> run[r].basis

Publish(r) ==
  /\ run[r].pc = "publish"
  /\ \/ /\ run' = [run EXCEPT ![r].pc = "returned"]
        /\ files' = IF ResultFile = "artifact" THEN files
                    ELSE [files EXCEPT ![At(Current(r), "stable")] = Result(r)]
     \/ /\ ResultFile = "stable"
        /\ run' = [run EXCEPT ![r].pc = "returned", ![r].status = "IO_ERROR"]
        /\ UNCHANGED files
  /\ UNCHANGED <<kind, group, lock, strays>>

\* The loop goes on to its next round, or ends with the status.
Finish(r) ==
  /\ run[r].pc = "returned"
  /\ run' = [run EXCEPT ![r].pc = IF run[r].status = "OK" /\ run[r].round < MaxRounds THEN "idle" ELSE "over"]
  /\ UNCHANGED <<kind, group, files, lock, strays>>

Die(r) ==
  /\ Killable /\ run[r].pc # "over"
  /\ run' = [run EXCEPT ![r].pc = "over"]
  /\ UNCHANGED <<kind, group, files, lock, strays>>

-----------------------------------------------------------------------------
(* The specification.                                                       *)

NotRun == [pc |-> "idle", round |-> 0, command |-> 1, late |-> FALSE,
           outcome |-> "OK", status |-> "OK", basis |-> NoFile]

\* Directories are new, or full of what an earlier experiment left there.
Leftover == [of |-> Nobody, what |-> "plan"]

Init ==
  /\ kind \in Kinds
  /\ run = [r \in Runs |-> NotRun]
  /\ group = [r \in Runs |-> Group("exited", {})]
  /\ files \in {[l \in Locations |-> c] : c \in {NoFile, Leftover}}
  /\ lock = Nobody
  /\ strays = {}

Planner(r) == \/ OpenConsole(r) \/ TakeLock(r) \/ RemoveOld(r) \/ Translate(r) \/ TestOutput(r)
              \/ Solve(r) \/ StartPrinting(r) \/ EndPrinting(r) \/ Exit(r) \/ Fail(r)

Runner(r) == Fork(r) \/ Tick(r) \/ Poll(r) \/ Expire(r) \/ Kill(r) \/ Read(r) \/ Publish(r)

Next == StrayWrites \/ \E r \in Runs : Planner(r) \/ Runner(r) \/ Begin(r) \/ Finish(r) \/ Die(r)

\* The runner polls in a loop of its own; nothing is asked of the planner.
Spec == Init /\ [][Next]_vars /\ \A r \in Runs : WF_vars(Runner(r))

-----------------------------------------------------------------------------
(* Properties.                                                              *)

Outcomes == {"OK", "PLANNER_FAILED", "PLANNER_TIMEOUT", "IO_ERROR"}
Statuses == Outcomes \cup {"PLANNER_NO_PLAN", "PLANNER_PARSE_ERROR", "INPUT_ERROR"}

Runners == [pc : {"idle", "fork", "wait", "term", "read", "publish", "returned", "over"},
            round : 0..MaxRounds, command : {1, 2}, late : BOOLEAN,
            outcome : Outcomes, status : Statuses, basis : Content]
Groups == [state : {"running", "exited", "failed", "killed"}, stages : SUBSET DOMAIN Earlier,
           input : Calls \cup {Nobody}, todo : SUBSET FileNames, writing : FileNames \cup {"nothing"}]
Strays == [by : Calls \X {1, 2}, at : Locations, of : Calls \cup {Nobody}]

\* Every variable has its type; in particular the request for a second
\* command never leaves the runner as a status.
TypeOK ==
  /\ kind \in Kinds
  /\ run \in [Runs -> Runners]
  /\ group \in [Runs -> Groups]
  /\ files \in [Locations -> Content]
  /\ lock \in Runs \cup {Nobody}
  /\ strays \subseteq Strays

Verdicts == {"OK", "PLANNER_NO_PLAN"}

\* A plan or the absence of one is reported on the word of the planner of
\* this very call, working on the problem of this call, and the file that is
\* returned is of this call too: never a leftover of an earlier round, of a
\* killed run, of a planner that is still writing or of another process.
OwnAnswer ==
  \A r \in Runs : run[r].pc = "returned" /\ run[r].status \in Verdicts =>
    /\ run[r].basis.of = Current(r)
    /\ run[r].status = "OK" => files[At(Current(r), ResultFile)].of = Current(r)

\* A plan that is returned was written to its end, although a planner may be
\* killed at any point of its output.  (CFF is the exception: it is read
\* from its console even when it was killed at the deadline.)
WholePlan ==
  \A r \in Runs : run[r].pc = "returned" /\ run[r].status = "OK" /\ kind # "CFF" =>
    files[At(Current(r), ResultFile)].what # "cut"

\* A runner that is not waiting has no command of its own still running:
\* neither the next command nor the next round meets the one before.
OneCommandAtATime ==
  \A r \in Runs : group[r].state = "running" => run[r].pc \in {"wait", "term", "over"}

\* A command that was timed out writes nothing any more, nor does anything
\* it started.
TimedOutIsSilent ==
  \A r \in Runs : run[r].pc = "read" /\ run[r].outcome = "PLANNER_TIMEOUT" =>
    \A s \in strays : s.by # Command(r)

\* A call ends, whatever the planner does, unless the process is killed.
CallsReturn == \A r \in Runs : run[r].pc = "fork" ~> run[r].pc \in {"returned", "over"}
=============================================================================
