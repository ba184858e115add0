---- MODULE RunLifecycle ----
(***************************************************************************)
(* What the backend promises about the runs of a backup job, whoever talks  *)
(* to it and in whatever order its handlers interleave:                     *)
(*                                                                          *)
(*   - a run is opened for one job, and only while that job has no other    *)
(*     open run;                                                            *)
(*   - an open run waits, may be started, and is closed exactly once, with  *)
(*     one outcome that never changes afterwards;                           *)
(*   - a run that was given up before anyone took it ("STUCK") had never    *)
(*     been taken: taking a run and giving it up exclude each other;        *)
(*   - a run leaves only together with its job.                             *)
(*                                                                          *)
(* Backup runs (JobRun.tla, where jobs are not deleted) keep Spec,          *)
(* verification runs (Verification.tla) DeletingSpec, and restores          *)
(* (Restores.tla) Spec with a SQL instance in the place of the job; nobody  *)
(* takes or gives up a verification or a restore.                           *)
(***************************************************************************)
EXTENDS Naturals

CONSTANTS
  Job,       \* backup jobs
  NoJob,     \* the owner of a run that does not exist yet
  RunId,     \* identifiers of runs
  Outcome    \* how a run may be closed; "STUCK" is one of them

VARIABLES
  phase,     \* phase[r]: "absent", "waiting", "started" or an outcome
  owner,     \* owner[r]: the job run r was opened for
  taken      \* the runs that were handed to an agent

vars == <<phase, owner, taken>>

Open == {"waiting", "started"}

Init ==
  /\ phase = [r \in RunId |-> "absent"]
  /\ owner = [r \in RunId |-> NoJob]
  /\ taken = {}

(* A run is opened for a job that has no open run; it may be taken at once. *)
OpenRun(r, j) ==
  /\ phase[r] = "absent"
  /\ \A q \in RunId : owner[q] = j => phase[q] \notin Open
  /\ phase' = [phase EXCEPT ![r] = "waiting"]
  /\ owner' = [owner EXCEPT ![r] = j]
  /\ taken' \in {taken, taken \cup {r}}

Take(r) ==
  /\ phase[r] = "waiting"
  /\ r \notin taken
  /\ taken' = taken \cup {r}
  /\ UNCHANGED <<phase, owner>>

Start(r) ==
  /\ phase[r] \in Open
  /\ phase' = [phase EXCEPT ![r] = "started"]
  /\ UNCHANGED <<owner, taken>>

Close(r, o) ==
  /\ phase[r] \in Open
  /\ o = "STUCK" => phase[r] = "waiting" /\ r \notin taken
  /\ phase' = [phase EXCEPT ![r] = o]
  /\ UNCHANGED <<owner, taken>>

(* A job is deleted and takes its runs with it.                             *)
Forget(j) ==
  /\ phase' = [r \in RunId |-> IF owner[r] = j THEN "absent" ELSE phase[r]]
  /\ owner' = [r \in RunId |-> IF owner[r] = j THEN NoJob ELSE owner[r]]
  /\ taken' = {r \in taken : owner[r] # j}

Next ==
  \E r \in RunId :
    \/ \E j \in Job : OpenRun(r, j)
    \/ Take(r)
    \/ Start(r)
    \/ \E o \in Outcome : Close(r, o)

Spec == Init /\ [][Next]_vars

(* The same where jobs can be deleted.                                      *)
NextOrForget == Next \/ \E j \in Job : Forget(j)

DeletingSpec == Init /\ [][NextOrForget]_vars

====
