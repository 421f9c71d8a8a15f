--------------------------- MODULE ClusterScripts ---------------------------
(***************************************************************************)
(* Starting and stopping the cluster: pstart.py, pstop.py and scheduler.py.*)
(* The scripts know the processes only by the pid files in the scratch     *)
(* directories, which they read, act on and rewrite in separate remote     *)
(* commands.                                                               *)
(*                                                                         *)
(* Each ssh is a remote shell.  One that starts a program changes into the *)
(* scratch directory, launches the program in the background and then      *)
(* writes its pid; one that stops a worker reads its pid file, kills and   *)
(* removes the directory.  The scripts wait for the shell of the master    *)
(* without limit.  Those of the workers are run by pssh -t 10: after ten   *)
(* seconds it kills its own end of the connection and the script goes on,  *)
(* and the remote shell, which no signal reaches, works on to its end, or  *)
(* was never begun.  The shell that starts the scheduler is detached.      *)
(***************************************************************************)
EXTENDS Naturals, Sequences, FiniteSets

CONSTANTS Terminals,  \* where the scripts are run
          Hosts,      \* config['workers']
          Shared,     \* the host on which the workers' directory is the master's, if any
          MaxRuns,    \* bound on the scripts run
          MaxLeft,    \* bound on the shells left behind on hosts at a time
          Crashing    \* the services whose processes may die by themselves

\* The scratch directories are local to the machines, so that no two hosts share one: a script
\* reads Worker.*.pid, whatever host is between the dots.
ASSUME ScriptsAssumption ==
  /\ IsFiniteSet(Terminals)
  /\ IsFiniteSet(Hosts) /\ Hosts \cap {"Master", "Scheduler"} = {}
  /\ Shared \subseteq Hosts /\ Cardinality(Shared) <= 1
  /\ MaxRuns \in Nat /\ MaxLeft \in Nat
  /\ Crashing \subseteq Hosts \cup {"Master", "Scheduler"}

VARIABLES term,     \* what each terminal is doing
          runs,     \* the number of scripts run so far
          shells,   \* the remote shells at work
          running,  \* the processes of every service that were not told to terminate
          ending,   \* those that were and are not gone yet
          pidFile,  \* the contents of the pid files, 0 if there is none
          dirs,     \* the scratch directories that exist
          late,     \* history: the hosts the script gave up waiting for
          mixed     \* history: the services whose shells or files were mixed up (Mixes, RemoveDir)

vars == <<term, runs, shells, running, ending, pidFile, dirs, late, mixed>>

\* The worker of a host is named after it.
Managed == {"Master"} \cup Hosts
Service == Managed \cup {"Scheduler"}

\* A process is known by the run that launched it: a run starts a service once at most.
Pid == 1..MaxRuns

\* The master's directory is the scheduler's too.
Dir(svc) == IF svc \in Hosts \ Shared THEN svc ELSE "Master"

Script == {"none", "pstart", "pstop", "scheduler"}
Label == {"idle", "start_workers", "start_scheduler", "kill_scheduler", "ps_scheduler",
          "stop_master", "kill_master", "rm_master", "stop_workers", "wait_workers"}

\* Where a shell is: the first two start a program, the others stop a worker.
Starts == {"launch", "write_pid"}
Stops == {"read_pid", "kill", "rm"}

Idle == [script |-> "none", at |-> "idle", pid |-> 0, run |-> 0]

Goto(t, label) == term' = [term EXCEPT ![t].at = label]
Return(t) ==
  /\ term' = [term EXCEPT ![t] = Idle]
  /\ late' = {}

\* The shell of a script's run for a service, which the script waits for unless it is detached.
Shell(run, svc, at) ==
  [run |-> run, svc |-> svc, at |-> at, pid |-> 0, awaited |-> svc \in Managed]

Waiting(t, svcs) == \E sh \in shells : sh.awaited /\ sh.run = term[t].run /\ sh.svc \in svcs

\* A script turns to services some of whose shells, left behind by earlier ones, are at work.
Mixes(svcs) == mixed' = mixed \cup {s \in svcs : \E sh \in shells : sh.svc = s}

\* kill: the process goes on for a while.
Terminate(svc, pid) ==
  /\ running' = [running EXCEPT ![svc] = @ \ {pid}]
  /\ ending' = [ending EXCEPT ![svc] = @ \cup (running[svc] \cap {pid})]

\* A script is run; it starts with the step label, having read pid.
Run(t, script, label, pid) ==
  /\ term[t].at = "idle" /\ runs < MaxRuns
  /\ runs' = runs + 1
  /\ term' = [term EXCEPT ![t] = IF label = "idle" THEN Idle
                                 ELSE [script |-> script, at |-> label, pid |-> pid, run |-> runs']]
  /\ UNCHANGED late

\* rm -rf on behalf of svc, by a step that leaves the shells others: one that works in the
\* directory can no longer write to it, and another service that has its pid file there, or
\* is about to, loses it.
RemoveDir(svc, others) ==
  LET users == {s \in Service : Dir(s) = Dir(svc)}
      losers == {s \in users \ {svc} : \/ pidFile[s] # 0
                                       \/ \E sh \in shells : sh.svc = s /\ sh.at \in Starts}
  IN /\ dirs' = dirs \ {Dir(svc)}
     /\ pidFile' = [s \in Service |-> IF s \in users THEN 0 ELSE pidFile[s]]
     /\ shells' = {sh \in others : ~(sh.svc \in users /\ sh.at = "write_pid")}
     /\ mixed' = mixed \cup losers

-----------------------------------------------------------------------------
(* pstart.py *)

\* Mutant of StartMaster: Master.pid is not read.
StartMasterUnchecked(t) ==
  /\ Run(t, "pstart", "start_workers", 0)
  /\ dirs' = dirs \cup {"Master"}
  /\ shells' = shells \cup {Shell(runs', "Master", "launch")}
  /\ UNCHANGED <<running, ending, pidFile, mixed>>

\* start_master: mkdir -p, read Master.pid, and launch the master if it is empty.
StartMaster(t) ==
  /\ Run(t, "pstart", "start_workers", 0)
  /\ dirs' = dirs \cup {"Master"}
  /\ shells' = IF pidFile["Master"] = 0
                 THEN shells \cup {Shell(runs', "Master", "launch")} ELSE shells
  /\ UNCHANGED <<running, ending, pidFile, mixed>>

\* Mutant of StartWorkers: it is Master.pid that is read on every host.
StartWorkersByMasterPid(t) ==
  /\ term[t].at = "start_workers" /\ ~Waiting(t, {"Master"})
  /\ Goto(t, "start_scheduler")
  /\ dirs' = dirs \cup {Dir(h) : h \in Hosts}
  /\ shells' = shells \cup {Shell(term[t].run, h, "launch") :
                             h \in {h \in Hosts : pidFile["Master"] = 0}}
  /\ Mixes(Hosts)
  /\ UNCHANGED <<runs, running, ending, pidFile, late>>

\* start_workers: the hosts without a pid file are started in parallel.
StartWorkers(t) ==
  /\ term[t].at = "start_workers" /\ ~Waiting(t, {"Master"})
  /\ Goto(t, "start_scheduler")
  /\ dirs' = dirs \cup {Dir(h) : h \in Hosts}
  /\ shells' = shells \cup {Shell(term[t].run, h, "launch") : h \in {h \in Hosts : pidFile[h] = 0}}
  /\ Mixes(Hosts)
  /\ UNCHANGED <<runs, running, ending, pidFile, late>>

\* start_scheduler reads Scheduler.pid and detaches the shell that launches.
LaunchScheduler(run) ==
  /\ shells' = IF pidFile["Scheduler"] = 0
                 THEN shells \cup {Shell(run, "Scheduler", "launch")} ELSE shells
  /\ UNCHANGED <<running, ending, pidFile, dirs, mixed>>

StartScheduler(t) ==
  /\ term[t].at = "start_scheduler" /\ ~Waiting(t, Hosts)
  /\ Return(t)
  /\ LaunchScheduler(term[t].run)
  /\ UNCHANGED runs

\* scheduler.py --start=1, by itself.
StartSchedulerAlone(t) ==
  /\ Run(t, "scheduler", "idle", 0)
  /\ LaunchScheduler(runs')

\* Mutant of Launch: the pid is not that of the program.
LaunchNotingOtherPid(sh) ==
  /\ sh \in shells /\ sh.at = "launch" /\ Dir(sh.svc) \in dirs
  /\ running' = [running EXCEPT ![sh.svc] = @ \cup {sh.run}]
  /\ shells' = (shells \ {sh}) \cup {[sh EXCEPT !.at = "write_pid", !.pid = sh.run + 1]}
  /\ UNCHANGED <<term, runs, ending, pidFile, dirs, late, mixed>>

\* A remote shell changes directory, which may fail, and launches the program.
Launch(sh) ==
  /\ sh \in shells /\ sh.at = "launch"
  /\ IF Dir(sh.svc) \in dirs
       THEN /\ running' = [running EXCEPT ![sh.svc] = @ \cup {sh.run}]
            /\ shells' = (shells \ {sh}) \cup {[sh EXCEPT !.at = "write_pid", !.pid = sh.run]}
       ELSE /\ shells' = shells \ {sh}
            /\ UNCHANGED running
  /\ UNCHANGED <<term, runs, ending, pidFile, dirs, late, mixed>>

\* Then it writes the pid file.
WritePid(sh) ==
  /\ sh \in shells /\ sh.at = "write_pid"
  /\ pidFile' = [pidFile EXCEPT ![sh.svc] = sh.pid]
  /\ shells' = shells \ {sh}
  /\ UNCHANGED <<term, runs, running, ending, dirs, late, mixed>>

Left == {sh \in shells : sh.svc \in Hosts /\ ~sh.awaited}

\* pssh -t 10 gives up waiting for the shell of a worker; what had begun goes on by itself.
TimeOut(sh) ==
  /\ sh \in shells /\ sh.awaited /\ sh.svc \in Hosts
  /\ \/ /\ Cardinality(Left) < MaxLeft
        /\ shells' = (shells \ {sh}) \cup {[sh EXCEPT !.awaited = FALSE]}
     \/ sh.at \in {"launch", "read_pid"} /\ shells' = shells \ {sh}
  /\ late' = late \cup {sh.svc}
  /\ UNCHANGED <<term, runs, running, ending, pidFile, dirs, mixed>>

-----------------------------------------------------------------------------
(* pstop.py *)

\* stop_scheduler reads Scheduler.pid; pstop goes on with the master.
ReadSchedulerPid(t, script) ==
  LET pid == pidFile["Scheduler"]
      next == IF pid # 0 THEN "kill_scheduler"
              ELSE IF script = "pstop" THEN "stop_master" ELSE "idle"
  IN /\ Run(t, script, next, pid)
     /\ UNCHANGED <<shells, running, ending, pidFile, dirs, mixed>>

KillScheduler(t) ==
  /\ term[t].at = "kill_scheduler"
  /\ Goto(t, "ps_scheduler")
  /\ Terminate("Scheduler", term[t].pid)
  /\ UNCHANGED <<runs, shells, pidFile, dirs, late, mixed>>

(***************************************************************************)
(* res=`ps -o pid= -p PID` && if [ -z $res ]; then rm Scheduler.pid; fi    *)
(* The assignment has the exit status of ps, which prints nothing exactly  *)
(* when it fails.                                                          *)
(***************************************************************************)
Listed(p) == p \in running["Scheduler"] \cup ending["Scheduler"]
PsSucceeds(p) == Listed(p)
PsPrintsNothing(p) == ~Listed(p)
RemovesSchedulerPid(p) == PsSucceeds(p) /\ PsPrintsNothing(p)

CheckSchedulerGone(t) ==
  /\ term[t].at = "ps_scheduler"
  /\ pidFile' = IF RemovesSchedulerPid(term[t].pid)
                  THEN [pidFile EXCEPT !["Scheduler"] = 0] ELSE pidFile
  /\ IF term[t].script = "pstop" THEN Goto(t, "stop_master") /\ UNCHANGED late ELSE Return(t)
  /\ UNCHANGED <<runs, shells, running, ending, dirs, mixed>>

\* stop_master reads Master.pid.
ReadMasterPid(t) ==
  /\ term[t].at = "stop_master"
  /\ IF pidFile["Master"] = 0
       THEN Goto(t, "stop_workers")
       ELSE term' = [term EXCEPT ![t].at = "kill_master", ![t].pid = pidFile["Master"]]
  /\ UNCHANGED <<runs, shells, running, ending, pidFile, dirs, late, mixed>>

KillMaster(t) ==
  /\ term[t].at = "kill_master"
  /\ Goto(t, "rm_master")
  /\ Terminate("Master", term[t].pid)
  /\ UNCHANGED <<runs, shells, pidFile, dirs, late, mixed>>

RemoveMasterDir(t) ==
  /\ term[t].at = "rm_master"
  /\ Goto(t, "stop_workers")
  /\ RemoveDir("Master", shells)
  /\ UNCHANGED <<runs, running, ending, late>>

\* stop_workers: a shell on every host, in parallel.
StopWorkers(t) ==
  /\ term[t].at = "stop_workers"
  /\ Goto(t, "wait_workers")
  /\ shells' = shells \cup {Shell(term[t].run, h, "read_pid") : h \in Hosts}
  /\ Mixes(Hosts)
  /\ UNCHANGED <<runs, running, ending, pidFile, dirs, late>>

\* pstop ends with pssh.
WorkersStopped(t) ==
  /\ term[t].at = "wait_workers" /\ ~Waiting(t, Hosts)
  /\ Return(t)
  /\ UNCHANGED <<runs, shells, running, ending, pidFile, dirs, mixed>>

\* cat Worker.*.pid: without a file there is no pid, and nothing to kill.
ReadWorkerPid(sh) ==
  /\ sh \in shells /\ sh.at = "read_pid"
  /\ shells' = (shells \ {sh}) \cup {[sh EXCEPT !.at = "kill", !.pid = pidFile[sh.svc]]}
  /\ UNCHANGED <<term, runs, running, ending, pidFile, dirs, late, mixed>>

\* Mutant of KillWorker: nothing is killed.
KillNoWorker(sh) ==
  /\ sh \in shells /\ sh.at = "kill"
  /\ shells' = (shells \ {sh}) \cup {[sh EXCEPT !.at = "rm"]}
  /\ UNCHANGED <<term, runs, running, ending, pidFile, dirs, late, mixed>>

\* kill -9
KillWorker(sh) ==
  /\ sh \in shells /\ sh.at = "kill"
  /\ shells' = (shells \ {sh}) \cup {[sh EXCEPT !.at = "rm"]}
  /\ running' = [running EXCEPT ![sh.svc] = @ \ {sh.pid}]
  /\ ending' = [ending EXCEPT ![sh.svc] = @ \ {sh.pid}]
  /\ UNCHANGED <<term, runs, pidFile, dirs, late, mixed>>

\* Mutant of RemoveWorkerDir: the scratch directory is left alone.
KeepWorkerDir(sh) ==
  /\ sh \in shells /\ sh.at = "rm"
  /\ shells' = shells \ {sh}
  /\ UNCHANGED <<term, runs, running, ending, pidFile, dirs, late, mixed>>

RemoveWorkerDir(sh) ==
  /\ sh \in shells /\ sh.at = "rm"
  /\ RemoveDir(sh.svc, shells \ {sh})
  /\ UNCHANGED <<term, runs, running, ending, late>>

-----------------------------------------------------------------------------
\* A process that was sent a signal exits; any other one may crash.
Exit(svc, p) ==
  /\ \/ /\ p \in ending[svc]
        /\ ending' = [ending EXCEPT ![svc] = @ \ {p}]
        /\ UNCHANGED running
     \/ /\ svc \in Crashing /\ p \in running[svc]
        /\ running' = [running EXCEPT ![svc] = @ \ {p}]
        /\ UNCHANGED ending
  /\ UNCHANGED <<term, runs, shells, pidFile, dirs, late, mixed>>

Init ==
  /\ term = [t \in Terminals |-> Idle]
  /\ runs = 0
  /\ shells = {}
  /\ running = [s \in Service |-> {}]
  /\ ending = [s \in Service |-> {}]
  /\ pidFile = [s \in Service |-> 0]
  /\ dirs = {}
  /\ late = {}
  /\ mixed = {}

Next ==
  \/ \E t \in Terminals :
       \/ StartMaster(t)
       \/ StartWorkers(t)
       \/ StartScheduler(t)
       \/ StartSchedulerAlone(t)
       \/ ReadSchedulerPid(t, "pstop")
       \/ ReadSchedulerPid(t, "scheduler")
       \/ KillScheduler(t)
       \/ CheckSchedulerGone(t)
       \/ ReadMasterPid(t)
       \/ KillMaster(t)
       \/ RemoveMasterDir(t)
       \/ StopWorkers(t)
       \/ WorkersStopped(t)
  \/ \E sh \in shells :
       \/ Launch(sh)
       \/ WritePid(sh)
       \/ TimeOut(sh)
       \/ ReadWorkerPid(sh)
       \/ KillWorker(sh)
       \/ RemoveWorkerDir(sh)
  \/ \E svc \in Service, p \in Pid : Exit(svc, p)

Spec == Init /\ [][Next]_vars

-----------------------------------------------------------------------------
TypeOK ==
  /\ term \in [Terminals -> [script : Script, at : Label, pid : Nat, run : Nat]]
  /\ runs \in 0..MaxRuns
  /\ shells \subseteq [run : 1..runs, svc : Service, at : Starts \cup Stops, pid : 0..runs,
                       awaited : BOOLEAN]
  /\ running \in [Service -> SUBSET (1..runs)]
  /\ ending \in [Service -> SUBSET (1..runs)]
  /\ pidFile \in [Service -> 0..runs]
  /\ dirs \subseteq {"Master"} \cup Hosts
  /\ late \subseteq Hosts /\ mixed \subseteq Service

(***************************************************************************)
(* One operator, one script at a time: there is at most one master and one *)
(* worker on a host that runs and was not told to terminate, and its pid   *)
(* file names it, so that the next script finds it.  Processes may crash   *)
(* and pssh may give up waiting.  This goes wrong for the services whose   *)
(* shells or files were mixed up, and only for those: where a script is    *)
(* run on a host before the shell that pssh left behind there has finished *)
(* (a second worker is started, or one is started by a shell that pstop    *)
(* did not wait for), and where a scratch directory is removed that        *)
(* another service shares.                                                 *)
(***************************************************************************)
Known == Managed \ mixed

OnlyOneEach == \A s \in Known : Cardinality(running[s]) <= 1

PidFilesNameProcesses ==
  \A s \in Known : \A p \in running[s] :
    \/ pidFile[s] = p
    \/ \E sh \in shells : sh.svc = s /\ sh.at = "write_pid" /\ sh.pid = p

(***************************************************************************)
(* When pstop returns, no master or worker is left running and no pid file *)
(* is left that would keep pstart from starting one, whatever crashed; but *)
(* for the hosts it gave up waiting for, and for services mixed up.        *)
(***************************************************************************)
StopCleansUp ==
  [][\A t \in Terminals :
       term[t].script = "pstop" /\ term[t].at # "idle" /\ term'[t].at = "idle" =>
         \A s \in Known \ late : pidFile'[s] = 0 /\ running'[s] = {}]_vars

(***************************************************************************)
(* When pstart returns, the master and every worker have a process, but    *)
(* for the hosts it gave up waiting for and for services mixed up.  What a *)
(* pid file names is taken for running even if it crashed long ago; that   *)
(* service is not started.                                                 *)
(***************************************************************************)
StartStartsOrFindsPid ==
  [][\A t \in Terminals :
       term[t].script = "pstart" /\ term[t].at # "idle" /\ term'[t].at = "idle" =>
         \A s \in Known \ late : running[s] # {} \/ (s \in Crashing /\ pidFile[s] # 0)]_vars

(***************************************************************************)
(* scheduler.py:37: a pid in Scheduler.pid means that "there's already a   *)
(* running Scheduler"; start_scheduler refuses to start another.           *)
(***************************************************************************)
SchedulerPidIsOfRunning ==
  shells = {} /\ (\A t \in Terminals : term[t].at = "idle") /\ pidFile["Scheduler"] # 0
    => Listed(pidFile["Scheduler"])
=============================================================================
