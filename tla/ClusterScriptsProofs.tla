------------------------ MODULE ClusterScriptsProofs ------------------------
(***************************************************************************)
(* One operator who runs one script at a time, on any number of hosts, for *)
(* any number of scripts, whatever crashes and whatever pssh gives up      *)
(* waiting for: but for the services whose shells or files were mixed up,  *)
(* there is at most one master, one worker on a host, and a pid file names *)
(* each, and pstop leaves none on the hosts it waited for.                 *)
(*                                                                         *)
(* The scripts know of a process only what its pid file says, and the      *)
(* shells that write and read that file outlive the script.  The invariant *)
(* says what each shell at work knows: where a service is not mixed up it  *)
(* has one shell at most, and that shell, or else the pid file, tells      *)
(* which process may be running.                                           *)
(***************************************************************************)
EXTENDS ClusterScripts, FiniteSetTheorems, TLAPS

operator == CHOOSE t \in Terminals : TRUE
OneOperator == Terminals = {operator}

me == term[operator]
Place == [script : Script, at : Label, pid : Nat, run : Nat]
ShellType ==
  [run : 1..runs, svc : Service, at : Starts \cup Stops, pid : 0..runs, awaited : BOOLEAN]

\* A script waits for its own shells only, where it waits at all.
Awaited ==
  \A sh \in shells :
    /\ sh.svc = "Master" => sh.awaited /\ me.at = "start_workers"
    /\ sh.awaited => sh.run = me.run /\ sh.svc \in Managed
    /\ sh.awaited /\ sh.svc \in Hosts => me.at \in {"start_scheduler", "wait_workers"}

\* Of the processes of a service, at most the one with this pid is running.
Only(s, pid) == running[s] \subseteq {pid}

\* What the shell of a service, at its step, can rely on.
Knows(sh, s) ==
  /\ sh.at = "launch" => pidFile[s] = 0 /\ running[s] = {}
  /\ sh.at = "write_pid" => pidFile[s] = 0 /\ Only(s, sh.pid)
  /\ sh.at = "read_pid" => Only(s, pidFile[s])
  /\ sh.at = "kill" => pidFile[s] = sh.pid /\ Only(s, sh.pid)
  /\ sh.at = "rm" => running[s] = {}

InHand(s) ==
  /\ \A sh1, sh2 \in shells : sh1.svc = s /\ sh2.svc = s => sh1 = sh2
  /\ \A sh \in shells : sh.svc = s => Knows(sh, s)
  /\ (\A sh \in shells : sh.svc # s) => Only(s, pidFile[s])

AllInHand == \A s \in Known : InHand(s)

\* What pstop has done away with so far, and the hosts where its shells still have to.
Gone(s) == running[s] = {} /\ pidFile[s] = 0
Over(h) == Gone(h) /\ \A sh \in shells : sh.svc # h
BeingStopped(h) == \E sh \in shells : sh.svc = h /\ sh.awaited /\ sh.at \in Stops

MasterStopped ==
  "Master" \in Known =>
    /\ me.at = "kill_master" => me.pid = pidFile["Master"]
    /\ me.at = "rm_master" => running["Master"] = {}
    /\ me.at \in {"stop_workers", "wait_workers"} => Gone("Master")
WorkersInTurn ==
  me.at = "wait_workers" => \A h \in (Hosts \cap Known) \ late : Over(h) \/ BeingStopped(h)

\* pstart is the script that starts a scheduler last.
ScriptsApart ==
  /\ me.at \in {"start_workers", "start_scheduler"} => me.script = "pstart"
  /\ me.at # "idle" => me.run \in 1..runs

Inv == TypeOK /\ Awaited /\ AllInHand /\ MasterStopped /\ WorkersInTurn /\ ScriptsApart


-----------------------------------------------------------------------------
\* What the operator is at, and what the one terminal is after an assignment.
LEMMA OperatorAt ==
  ASSUME OneOperator, TypeOK
  PROVE  operator \in Terminals /\ me \in Place /\ \A t \in Terminals : t = operator
  BY DEF OneOperator, TypeOK, Place, me

LEMMA OperatorBecomes ==
  ASSUME OneOperator, TypeOK, NEW r \in Place, NEW t \in Terminals, term' = [term EXCEPT ![t] = r]
  PROVE  term' \in [Terminals -> Place] /\ me' = r
  BY OperatorAt DEF TypeOK, Place, me

LEMMA OperatorGoes ==
  ASSUME OneOperator, TypeOK, NEW t \in Terminals, NEW label \in Label, Goto(t, label)
  PROVE  /\ term' \in [Terminals -> Place]
         /\ me'.at = label /\ me'.script = me.script /\ me'.pid = me.pid /\ me'.run = me.run
  <1> DEFINE r == [term[t] EXCEPT !.at = label]
  <1>1. term[t] \in Place /\ t = operator
    BY OperatorAt DEF TypeOK, Place
  <1>2. r \in Place /\ r.at = label /\ r.script = term[t].script /\ r.pid = term[t].pid
        /\ r.run = term[t].run
    BY <1>1 DEF Place
  <1>3. term' = [term EXCEPT ![t] = r]
    BY <1>1 DEF Goto, TypeOK
  <1> HIDE DEF r
  <1>4. term' \in [Terminals -> Place] /\ me' = r
    BY <1>2, <1>3, OperatorBecomes
  <1> QED
    BY <1>1, <1>2, <1>4 DEF me

LEMMA OperatorReturns ==
  ASSUME OneOperator, TypeOK, NEW t \in Terminals, term' = [term EXCEPT ![t] = Idle]
  PROVE  term' \in [Terminals -> Place] /\ me'.at = "idle" /\ me' = Idle
  <1>1. Idle \in Place /\ Idle.at = "idle"
    BY DEF Idle, Place, Script, Label
  <1> HIDE DEF Idle
  <1> QED
    BY <1>1, OperatorBecomes

\* A script that is run takes the next number, and every pid known before is known still.
LEMMA RunCounts ==
  ASSUME TypeOK, runs < MaxRuns, runs' = runs + 1
  PROVE  /\ runs' \in 0..MaxRuns /\ runs' \in 1..runs' /\ runs' \in Nat
         /\ 1..runs \subseteq 1..runs' /\ 0..runs \subseteq 0..runs'
  BY ScriptsAssumption DEF TypeOK

LEMMA TypesGrow ==
  ASSUME TypeOK, runs < MaxRuns, runs' = runs + 1, UNCHANGED <<running, ending, pidFile>>
  PROVE  /\ running' \in [Service -> SUBSET (1..runs')] /\ ending' \in [Service -> SUBSET (1..runs')]
         /\ pidFile' \in [Service -> 0..runs']
  <1>1. 1..runs \subseteq 1..runs' /\ 0..runs \subseteq 0..runs'
    BY RunCounts
  <1> HIDE DEF TypeOK
  <1>2. running \in [Service -> SUBSET (1..runs)] /\ ending \in [Service -> SUBSET (1..runs)]
        /\ pidFile \in [Service -> 0..runs]
    BY DEF TypeOK
  <1>3. \A s \in Service : running[s] \subseteq 1..runs' /\ ending[s] \subseteq 1..runs'
                             /\ pidFile[s] \in 0..runs'
    BY <1>1, <1>2
  <1> QED
    BY <1>2, <1>3

LEMMA ShellsGrow ==
  ASSUME TypeOK, runs < MaxRuns, runs' = runs + 1, NEW sh \in shells
  PROVE  sh \in ShellType'
  <1>1. 1..runs \subseteq 1..runs' /\ 0..runs \subseteq 0..runs'
    BY RunCounts
  <1>2. sh \in [run : 1..runs, svc : Service, at : Starts \cup Stops, pid : 0..runs,
                awaited : BOOLEAN]
    BY DEF TypeOK
  <1> QED
    BY <1>1, <1>2 DEF ShellType

\* The shell that a script begins.
LEMMA ShellBegun ==
  ASSUME NEW run, NEW svc \in Service, NEW at
  PROVE  /\ Shell(run, svc, at).run = run /\ Shell(run, svc, at).svc = svc
         /\ Shell(run, svc, at).at = at /\ Shell(run, svc, at).pid = 0
         /\ Shell(run, svc, at).awaited <=> svc \in Managed
  BY DEF Shell

LEMMA ShellBegunType ==
  ASSUME NEW n \in Nat, NEW run \in 1..n, NEW svc \in Service, NEW at \in Starts \cup Stops
  PROVE  Shell(run, svc, at) \in
           [run : 1..n, svc : Service, at : Starts \cup Stops, pid : 0..n, awaited : BOOLEAN]
  BY DEF Shell

\* A service is in hand as long as its shells and its file stay and no process is added.
LEMMA InHandStays ==
  ASSUME NEW s, InHand(s), \A sh \in shells' : sh.svc = s => sh \in shells,
         \A sh \in shells : sh.svc = s => sh \in shells',
         running'[s] \subseteq running[s], pidFile'[s] = pidFile[s]
  PROVE  InHand(s)'
  BY DEF InHand, Knows, Only

\* It is in hand too when a script begins the only shell of it.
LEMMA InHandBegins ==
  ASSUME TypeOK, NEW s \in Service, InHand(s), \A sh \in shells : sh.svc # s,
         NEW new, (new.at = "launch" /\ pidFile[s] = 0) \/ new.at = "read_pid",
         \A sh \in shells' : sh.svc = s => sh = new,
         new \in shells', new.svc = s,
         running'[s] = running[s], pidFile'[s] = pidFile[s]
  PROVE  InHand(s)'
  <1>1. Only(s, pidFile[s]) /\ running[s] \subseteq 1..runs
    BY DEF InHand, TypeOK
  <1>2. pidFile[s] = 0 => running[s] = {}
    BY <1>1 DEF Only
  <1>3. Knows(new, s)'
    BY <1>1, <1>2 DEF Knows, Only
  <1>4. \A sh \in shells' : sh.svc = s => Knows(sh, s)'
    BY <1>3
  <1> QED
    BY <1>4 DEF InHand

\* Known is what it was, or less.
LEMMA KnownShrinks == ASSUME mixed \subseteq mixed' PROVE Known' \subseteq Known
  BY DEF Known

LEMMA Services ==
  /\ Known \subseteq Managed /\ Managed \subseteq Service /\ Hosts \subseteq Managed
  /\ "Master" \in Service /\ "Scheduler" \in Service /\ "Master" \in Managed
  /\ "Scheduler" \notin Managed /\ "Master" \notin Hosts
  BY ScriptsAssumption DEF Known, Managed, Service

\* A script at a label where none waits has no shell that it could wait for.
LEMMA NoneAwaited ==
  ASSUME Inv, me.at \notin {"start_workers", "start_scheduler", "wait_workers"}
  PROVE  \A sh \in shells : sh.svc # "Master" /\ ~sh.awaited
  BY DEF Inv, Awaited, Managed

\* Before any script runs.
LEMMA InvInit == ASSUME OneOperator, Init PROVE Inv
  <1>1. operator \in Terminals
    BY DEF OneOperator
  <1>2. me = Idle /\ Idle.at = "idle" /\ Idle \in Place
    BY <1>1 DEF Init, Idle, me, Place, Script, Label
  <1> HIDE DEF Idle
  <1>3. TypeOK
    <2>1. term \in [Terminals -> [script : Script, at : Label, pid : Nat, run : Nat]]
      BY <1>2 DEF Init, Place
    <2> QED
      BY <2>1, ScriptsAssumption DEF Init, TypeOK
  <1>4. Awaited
    BY DEF Init, Awaited
  <1>5. AllInHand
    BY Services DEF Init, AllInHand, InHand, Only
  <1>6. MasterStopped /\ WorkersInTurn /\ ScriptsApart
    BY <1>2 DEF MasterStopped, WorkersInTurn, ScriptsApart
  <1> QED
    BY <1>3, <1>4, <1>5, <1>6 DEF Inv

\* pstart.
LEMMA InvStartMaster ==
  ASSUME OneOperator, Inv, NEW t \in Terminals, StartMaster(t)
  PROVE  Inv'
  <1>1. /\ t = operator /\ TypeOK /\ me \in Place
        /\ me.at = "idle" /\ runs < MaxRuns /\ runs' = runs + 1
    BY OperatorAt DEF Inv, StartMaster, Run, me
  <1> DEFINE r == [script |-> "pstart", at |-> "start_workers", pid |-> 0, run |-> runs']
             new == Shell(runs', "Master", "launch")
  <1>2. term' \in [Terminals -> Place] /\ me' = r
    <2>1. r \in Place
      BY <1>1, RunCounts DEF Place, Script, Label
    <2>2. term' = [term EXCEPT ![t] = r]
      BY DEF StartMaster, Run
    <2> HIDE DEF r
    <2> QED
      BY <1>1, <2>1, <2>2, OperatorBecomes
  <1>3. me'.at = "start_workers" /\ me'.script = "pstart" /\ me'.run = runs'
    BY <1>2
  <1> HIDE DEF r
  <1>4. new.run = runs' /\ new.svc = "Master" /\ new.at = "launch" /\ new.awaited
    BY ShellBegun, Services
  <1>5. new \in ShellType'
    BY <1>1, RunCounts, ShellBegunType, Services DEF ShellType, Starts
  <1>6. /\ \A sh \in shells' : sh \in shells \/ (sh = new /\ pidFile["Master"] = 0)
        /\ shells \subseteq shells'
        /\ pidFile["Master"] = 0 => new \in shells'
    BY DEF StartMaster
  <1> HIDE DEF new
  <1>7. \A sh \in shells : sh.svc # "Master" /\ ~sh.awaited
    BY <1>1, NoneAwaited
  <1>8. TypeOK'
    <2>1. shells' \subseteq ShellType'
      BY <1>1, <1>5, <1>6, ShellsGrow
    <2> QED
      BY <1>1, <1>2, <2>1, TypesGrow, RunCounts DEF TypeOK, StartMaster, Run, Place, ShellType
  <1>9. Awaited'
    BY <1>3, <1>4, <1>6, <1>7, Services DEF Awaited
  <1>10. AllInHand'
    <2> SUFFICES ASSUME NEW s \in Known' PROVE InHand(s)'
      BY DEF AllInHand
    <2>1. InHand(s) /\ s \in Service /\ UNCHANGED <<running, pidFile>>
      BY Services DEF StartMaster, AllInHand, Known, Inv
    <2>2. CASE s = "Master" /\ pidFile["Master"] = 0
      BY <1>1, <1>4, <1>6, <1>7, <2>1, <2>2, InHandBegins
    <2>3. CASE s # "Master" \/ pidFile["Master"] # 0
      BY <1>4, <1>6, <2>1, <2>3, InHandStays
    <2> QED
      BY <2>2, <2>3
  <1> QED
    BY <1>1, <1>3, <1>8, <1>9, <1>10, RunCounts
       DEF Inv, MasterStopped, WorkersInTurn, ScriptsApart

LEMMA InvStartWorkers ==
  ASSUME OneOperator, Inv, NEW t \in Terminals, StartWorkers(t)
  PROVE  Inv'
  <1>1. t = operator /\ TypeOK /\ me \in Place /\ me.at = "start_workers" /\ me.script = "pstart"
    BY OperatorAt DEF Inv, StartWorkers, me, ScriptsApart
  <1> DEFINE New(h) == Shell(me.run, h, "launch")
  <1>2. /\ term' \in [Terminals -> Place]
        /\ me'.at = "start_scheduler" /\ me'.script = "pstart" /\ me'.run = me.run
    BY <1>1, OperatorGoes DEF StartWorkers, Label
  <1>3. \A sh \in shells : sh.svc # "Master"
    BY <1>1 DEF Inv, Awaited, StartWorkers, Waiting, me
  <1>4. \A h \in Hosts : New(h).run = me.run /\ New(h).svc = h /\ New(h).at = "launch"
    BY ShellBegun, Services
  <1>5. shells' = shells \cup {New(h) : h \in {h \in Hosts : pidFile[h] = 0}}
    BY <1>1 DEF StartWorkers, me
  <1> HIDE DEF New
  <1>6. /\ \A sh \in shells' : sh \in shells \/ \E h \in Hosts : sh = New(h) /\ pidFile[h] = 0
        /\ shells \subseteq shells'
        /\ \A h \in Hosts : pidFile[h] = 0 => New(h) \in shells'
    BY <1>5
  <1>7. /\ mixed' = mixed \cup {s \in Hosts : \E sh \in shells : sh.svc = s}
        /\ UNCHANGED <<runs, running, ending, pidFile, late>>
    BY DEF StartWorkers, Mixes
  <1>8. TypeOK'
    <2>1. me.run \in 1..runs /\ runs \in Nat
      BY <1>1 DEF Inv, ScriptsApart, TypeOK
    <2>2. \A h \in Hosts : New(h) \in ShellType
      BY <2>1, ShellBegunType, Services DEF ShellType, Starts, New
    <2>3. shells' \subseteq ShellType
      BY <1>1, <1>6, <2>2 DEF TypeOK, ShellType
    <2> QED
      BY <1>1, <1>2, <1>7, <2>3, Services DEF TypeOK, StartWorkers, Place, ShellType, Dir
  <1>9. Awaited'
    <2>1. ASSUME NEW sh \in shells' PROVE
            /\ sh.svc # "Master" /\ (sh.awaited => sh.run = me.run /\ sh.svc \in Managed)
      BY <1>3, <1>4, <1>6, Services DEF Inv, Awaited
    <2> QED
      BY <1>2, <2>1 DEF Awaited
  <1>10. AllInHand'
    <2> SUFFICES ASSUME NEW s \in Known' PROVE InHand(s)'
      BY DEF AllInHand
    <2>1. InHand(s) /\ s \in Service /\ (s \in Hosts => \A sh \in shells : sh.svc # s)
      BY <1>7, Services DEF AllInHand, Known, Inv
    <2>2. CASE s \in Hosts /\ pidFile[s] = 0
      <3> DEFINE new == New(s)
      <3>1. new.svc = s /\ new.at = "launch" /\ new \in shells'
        BY <1>4, <1>6, <2>2
      <3>2. \A sh \in shells' : sh.svc = s => sh = new
        BY <1>4, <1>6, <2>1, <2>2
      <3> HIDE DEF new
      <3> QED
        BY <1>1, <1>7, <2>1, <2>2, <3>1, <3>2, InHandBegins
    <2>3. CASE ~(s \in Hosts /\ pidFile[s] = 0)
      BY <1>4, <1>6, <1>7, <2>1, <2>3, InHandStays
    <2> QED
      BY <2>2, <2>3
  <1> QED
    BY <1>1, <1>2, <1>7, <1>8, <1>9, <1>10 DEF Inv, MasterStopped, WorkersInTurn, ScriptsApart

\* A step that leaves the shells and the files of the masters and workers as they are.
LEMMA ManagedStay ==
  ASSUME Inv, UNCHANGED mixed,
         \A sh \in shells' : sh \in shells \/ sh.svc = "Scheduler", shells \subseteq shells',
         \A s \in Managed : running'[s] \subseteq running[s] /\ pidFile'[s] = pidFile[s]
  PROVE  AllInHand'
  <1> SUFFICES ASSUME NEW s \in Known' PROVE InHand(s)'
    BY DEF AllInHand
  <1>1. s \in Managed /\ s # "Scheduler" /\ InHand(s)
    BY Services DEF Known, Inv, AllInHand
  <1> QED
    BY <1>1, InHandStays

\* The scheduler is launched without waiting for its shell.
LEMMA SchedulerLaunched ==
  ASSUME Inv, NEW run, LaunchScheduler(run)
  PROVE  /\ \A sh \in shells' : \/ sh \in shells
                                \/ /\ sh = Shell(run, "Scheduler", "launch")
                                   /\ sh.svc = "Scheduler" /\ ~sh.awaited
         /\ AllInHand'
  <1> DEFINE new == Shell(run, "Scheduler", "launch")
  <1>1. new.svc = "Scheduler" /\ ~new.awaited
    BY ShellBegun, Services
  <1>2. (\A sh \in shells' : sh \in shells \/ sh = new) /\ shells \subseteq shells'
    BY DEF LaunchScheduler
  <1> HIDE DEF new
  <1>3. AllInHand'
    BY <1>1, <1>2, ManagedStay DEF LaunchScheduler
  <1> QED
    BY <1>1, <1>2, <1>3 DEF new

LEMMA InvStartScheduler ==
  ASSUME OneOperator, Inv, NEW t \in Terminals, StartScheduler(t)
  PROVE  Inv'
  <1>1. t = operator /\ TypeOK /\ me \in Place /\ me.at = "start_scheduler"
    BY OperatorAt DEF Inv, StartScheduler, me
  <1>2. term' \in [Terminals -> Place] /\ me'.at = "idle"
    BY <1>1, OperatorReturns DEF StartScheduler, Return
  <1>3. LaunchScheduler(me.run) /\ UNCHANGED runs /\ late' = {}
    BY <1>1 DEF StartScheduler, Return, me
  <1> DEFINE new == Shell(me.run, "Scheduler", "launch")
  <1>4. (\A sh \in shells' : sh \in shells \/ (sh = new /\ sh.svc = "Scheduler" /\ ~sh.awaited))
        /\ AllInHand'
    BY <1>3, SchedulerLaunched
  <1>5. new \in ShellType
    <2>1. me.run \in 1..runs /\ runs \in Nat
      BY <1>1 DEF Inv, ScriptsApart, TypeOK
    <2> QED
      BY <2>1, ShellBegunType, Services DEF ShellType, Starts
  <1> HIDE DEF new
  <1>6. TypeOK'
    <2>1. shells' \subseteq ShellType
      BY <1>1, <1>4, <1>5 DEF TypeOK, ShellType
    <2> QED
      BY <1>1, <1>2, <1>3, <2>1 DEF TypeOK, LaunchScheduler, Place, ShellType
  <1>7. Awaited'
    <2>1. \A sh \in shells : sh.svc # "Master" /\ ~sh.awaited
      BY <1>1 DEF Inv, Awaited, StartScheduler, Waiting, me, Managed
    <2> QED
      BY <1>4, <2>1, Services DEF Awaited
  <1> QED
    BY <1>2, <1>4, <1>6, <1>7 DEF Inv, MasterStopped, WorkersInTurn, ScriptsApart

LEMMA InvStartSchedulerAlone ==
  ASSUME OneOperator, Inv, NEW t \in Terminals, StartSchedulerAlone(t)
  PROVE  Inv'
  <1>1. /\ t = operator /\ TypeOK /\ me \in Place
        /\ me.at = "idle" /\ runs < MaxRuns /\ runs' = runs + 1 /\ UNCHANGED late
    BY OperatorAt DEF Inv, StartSchedulerAlone, Run, me
  <1>2. term' \in [Terminals -> Place] /\ me'.at = "idle"
    BY <1>1, OperatorReturns DEF StartSchedulerAlone, Run
  <1>3. LaunchScheduler(runs')
    BY DEF StartSchedulerAlone
  <1> DEFINE new == Shell(runs', "Scheduler", "launch")
  <1>4. (\A sh \in shells' : sh \in shells \/ (sh = new /\ sh.svc = "Scheduler" /\ ~sh.awaited))
        /\ AllInHand'
    BY <1>3, SchedulerLaunched
  <1>5. new \in ShellType'
    BY <1>1, RunCounts, ShellBegunType, Services DEF ShellType, Starts
  <1> HIDE DEF new
  <1>6. TypeOK'
    <2>1. shells' \subseteq ShellType'
      BY <1>1, <1>4, <1>5, ShellsGrow
    <2> QED
      BY <1>1, <1>2, <1>3, <2>1, TypesGrow, RunCounts DEF TypeOK, LaunchScheduler, Place, ShellType
  <1>7. Awaited'
    BY <1>1, <1>4, NoneAwaited, Services DEF Awaited
  <1> QED
    BY <1>2, <1>4, <1>6, <1>7 DEF Inv, MasterStopped, WorkersInTurn, ScriptsApart

\* pstop.
LEMMA InvReadSchedulerPid ==
  ASSUME OneOperator, Inv, NEW t \in Terminals, NEW script \in {"pstop", "scheduler"},
         ReadSchedulerPid(t, script)
  PROVE  Inv'
  <1> DEFINE label == IF pidFile["Scheduler"] # 0 THEN "kill_scheduler"
                      ELSE IF script = "pstop" THEN "stop_master" ELSE "idle"
             r == IF label = "idle" THEN Idle
                  ELSE [script |-> script, at |-> label, pid |-> pidFile["Scheduler"],
                        run |-> runs']
  <1>1. /\ t = operator /\ TypeOK /\ me \in Place
        /\ me.at = "idle" /\ runs < MaxRuns /\ runs' = runs + 1
        /\ UNCHANGED <<shells, running, ending, pidFile, dirs, late, mixed>>
    BY OperatorAt DEF Inv, ReadSchedulerPid, Run, me
  <1>2. /\ r \in Place /\ r.at \in {"kill_scheduler", "stop_master", "idle"}
        /\ r.at # "idle" => r.run = runs'
    <2>1. pidFile["Scheduler"] \in Nat
      BY Services DEF Inv, TypeOK
    <2> QED
      BY <1>1, <2>1, RunCounts DEF Place, Script, Label, Idle
  <1>3. term' \in [Terminals -> Place] /\ me' = r
    <2>1. term' = [term EXCEPT ![t] = r]
      BY DEF ReadSchedulerPid, Run
    <2> HIDE DEF r
    <2> QED
      BY <1>1, <1>2, <2>1, OperatorBecomes
  <1> HIDE DEF r
  <1>4. TypeOK'
    <2>1. shells' \subseteq ShellType'
      BY <1>1, ShellsGrow
    <2> QED
      BY <1>1, <1>3, <2>1, TypesGrow, RunCounts DEF TypeOK, Place, ShellType
  <1>5. Awaited'
    BY <1>1, NoneAwaited DEF Awaited
  <1>6. AllInHand'
    BY <1>1, ManagedStay
  <1> QED
    BY <1>1, <1>2, <1>3, <1>4, <1>5, <1>6, RunCounts
       DEF Inv, MasterStopped, WorkersInTurn, ScriptsApart

\* A signal stops the process it is sent to, if it was running, and no other.
LEMMA Terminated ==
  ASSUME TypeOK, NEW svc \in Service, NEW pid, Terminate(svc, pid)
  PROVE  /\ running' \in [Service -> SUBSET (1..runs)] /\ ending' \in [Service -> SUBSET (1..runs)]
         /\ running'[svc] = running[svc] \ {pid}
         /\ \A s \in Service : running'[s] \subseteq running[s]
  BY DEF TypeOK, Terminate

LEMMA InvKillScheduler ==
  ASSUME OneOperator, Inv, NEW t \in Terminals, KillScheduler(t)
  PROVE  Inv'
  <1>1. t = operator /\ TypeOK /\ me \in Place /\ me.at = "kill_scheduler"
    BY OperatorAt DEF Inv, KillScheduler, me
  <1>2. term' \in [Terminals -> Place] /\ me'.at = "ps_scheduler" /\ me'.run = me.run
    BY <1>1, OperatorGoes DEF KillScheduler, Label
  <1>3. /\ running' \in [Service -> SUBSET (1..runs)] /\ ending' \in [Service -> SUBSET (1..runs)]
        /\ \A s \in Service : running'[s] \subseteq running[s]
    BY <1>1, Terminated, Services DEF KillScheduler
  <1>4. TypeOK'
    BY <1>1, <1>2, <1>3 DEF TypeOK, KillScheduler, Place
  <1>5. Awaited'
    BY <1>1, NoneAwaited DEF Awaited, KillScheduler
  <1>6. AllInHand'
    BY <1>3, ManagedStay, Services DEF KillScheduler
  <1> QED
    BY <1>1, <1>2, <1>4, <1>5, <1>6 DEF Inv, MasterStopped, WorkersInTurn, ScriptsApart, KillScheduler

LEMMA InvCheckSchedulerGone ==
  ASSUME OneOperator, Inv, NEW t \in Terminals, CheckSchedulerGone(t)
  PROVE  Inv'
  <1>1. t = operator /\ TypeOK /\ me \in Place /\ me.at = "ps_scheduler"
    BY OperatorAt DEF Inv, CheckSchedulerGone, me
  <1>2. /\ term' \in [Terminals -> Place] /\ late' \subseteq Hosts
        /\ me'.at = "idle" \/ (me'.at = "stop_master" /\ me'.run = me.run)
    BY <1>1, OperatorGoes, OperatorReturns DEF CheckSchedulerGone, Return, Label, TypeOK
  <1>3. /\ pidFile' \in [Service -> 0..runs]
        /\ \A s \in Managed : pidFile'[s] = pidFile[s]
        /\ UNCHANGED <<runs, shells, running, ending, dirs, mixed>>
    <2>1. runs \in Nat
      BY <1>1 DEF TypeOK
    <2> QED
      BY <1>1, <2>1, Services DEF CheckSchedulerGone, TypeOK
  <1>4. TypeOK'
    BY <1>1, <1>2, <1>3 DEF TypeOK, Place
  <1>5. Awaited'
    BY <1>1, <1>3, NoneAwaited DEF Awaited
  <1>6. AllInHand'
    BY <1>3, ManagedStay
  <1> QED
    BY <1>1, <1>2, <1>3, <1>4, <1>5, <1>6 DEF Inv, MasterStopped, WorkersInTurn, ScriptsApart

LEMMA InvReadMasterPid ==
  ASSUME OneOperator, Inv, NEW t \in Terminals, ReadMasterPid(t)
  PROVE  Inv'
  <1>1. t = operator /\ TypeOK /\ me \in Place /\ me.at = "stop_master"
    BY OperatorAt DEF Inv, ReadMasterPid, me
  <1>2. UNCHANGED <<runs, shells, running, ending, pidFile, dirs, late, mixed>>
    BY DEF ReadMasterPid
  <1> DEFINE r == [term[t] EXCEPT !.at = "kill_master", !.pid = pidFile["Master"]]
  <1>3. CASE pidFile["Master"] = 0
    <2>1. term' \in [Terminals -> Place] /\ me'.at = "stop_workers" /\ me'.run = me.run
      BY <1>1, <1>3, OperatorGoes DEF ReadMasterPid, Label
    <2>2. "Master" \in Known => Gone("Master")
      <3>1. running["Master"] \subseteq 1..runs /\ runs \in Nat
        BY Services DEF Inv, TypeOK
      <3>2. \A sh \in shells : sh.svc # "Master"
        BY <1>1, NoneAwaited
      <3> QED
        BY <1>3, <3>1, <3>2 DEF Inv, AllInHand, InHand, Only, Gone
    <2>3. TypeOK' /\ Awaited' /\ AllInHand'
      <3>1. TypeOK'
        BY <1>1, <1>2, <2>1 DEF TypeOK, Place
      <3>2. Awaited'
        BY <1>1, <1>2, NoneAwaited DEF Awaited
      <3> QED
        BY <1>2, <3>1, <3>2, ManagedStay
    <2> QED
      BY <1>1, <1>2, <2>1, <2>2, <2>3
         DEF Inv, MasterStopped, WorkersInTurn, ScriptsApart, Gone, Known
  <1>4. CASE pidFile["Master"] # 0
    <2>1. r \in Place /\ r.at = "kill_master" /\ r.pid = pidFile["Master"] /\ r.run = me.run
      <3>1. pidFile["Master"] \in Nat
        BY <1>1, Services DEF TypeOK
      <3> QED
        BY <1>1, <3>1 DEF me, Place, Label
    <2>2. term' = [term EXCEPT ![t] = r]
      BY <1>1, <1>4 DEF ReadMasterPid, TypeOK
    <2> HIDE DEF r
    <2>3. term' \in [Terminals -> Place] /\ me' = r
      BY <1>1, <2>1, <2>2, OperatorBecomes
    <2>4. TypeOK'
      BY <1>1, <1>2, <2>3 DEF TypeOK, Place
    <2>5. Awaited'
      BY <1>1, <1>2, NoneAwaited DEF Awaited
    <2>6. AllInHand'
      BY <1>2, ManagedStay
    <2> QED
      BY <1>1, <1>2, <2>1, <2>3, <2>4, <2>5, <2>6
         DEF Inv, MasterStopped, WorkersInTurn, ScriptsApart
  <1> QED
    BY <1>3, <1>4

LEMMA InvKillMaster ==
  ASSUME OneOperator, Inv, NEW t \in Terminals, KillMaster(t)
  PROVE  Inv'
  <1>1. t = operator /\ TypeOK /\ me \in Place /\ me.at = "kill_master"
    BY OperatorAt DEF Inv, KillMaster, me
  <1>2. term' \in [Terminals -> Place] /\ me'.at = "rm_master" /\ me'.run = me.run
    BY <1>1, OperatorGoes DEF KillMaster, Label
  <1>3. /\ running' \in [Service -> SUBSET (1..runs)] /\ ending' \in [Service -> SUBSET (1..runs)]
        /\ running'["Master"] = running["Master"] \ {me.pid}
        /\ \A s \in Service : running'[s] \subseteq running[s]
    BY <1>1, Terminated, Services DEF KillMaster, me
  <1>4. TypeOK'
    BY <1>1, <1>2, <1>3 DEF TypeOK, KillMaster, Place
  <1>5. \A sh \in shells : sh.svc # "Master" /\ ~sh.awaited
    BY <1>1, NoneAwaited
  <1>6. Awaited'
    BY <1>5 DEF Awaited, KillMaster
  <1>7. AllInHand'
    BY <1>3, ManagedStay, Services DEF KillMaster
  <1>8. "Master" \in Known => running'["Master"] = {}
    BY <1>1, <1>3, <1>5 DEF Inv, MasterStopped, AllInHand, InHand, Only
  <1> QED
    BY <1>1, <1>2, <1>4, <1>6, <1>7, <1>8
       DEF Inv, MasterStopped, WorkersInTurn, ScriptsApart, KillMaster, Known

\* What a directory that is removed leaves: a service that shared it and lost nothing by it is
\* in hand as it was.
LEMMA DirRemoved ==
  ASSUME Inv, NEW svc \in Service, NEW others \in SUBSET shells, RemoveDir(svc, others)
  PROVE  /\ dirs' \subseteq dirs /\ shells' \subseteq others
         /\ pidFile' \in [Service -> 0..runs] /\ pidFile'[svc] = 0
         /\ mixed \subseteq mixed' /\ mixed' \subseteq Service
         /\ \A s \in Known' \ {svc} : /\ pidFile'[s] = pidFile[s]
                                      /\ \A sh \in others : sh.svc = s => sh \in shells'
  <1> DEFINE users == {s \in Service : Dir(s) = Dir(svc)}
             losers == {s \in users \ {svc} : \/ pidFile[s] # 0
                                              \/ \E sh \in shells : sh.svc = s /\ sh.at \in Starts}
  <1>1. /\ dirs' = dirs \ {Dir(svc)}
        /\ pidFile' = [s \in Service |-> IF s \in users THEN 0 ELSE pidFile[s]]
        /\ shells' = {sh \in others : ~(sh.svc \in users /\ sh.at = "write_pid")}
        /\ mixed' = mixed \cup losers
    BY DEF RemoveDir
  <1>2. runs \in Nat /\ pidFile \in [Service -> 0..runs] /\ mixed \subseteq Service
    BY DEF Inv, TypeOK
  <1>3. svc \in users /\ users \subseteq Service
    OBVIOUS
  <1>4. pidFile' \in [Service -> 0..runs] /\ pidFile'[svc] = 0
    BY <1>1, <1>2, <1>3
  <1>5. ASSUME NEW s \in Known', s # svc
        PROVE  pidFile'[s] = pidFile[s] /\ \A sh \in others : sh.svc = s => sh \in shells'
    <2>1. s \in Service /\ s \notin losers
      BY <1>1, Services DEF Known
    <2>2. CASE s \in users
      <3>1. pidFile[s] = 0 /\ \A sh \in shells : sh.svc = s => sh.at # "write_pid"
        BY <1>5, <2>1, <2>2 DEF Starts
      <3> HIDE DEF losers, users
      <3> QED
        BY <1>1, <2>1, <2>2, <3>1
    <2>3. CASE s \notin users
      <3> HIDE DEF losers, users
      <3> QED
        BY <1>1, <2>1, <2>3
    <2> QED
      BY <2>2, <2>3
  <1>6. mixed' \subseteq Service /\ mixed \subseteq mixed' /\ shells' \subseteq others /\ dirs' \subseteq dirs
    BY <1>1, <1>2
  <1> QED
    BY <1>4, <1>5, <1>6

LEMMA InvRemoveMasterDir ==
  ASSUME OneOperator, Inv, NEW t \in Terminals, RemoveMasterDir(t)
  PROVE  Inv'
  <1>1. t = operator /\ TypeOK /\ me \in Place /\ me.at = "rm_master"
    BY OperatorAt DEF Inv, RemoveMasterDir, me
  <1>2. term' \in [Terminals -> Place] /\ me'.at = "stop_workers" /\ me'.run = me.run
    BY <1>1, OperatorGoes DEF RemoveMasterDir, Label
  <1>3. /\ dirs' \subseteq dirs /\ shells' \subseteq shells
        /\ pidFile' \in [Service -> 0..runs] /\ pidFile'["Master"] = 0
        /\ mixed \subseteq mixed' /\ mixed' \subseteq Service
        /\ \A s \in Known' \ {"Master"} : /\ pidFile'[s] = pidFile[s]
                                           /\ \A sh \in shells : sh.svc = s => sh \in shells'
    BY DirRemoved, Services DEF RemoveMasterDir
  <1>4. UNCHANGED <<runs, running, ending, late>> /\ Known' \subseteq Known
    BY <1>3, KnownShrinks DEF RemoveMasterDir
  <1>5. \A sh \in shells : sh.svc # "Master" /\ ~sh.awaited
    BY <1>1, NoneAwaited
  <1>6. TypeOK'
    BY <1>1, <1>2, <1>3, <1>4 DEF TypeOK, Place
  <1>7. Awaited'
    BY <1>3, <1>5 DEF Awaited
  <1>8. "Master" \in Known => running["Master"] = {}
    BY <1>1 DEF Inv, MasterStopped
  <1>9. AllInHand'
    <2> SUFFICES ASSUME NEW s \in Known' PROVE InHand(s)'
      BY DEF AllInHand
    <2>1. InHand(s)
      BY <1>4 DEF Inv, AllInHand
    <2>2. CASE s = "Master"
      BY <1>3, <1>4, <1>5, <1>8, <2>2 DEF InHand, Only
    <2>3. CASE s # "Master"
      BY <1>3, <1>4, <2>1, <2>3, InHandStays
    <2> QED
      BY <2>2, <2>3
  <1> QED
    BY <1>1, <1>2, <1>3, <1>4, <1>6, <1>7, <1>8, <1>9
       DEF Inv, MasterStopped, WorkersInTurn, ScriptsApart, Gone

LEMMA InvStopWorkers ==
  ASSUME OneOperator, Inv, NEW t \in Terminals, StopWorkers(t)
  PROVE  Inv'
  <1>1. t = operator /\ TypeOK /\ me \in Place /\ me.at = "stop_workers"
    BY OperatorAt DEF Inv, StopWorkers, me
  <1> DEFINE New(h) == Shell(me.run, h, "read_pid")
  <1>2. term' \in [Terminals -> Place] /\ me'.at = "wait_workers" /\ me'.run = me.run
    BY <1>1, OperatorGoes DEF StopWorkers, Label
  <1>3. \A sh \in shells : sh.svc # "Master" /\ ~sh.awaited
    BY <1>1, NoneAwaited
  <1>4. \A h \in Hosts : /\ New(h).run = me.run /\ New(h).svc = h /\ New(h).at = "read_pid"
                         /\ New(h).awaited
    BY ShellBegun, Services
  <1>5. shells' = shells \cup {New(h) : h \in Hosts}
    BY <1>1 DEF StopWorkers, me
  <1>6. \A h \in Hosts : New(h) \in ShellType
    <2>1. me.run \in 1..runs /\ runs \in Nat
      BY <1>1 DEF Inv, ScriptsApart, TypeOK
    <2> QED
      BY <2>1, ShellBegunType, Services DEF ShellType, Stops
  <1> HIDE DEF New
  <1>7. /\ \A sh \in shells' : sh \in shells \/ \E h \in Hosts : sh = New(h)
        /\ shells \subseteq shells'
        /\ \A h \in Hosts : New(h) \in shells'
    BY <1>5
  <1>8. /\ mixed' = mixed \cup {s \in Hosts : \E sh \in shells : sh.svc = s}
        /\ UNCHANGED <<runs, running, ending, pidFile, dirs, late>>
    BY DEF StopWorkers, Mixes
  <1>9. TypeOK'
    <2>1. shells' \subseteq ShellType
      BY <1>1, <1>6, <1>7 DEF TypeOK, ShellType
    <2> QED
      BY <1>1, <1>2, <1>8, <2>1, Services DEF TypeOK, Place, ShellType
  <1>10. Awaited'
    <2>1. ASSUME NEW sh \in shells' PROVE
            /\ sh.svc # "Master" /\ (sh.awaited => sh.run = me.run /\ sh.svc \in Managed)
      BY <1>3, <1>4, <1>7, Services
    <2> QED
      BY <1>2, <2>1 DEF Awaited
  <1>11. AllInHand'
    <2> SUFFICES ASSUME NEW s \in Known' PROVE InHand(s)'
      BY DEF AllInHand
    <2>1. InHand(s) /\ s \in Service /\ (s \in Hosts => \A sh \in shells : sh.svc # s)
      BY <1>8, Services DEF AllInHand, Known, Inv
    <2>2. CASE s \in Hosts
      <3> DEFINE new == New(s)
      <3>1. new.svc = s /\ new.at = "read_pid" /\ new \in shells'
        BY <1>4, <1>7, <2>2
      <3>2. \A sh \in shells' : sh.svc = s => sh = new
        BY <1>4, <1>7, <2>1, <2>2
      <3> HIDE DEF new
      <3> QED
        BY <1>1, <1>8, <2>1, <2>2, <3>1, <3>2, InHandBegins
    <2>3. CASE s \notin Hosts
      BY <1>4, <1>7, <1>8, <2>1, <2>3, InHandStays
    <2> QED
      BY <2>2, <2>3
  <1>12. \A h \in Hosts : BeingStopped(h)'
    BY <1>4, <1>7 DEF BeingStopped, Stops
  <1>13. MasterStopped'
    BY <1>1, <1>2, <1>8 DEF Inv, MasterStopped, Gone, Known
  <1> QED
    BY <1>1, <1>2, <1>8, <1>9, <1>10, <1>11, <1>12, <1>13 DEF Inv, WorkersInTurn, ScriptsApart

\* pstop ends: the hosts it has waited for have no shell of it left.
LEMMA NoneBeingStopped ==
  ASSUME OneOperator, Inv, NEW t \in Terminals, WorkersStopped(t)
  PROVE  me.at = "wait_workers" /\ \A sh \in shells : ~sh.awaited
  BY OperatorAt DEF Inv, Awaited, WorkersStopped, Waiting, me, Managed

LEMMA InvWorkersStopped ==
  ASSUME OneOperator, Inv, NEW t \in Terminals, WorkersStopped(t)
  PROVE  Inv'
  <1>1. t = operator /\ TypeOK /\ me \in Place /\ me.at = "wait_workers"
    BY OperatorAt DEF Inv, WorkersStopped, me
  <1>2. term' \in [Terminals -> Place] /\ me'.at = "idle"
    BY <1>1, OperatorReturns DEF WorkersStopped, Return
  <1>3. UNCHANGED <<runs, shells, running, ending, pidFile, dirs, mixed>> /\ late' = {}
    BY DEF WorkersStopped, Return
  <1>4. TypeOK'
    BY <1>1, <1>2, <1>3 DEF TypeOK, Place
  <1>5. Awaited'
    BY <1>1, <1>3, NoneBeingStopped DEF Inv, Awaited
  <1>6. AllInHand'
    BY <1>3, ManagedStay
  <1> QED
    BY <1>2, <1>3, <1>4, <1>5, <1>6 DEF Inv, MasterStopped, WorkersInTurn, ScriptsApart

-----------------------------------------------------------------------------
\* A shell of a service takes a step.  What it does to its own service is for each step to
\* say; the others stay in hand, and the scripts where they were.
LEMMA ShellStep ==
  ASSUME Inv, NEW sh \in shells, NEW svc, svc = sh.svc,
         UNCHANGED <<term, runs>>, TypeOK', mixed \subseteq mixed', late \subseteq late',
         \A x \in shells' : \/ x \in shells
                            \/ /\ x.svc = svc /\ x.run = sh.run
                               /\ (x.awaited <=> sh.awaited) \/ (svc \in Hosts /\ ~x.awaited),
         \A s \in Known' \ {svc} : /\ running'[s] \subseteq running[s]
                                   /\ pidFile'[s] = pidFile[s]
                                   /\ \A x \in shells : x.svc = s => x \in shells',
         svc \in Known' => InHand(svc)',
         svc \in (Hosts \cap Known') \ late' /\ me.at = "wait_workers" /\ sh.at \in Stops /\ sh.awaited
           => (Over(svc) \/ BeingStopped(svc))'
  PROVE  Inv'
  <1>1. me' = me /\ Known' \subseteq Known
    BY KnownShrinks DEF me
  <1>2. Awaited'
    BY <1>1, Services DEF Inv, Awaited
  <1>3. AllInHand'
    <2> SUFFICES ASSUME NEW s \in Known' PROVE InHand(s)'
      BY DEF AllInHand
    <2>1. CASE s = svc
      BY <2>1
    <2>2. CASE s # svc
      <3>1. InHand(s)
        BY <1>1 DEF Inv, AllInHand
      <3>2. \A x \in shells' : x.svc = s => x \in shells
        BY <2>2
      <3> QED
        BY <2>2, <3>1, <3>2, InHandStays
    <2> QED
      BY <2>1, <2>2
  <1>4. MasterStopped'
    <2>1. CASE me.at = "start_workers"
      BY <1>1, <2>1 DEF MasterStopped
    <2>2. CASE me.at # "start_workers"
      <3>1. svc # "Master"
        BY <2>2 DEF Inv, Awaited
      <3>2. "Master" \in Known' => /\ running'["Master"] \subseteq running["Master"]
                                   /\ pidFile'["Master"] = pidFile["Master"]
        BY <3>1
      <3> QED
        BY <1>1, <3>2 DEF Inv, MasterStopped, Gone
    <2> QED
      BY <2>1, <2>2
  <1>5. WorkersInTurn'
    <2> SUFFICES ASSUME me.at = "wait_workers", NEW h \in (Hosts \cap Known') \ late'
                 PROVE  (Over(h) \/ BeingStopped(h))'
      BY <1>1 DEF WorkersInTurn
    <2>1. h \in Known /\ h \notin late /\ InHand(h) /\ (Over(h) \/ BeingStopped(h))
      BY <1>1 DEF Inv, AllInHand, WorkersInTurn
    <2>2. CASE h = svc
      <3>1. BeingStopped(h)
        BY <2>1, <2>2 DEF Over
      <3>2. sh.at \in Stops /\ sh.awaited
        BY <2>1, <2>2, <3>1 DEF BeingStopped, InHand
      <3> QED
        BY <2>2, <3>2
    <2>3. CASE h # svc
      <3>1. /\ running'[h] \subseteq running[h] /\ pidFile'[h] = pidFile[h]
            /\ \A x \in shells : x.svc = h => x \in shells'
            /\ \A x \in shells' : x.svc = h => x \in shells
        BY <2>3
      <3> QED
        BY <2>1, <3>1 DEF Over, BeingStopped, Gone
    <2> QED
      BY <2>2, <2>3
  <1>6. ScriptsApart'
    BY <1>1 DEF Inv, ScriptsApart
  <1> QED
    BY <1>2, <1>3, <1>4, <1>5, <1>6 DEF Inv

\* What the invariant says of a shell.
LEMMA ShellKnows ==
  ASSUME Inv, NEW sh \in shells
  PROVE  /\ sh \in ShellType /\ sh.svc \in Service /\ runs \in Nat
         /\ sh.svc \in Known => /\ Knows(sh, sh.svc)
                                /\ \A x \in shells : x.svc = sh.svc => x = sh
  BY DEF Inv, TypeOK, ShellType, AllInHand, InHand

LEMMA InvLaunch ==
  ASSUME Inv, NEW sh \in shells, Launch(sh)
  PROVE  Inv'
  <1> DEFINE svc == sh.svc
             new == [sh EXCEPT !.at = "write_pid", !.pid = sh.run]
  <1>1. /\ sh \in ShellType /\ svc \in Service /\ runs \in Nat /\ sh.at = "launch"
        /\ svc \in Known => Knows(sh, svc) /\ \A x \in shells : x.svc = svc => x = sh
    BY ShellKnows DEF Launch
  <1>2. UNCHANGED <<term, runs, ending, pidFile, dirs, late, mixed>>
    BY DEF Launch
  <1>3. Known' = Known
    BY <1>2 DEF Known
  <1>4. /\ new.svc = svc /\ new.run = sh.run /\ (new.awaited <=> sh.awaited)
        /\ new.at = "write_pid" /\ new.pid = sh.run /\ new \in ShellType
    <2>1. "write_pid" \in Starts \cup Stops /\ sh.run \in 0..runs
      BY <1>1 DEF Starts, ShellType
    <2> QED
      BY <1>1, <2>1 DEF ShellType
  <1> HIDE DEF svc, new
  <1>5. CASE Dir(sh.svc) \in dirs
    <2>1. /\ running' = [running EXCEPT ![svc] = @ \cup {sh.run}]
          /\ shells' = (shells \ {sh}) \cup {new}
      BY <1>5 DEF Launch, svc, new
    <2>2. /\ running' \in [Service -> SUBSET (1..runs)]
          /\ running'[svc] = running[svc] \cup {sh.run}
          /\ \A s \in Service \ {svc} : running'[s] = running[s]
      BY <1>1, <2>1 DEF Inv, TypeOK, ShellType
    <2>3. TypeOK'
      BY <1>2, <1>4, <2>1, <2>2 DEF Inv, TypeOK, ShellType
    <2>4. svc \in Known' => InHand(svc)'
      <3> SUFFICES ASSUME svc \in Known PROVE InHand(svc)'
        BY <1>3
      <3>1. Knows(sh, svc) /\ \A x \in shells : x.svc = svc => x = sh
        BY <1>1
      <3>2. pidFile[svc] = 0 /\ running'[svc] = {sh.run}
        BY <1>1, <2>2, <3>1 DEF Knows
      <3>3. \A x \in shells' : x.svc = svc => x = new
        BY <2>1, <3>1
      <3>4. new \in shells' /\ Knows(new, svc)'
        BY <1>2, <1>4, <2>1, <3>2 DEF Knows, Only
      <3> QED
        BY <1>4, <3>3, <3>4 DEF InHand
    <2>5. \A s \in Known' \ {svc} : /\ running'[s] \subseteq running[s] /\ pidFile'[s] = pidFile[s]
                                    /\ \A x \in shells : x.svc = s => x \in shells'
      BY <1>2, <2>1, <2>2, Services DEF Known, svc
    <2>6. \A x \in shells' : x \in shells \/ (x.svc = svc /\ x.run = sh.run /\ (x.awaited <=> sh.awaited))
      BY <1>4, <2>1
    <2>7. sh.at \notin Stops
      BY <1>1 DEF Stops
    <2> QED
      BY <1>2, <2>3, <2>4, <2>5, <2>6, <2>7, ShellStep DEF svc
  <1>6. CASE Dir(sh.svc) \notin dirs
    <2>1. shells' = shells \ {sh} /\ UNCHANGED running
      BY <1>6 DEF Launch
    <2>2. TypeOK'
      BY <1>2, <2>1 DEF Inv, TypeOK
    <2>3. svc \in Known' => InHand(svc)'
      BY <1>1, <1>2, <1>3, <2>1 DEF InHand, Knows, Only
    <2>4. \A s \in Known' \ {svc} : /\ running'[s] \subseteq running[s] /\ pidFile'[s] = pidFile[s]
                                    /\ \A x \in shells : x.svc = s => x \in shells'
      BY <1>2, <2>1 DEF svc
    <2>5. sh.at \notin Stops
      BY <1>1 DEF Stops
    <2> QED
      BY <1>2, <2>1, <2>2, <2>3, <2>4, <2>5, ShellStep DEF svc
  <1> QED
    BY <1>5, <1>6

LEMMA InvWritePid ==
  ASSUME Inv, NEW sh \in shells, WritePid(sh)
  PROVE  Inv'
  <1> DEFINE svc == sh.svc
  <1>1. /\ sh \in ShellType /\ svc \in Service /\ runs \in Nat /\ sh.at = "write_pid"
        /\ svc \in Known => Knows(sh, svc) /\ \A x \in shells : x.svc = svc => x = sh
    BY ShellKnows DEF WritePid
  <1>2. /\ UNCHANGED <<term, runs, running, ending, dirs, late, mixed>>
        /\ shells' = shells \ {sh} /\ pidFile' = [pidFile EXCEPT ![svc] = sh.pid]
    BY DEF WritePid
  <1>3. Known' = Known
    BY <1>2 DEF Known
  <1> HIDE DEF svc
  <1>4. /\ pidFile' \in [Service -> 0..runs] /\ pidFile'[svc] = sh.pid
        /\ \A s \in Service \ {svc} : pidFile'[s] = pidFile[s]
    BY <1>1, <1>2 DEF Inv, TypeOK, ShellType
  <1>5. TypeOK'
    BY <1>2, <1>4 DEF Inv, TypeOK
  <1>6. svc \in Known' => InHand(svc)'
    BY <1>1, <1>2, <1>3, <1>4 DEF InHand, Knows, Only
  <1>7. \A s \in Known' \ {svc} : /\ running'[s] \subseteq running[s] /\ pidFile'[s] = pidFile[s]
                                  /\ \A x \in shells : x.svc = s => x \in shells'
    BY <1>2, <1>4, Services DEF Known, svc
  <1>8. sh.at \notin Stops
    BY <1>1 DEF Stops
  <1> QED
    BY <1>2, <1>5, <1>6, <1>7, <1>8, ShellStep DEF svc

LEMMA InvTimeOut ==
  ASSUME Inv, NEW sh \in shells, TimeOut(sh)
  PROVE  Inv'
  <1> DEFINE svc == sh.svc
             new == [sh EXCEPT !.awaited = FALSE]
  <1>1. /\ sh \in ShellType /\ svc \in Service /\ svc \in Hosts
        /\ svc \in Known => Knows(sh, svc) /\ \A x \in shells : x.svc = svc => x = sh
    BY ShellKnows DEF TimeOut
  <1>2. /\ UNCHANGED <<term, runs, running, ending, pidFile, dirs, mixed>>
        /\ late' = late \cup {svc}
        /\ \/ shells' = (shells \ {sh}) \cup {new}
           \/ sh.at \in {"launch", "read_pid"} /\ shells' = shells \ {sh}
    BY DEF TimeOut
  <1>3. Known' = Known
    BY <1>2 DEF Known
  <1>4. /\ new.svc = svc /\ new.run = sh.run /\ new.at = sh.at /\ new.pid = sh.pid /\ ~new.awaited
        /\ new \in ShellType
    BY <1>1 DEF ShellType
  <1> HIDE DEF svc, new
  <1>5. TypeOK'
    BY <1>1, <1>2, <1>4 DEF Inv, TypeOK, ShellType
  <1>6. svc \in Known' => InHand(svc)'
    <2> SUFFICES ASSUME svc \in Known PROVE InHand(svc)'
      BY <1>3
    <2>1. Knows(sh, svc) /\ \A x \in shells : x.svc = svc => x = sh
      BY <1>1
    <2>2. CASE shells' = (shells \ {sh}) \cup {new}
      <3>1. \A x \in shells' : x.svc = svc => x = new
        BY <2>1, <2>2
      <3>2. new \in shells' /\ Knows(new, svc)'
        BY <1>2, <1>4, <2>1, <2>2 DEF Knows, Only
      <3> QED
        BY <1>4, <3>1, <3>2 DEF InHand
    <2>3. CASE sh.at \in {"launch", "read_pid"} /\ shells' = shells \ {sh}
      BY <1>2, <2>1, <2>3 DEF InHand, Knows, Only
    <2> QED
      BY <1>2, <2>2, <2>3
  <1>7. \A s \in Known' \ {svc} : /\ running'[s] \subseteq running[s] /\ pidFile'[s] = pidFile[s]
                                  /\ \A x \in shells : x.svc = s => x \in shells'
    BY <1>2 DEF svc
  <1>8. \A x \in shells' : x \in shells \/ (x.svc = svc /\ x.run = sh.run /\ svc \in Hosts /\ ~x.awaited)
    BY <1>1, <1>2, <1>4
  <1> QED
    BY <1>2, <1>5, <1>6, <1>7, <1>8, ShellStep DEF svc

LEMMA InvReadWorkerPid ==
  ASSUME Inv, NEW sh \in shells, ReadWorkerPid(sh)
  PROVE  Inv'
  <1>0. PICK pid : pid = pidFile[sh.svc]
    OBVIOUS
  <1> DEFINE svc == sh.svc
             new == [sh EXCEPT !.at = "kill", !.pid = pid]
  <1>1. /\ sh \in ShellType /\ svc \in Service /\ runs \in Nat /\ sh.at = "read_pid"
        /\ svc \in Known => Knows(sh, svc) /\ \A x \in shells : x.svc = svc => x = sh
    BY ShellKnows DEF ReadWorkerPid
  <1>2. /\ UNCHANGED <<term, runs, running, ending, pidFile, dirs, late, mixed>>
        /\ shells' = (shells \ {sh}) \cup {new}
    BY <1>0 DEF ReadWorkerPid
  <1>3. Known' = Known
    BY <1>2 DEF Known
  <1>4. /\ new.svc = svc /\ new.run = sh.run /\ (new.awaited <=> sh.awaited)
        /\ new.at = "kill" /\ new.pid = pidFile[svc] /\ new \in ShellType
    <2>1. "kill" \in Starts \cup Stops /\ pidFile[svc] \in 0..runs
      BY <1>1 DEF Stops, Inv, TypeOK
    <2> QED
      BY <1>0, <1>1, <2>1 DEF ShellType
  <1> HIDE DEF svc, new
  <1>5. TypeOK'
    BY <1>2, <1>4 DEF Inv, TypeOK, ShellType
  <1>6. svc \in Known' => InHand(svc)'
    <2> SUFFICES ASSUME svc \in Known PROVE InHand(svc)'
      BY <1>3
    <2>1. Knows(sh, svc) /\ \A x \in shells' : x.svc = svc => x = new
      BY <1>1, <1>2
    <2>2. new \in shells' /\ Knows(new, svc)'
      BY <1>1, <1>2, <1>4, <2>1 DEF Knows, Only
    <2> QED
      BY <1>4, <2>1, <2>2 DEF InHand
  <1>7. \A s \in Known' \ {svc} : /\ running'[s] \subseteq running[s] /\ pidFile'[s] = pidFile[s]
                                  /\ \A x \in shells : x.svc = s => x \in shells'
    BY <1>2 DEF svc
  <1>8. \A x \in shells' : x \in shells \/ (x.svc = svc /\ x.run = sh.run /\ (x.awaited <=> sh.awaited))
    BY <1>2, <1>4
  <1>9. sh.awaited => BeingStopped(svc)'
    BY <1>2, <1>4 DEF BeingStopped, Stops
  <1> QED
    BY <1>2, <1>5, <1>6, <1>7, <1>8, <1>9, ShellStep DEF svc

LEMMA InvKillWorker ==
  ASSUME Inv, NEW sh \in shells, KillWorker(sh)
  PROVE  Inv'
  <1> DEFINE svc == sh.svc
             new == [sh EXCEPT !.at = "rm"]
  <1>1. /\ sh \in ShellType /\ svc \in Service /\ runs \in Nat /\ sh.at = "kill"
        /\ svc \in Known => Knows(sh, svc) /\ \A x \in shells : x.svc = svc => x = sh
    BY ShellKnows DEF KillWorker
  <1>2. /\ UNCHANGED <<term, runs, pidFile, dirs, late, mixed>>
        /\ shells' = (shells \ {sh}) \cup {new}
        /\ running' = [running EXCEPT ![svc] = @ \ {sh.pid}]
        /\ ending' = [ending EXCEPT ![svc] = @ \ {sh.pid}]
    BY DEF KillWorker
  <1>3. Known' = Known
    BY <1>2 DEF Known
  <1>4. /\ new.svc = svc /\ new.run = sh.run /\ (new.awaited <=> sh.awaited)
        /\ new.at = "rm" /\ new \in ShellType
    BY <1>1 DEF ShellType, Stops
  <1> HIDE DEF svc, new
  <1>5. /\ running' \in [Service -> SUBSET (1..runs)] /\ ending' \in [Service -> SUBSET (1..runs)]
        /\ running'[svc] = running[svc] \ {sh.pid}
        /\ \A s \in Service \ {svc} : running'[s] = running[s]
    BY <1>1, <1>2 DEF Inv, TypeOK
  <1>6. TypeOK'
    BY <1>2, <1>4, <1>5 DEF Inv, TypeOK, ShellType
  <1>7. svc \in Known' => InHand(svc)'
    <2> SUFFICES ASSUME svc \in Known PROVE InHand(svc)'
      BY <1>3
    <2>1. Knows(sh, svc) /\ \A x \in shells' : x.svc = svc => x = new
      BY <1>1, <1>2
    <2>2. running'[svc] = {}
      BY <1>1, <1>5, <2>1 DEF Knows, Only
    <2>3. new \in shells' /\ Knows(new, svc)'
      BY <1>2, <1>4, <2>2 DEF Knows
    <2> QED
      BY <1>4, <2>1, <2>3 DEF InHand
  <1>8. \A s \in Known' \ {svc} : /\ running'[s] \subseteq running[s] /\ pidFile'[s] = pidFile[s]
                                  /\ \A x \in shells : x.svc = s => x \in shells'
    BY <1>2, <1>5, Services DEF Known, svc
  <1>9. \A x \in shells' : x \in shells \/ (x.svc = svc /\ x.run = sh.run /\ (x.awaited <=> sh.awaited))
    BY <1>2, <1>4
  <1>10. sh.awaited => BeingStopped(svc)'
    BY <1>2, <1>4 DEF BeingStopped, Stops
  <1> QED
    BY <1>2, <1>6, <1>7, <1>8, <1>9, <1>10, ShellStep DEF svc

LEMMA InvRemoveWorkerDir ==
  ASSUME Inv, NEW sh \in shells, RemoveWorkerDir(sh)
  PROVE  Inv'
  <1> DEFINE svc == sh.svc
             others == shells \ {sh}
  <1>1. /\ svc \in Service /\ sh.at = "rm"
        /\ svc \in Known => Knows(sh, svc) /\ \A x \in shells : x.svc = svc => x = sh
    BY ShellKnows DEF RemoveWorkerDir
  <1>2. UNCHANGED <<term, runs, running, ending, late>> /\ RemoveDir(svc, others)
    BY DEF RemoveWorkerDir
  <1>3. sh \notin others /\ others \in SUBSET shells /\ \A x \in shells : x.svc # svc => x \in others
    OBVIOUS
  <1> HIDE DEF svc, others
  <1>4. /\ dirs' \subseteq dirs /\ shells' \subseteq others
        /\ pidFile' \in [Service -> 0..runs] /\ pidFile'[svc] = 0
        /\ mixed \subseteq mixed' /\ mixed' \subseteq Service
        /\ \A s \in Known' \ {svc} : /\ pidFile'[s] = pidFile[s]
                                     /\ \A x \in others : x.svc = s => x \in shells'
    BY <1>1, <1>2, <1>3, DirRemoved
  <1>5. Known' \subseteq Known
    BY <1>4, KnownShrinks
  <1>6. TypeOK'
    BY <1>2, <1>3, <1>4 DEF Inv, TypeOK
  <1>7. svc \in Known' =>
          /\ running'[svc] = {} /\ pidFile'[svc] = 0
          /\ \A x \in shells' : x.svc # svc
    BY <1>1, <1>2, <1>3, <1>4, <1>5 DEF Knows
  <1>8. svc \in Known' => InHand(svc)' /\ Over(svc)'
    BY <1>7 DEF InHand, Only, Over, Gone
  <1>9. \A s \in Known' \ {svc} : /\ running'[s] \subseteq running[s] /\ pidFile'[s] = pidFile[s]
                                  /\ \A x \in shells : x.svc = s => x \in shells'
    BY <1>2, <1>3, <1>4
  <1>10. \A x \in shells' : x \in shells
    BY <1>3, <1>4
  <1> QED
    BY <1>2, <1>4, <1>6, <1>8, <1>9, <1>10, ShellStep DEF svc

\* A process that exits or crashes is one less.
LEMMA InvExit ==
  ASSUME Inv, NEW svc \in Service, NEW p, Exit(svc, p)
  PROVE  Inv'
  <1>1. UNCHANGED <<term, runs, shells, pidFile, dirs, late, mixed>>
    BY DEF Exit
  <1>2. /\ running' \in [Service -> SUBSET (1..runs)] /\ ending' \in [Service -> SUBSET (1..runs)]
        /\ \A s \in Service : running'[s] \subseteq running[s]
    BY DEF Exit, Inv, TypeOK
  <1>3. TypeOK'
    BY <1>1, <1>2 DEF Inv, TypeOK
  <1>4. me' = me /\ Known' = Known
    BY <1>1 DEF me, Known
  <1>5. Awaited' /\ ScriptsApart'
    BY <1>1, <1>4 DEF Inv, Awaited, ScriptsApart
  <1>6. AllInHand'
    BY <1>1, <1>2, ManagedStay, Services
  <1>7. MasterStopped' /\ WorkersInTurn'
    BY <1>1, <1>2, <1>4, Services
       DEF Inv, MasterStopped, WorkersInTurn, Over, BeingStopped, Gone
  <1> QED
    BY <1>3, <1>5, <1>6, <1>7 DEF Inv

LEMMA InvNext == ASSUME OneOperator, Inv, [Next]_vars PROVE Inv'
  <1>1. CASE UNCHANGED vars
    BY <1>1 DEF vars, Inv, TypeOK, Awaited, AllInHand, InHand, Knows, Only, MasterStopped,
                WorkersInTurn, Over, BeingStopped, Gone, ScriptsApart, Known, me
  <1>2. ASSUME NEW t \in Terminals,
               \/ StartMaster(t) \/ StartWorkers(t) \/ StartScheduler(t) \/ StartSchedulerAlone(t)
               \/ ReadSchedulerPid(t, "pstop") \/ ReadSchedulerPid(t, "scheduler")
        PROVE  Inv'
    BY <1>2, InvStartMaster, InvStartWorkers, InvStartScheduler, InvStartSchedulerAlone,
       InvReadSchedulerPid
  <1>3. ASSUME NEW t \in Terminals,
               \/ KillScheduler(t) \/ CheckSchedulerGone(t) \/ ReadMasterPid(t) \/ KillMaster(t)
               \/ RemoveMasterDir(t) \/ StopWorkers(t) \/ WorkersStopped(t)
        PROVE  Inv'
    BY <1>3, InvKillScheduler, InvCheckSchedulerGone, InvReadMasterPid, InvKillMaster,
       InvRemoveMasterDir, InvStopWorkers, InvWorkersStopped
  <1>4. ASSUME NEW sh \in shells,
               \/ Launch(sh) \/ WritePid(sh) \/ TimeOut(sh)
               \/ ReadWorkerPid(sh) \/ KillWorker(sh) \/ RemoveWorkerDir(sh)
        PROVE  Inv'
    BY <1>4, InvLaunch, InvWritePid, InvTimeOut, InvReadWorkerPid, InvKillWorker, InvRemoveWorkerDir
  <1>5. ASSUME NEW svc \in Service, NEW p \in Pid, Exit(svc, p) PROVE Inv'
    BY <1>5, InvExit
  <1> QED
    BY <1>1, <1>2, <1>3, <1>4, <1>5 DEF Next

-----------------------------------------------------------------------------
(***************************************************************************)
(* However often the scripts are run, whatever crashes and whatever shell  *)
(* pssh leaves behind: what each remote shell at work can rely on, for     *)
(* every service whose shells and files were not mixed up.                 *)
(***************************************************************************)
THEOREM ScriptsInvariant == ASSUME OneOperator PROVE Spec => []Inv
  <1>1. Init => Inv
    BY InvInit
  <1>2. Inv /\ [Next]_vars => Inv'
    BY InvNext
  <1> QED
    BY <1>1, <1>2, PTL DEF Spec

\* What the scripts, the shells, the processes and the pid files may hold.
THEOREM ScriptsTypeOK == ASSUME OneOperator PROVE Spec => []TypeOK
  <1>1. Inv => TypeOK
    BY DEF Inv
  <1> QED
    BY <1>1, ScriptsInvariant, PTL

(***************************************************************************)
(* There are never two masters, nor two workers on a host, that were not   *)
(* told to terminate, however often pstart is run (its test of the pid     *)
(* files, pstart.py:49 and 76), but for services that were mixed up.       *)
(***************************************************************************)
THEOREM ScriptsOnlyOneEach == ASSUME OneOperator PROVE Spec => []OnlyOneEach
  <1>1. Inv => OnlyOneEach
    <2> SUFFICES ASSUME Inv, NEW s \in Known PROVE Cardinality(running[s]) <= 1
      BY DEF OnlyOneEach
    <2>1. InHand(s)
      BY DEF Inv, AllInHand
    <2>2. \E q : running[s] \subseteq {q}
      <3>1. CASE \A sh \in shells : sh.svc # s
        BY <2>1, <3>1 DEF InHand, Only
      <3>2. CASE \E sh \in shells : sh.svc = s
        <4>1. PICK sh \in shells : sh.svc = s
          BY <3>2
        <4>2. sh.at \in Starts \cup Stops
          BY DEF Inv, TypeOK
        <4>3. Knows(sh, s)
          BY <2>1, <4>1 DEF InHand
        <4> QED
          BY <4>2, <4>3 DEF Knows, Only, Starts, Stops
      <3> QED
        BY <3>1, <3>2
    <2>3. PICK q : running[s] \subseteq {q}
      BY <2>2
    <2>4. Cardinality({q}) = 1 /\ IsFiniteSet({q})
      BY FS_Singleton
    <2> QED
      BY <2>3, <2>4, FS_Subset
  <1> QED
    BY <1>1, ScriptsInvariant, PTL

(***************************************************************************)
(* Every running master or worker is named by its pid file, or the shell   *)
(* that launched it is about to write it, but for services mixed up.       *)
(***************************************************************************)
THEOREM ScriptsPidFilesNameProcesses ==
  ASSUME OneOperator PROVE Spec => []PidFilesNameProcesses
  <1>1. Inv => PidFilesNameProcesses
    <2> SUFFICES ASSUME Inv, NEW s \in Known, NEW p \in running[s]
                 PROVE  \/ pidFile[s] = p
                        \/ \E sh \in shells : sh.svc = s /\ sh.at = "write_pid" /\ sh.pid = p
      BY DEF PidFilesNameProcesses
    <2>1. InHand(s)
      BY DEF Inv, AllInHand
    <2>2. CASE \A sh \in shells : sh.svc # s
      BY <2>1, <2>2 DEF InHand, Only
    <2>3. CASE \E sh \in shells : sh.svc = s
      <3>1. PICK sh \in shells : sh.svc = s
        BY <2>3
      <3>2. sh.at \in Starts \cup Stops
        BY DEF Inv, TypeOK
      <3>3. Knows(sh, s)
        BY <2>1, <3>1 DEF InHand
      <3> QED
        BY <3>1, <3>2, <3>3 DEF Knows, Only, Starts, Stops
    <2> QED
      BY <2>2, <2>3
  <1> QED
    BY <1>1, ScriptsInvariant, PTL

\* Which step of pstop is its last.
LEMMA PstopEnds ==
  ASSUME OneOperator, Inv, [Next]_vars, NEW t \in Terminals,
         term[t].script = "pstop", term[t].at # "idle", term'[t].at = "idle"
  PROVE  WorkersStopped(t)
  <1>1. t = operator /\ term[t] \in Place /\ TypeOK /\ me = term[t] /\ me' = term'[t]
    BY OperatorAt DEF Inv, me
  <1>2. ASSUME NEW label \in Label, Goto(t, label), label # "idle" PROVE FALSE
    BY <1>1, <1>2, OperatorGoes
  <1>3. term' # term
    OBVIOUS
  <1>4. me.at \notin {"start_workers", "start_scheduler"}
    BY <1>1 DEF Inv, ScriptsApart
  <1>5. \A sh \in shells : ~Launch(sh) /\ ~WritePid(sh) /\ ~TimeOut(sh) /\ ~ReadWorkerPid(sh)
                           /\ ~KillWorker(sh) /\ ~RemoveWorkerDir(sh)
    BY <1>3 DEF Launch, WritePid, TimeOut, ReadWorkerPid, KillWorker, RemoveWorkerDir
  <1>6. \A svc \in Service, p \in Pid : ~Exit(svc, p)
    BY <1>3 DEF Exit
  <1>7. /\ ~StartMaster(t) /\ ~StartSchedulerAlone(t)
        /\ ~ReadSchedulerPid(t, "pstop") /\ ~ReadSchedulerPid(t, "scheduler")
    BY DEF StartMaster, StartSchedulerAlone, ReadSchedulerPid, Run
  <1>8. ~StartWorkers(t) /\ ~StartScheduler(t)
    BY <1>1, <1>4 DEF StartWorkers, StartScheduler
  <1>9. ~KillScheduler(t) /\ ~KillMaster(t) /\ ~CheckSchedulerGone(t) /\ ~RemoveMasterDir(t)
        /\ ~StopWorkers(t)
    BY <1>2 DEF KillScheduler, KillMaster, CheckSchedulerGone, RemoveMasterDir, StopWorkers, Label
  <1>10. ~ReadMasterPid(t)
    <2>1. CASE pidFile["Master"] = 0
      BY <1>2, <2>1 DEF ReadMasterPid, Label
    <2>2. CASE pidFile["Master"] # 0
      BY <1>1, <2>2 DEF ReadMasterPid, TypeOK
    <2> QED
      BY <2>1, <2>2
  <1> QED
    BY <1>1, <1>3, <1>5, <1>6, <1>7, <1>8, <1>9, <1>10, OperatorAt DEF Next, vars

(***************************************************************************)
(* When pstop returns there is no master, no worker, and no pid file that  *)
(* would keep pstart from starting one (pstop.py), whatever crashed before,*)
(* but for the hosts that it gave up waiting for and services mixed up.    *)
(***************************************************************************)
THEOREM ScriptsStopCleansUp == ASSUME OneOperator PROVE Spec => StopCleansUp
  <1> DEFINE Returns(t) == term[t].script = "pstop" /\ term[t].at # "idle" /\ term'[t].at = "idle"
             Clean == \A s \in Known \ late : pidFile'[s] = 0 /\ running'[s] = {}
  <1>1. ASSUME Inv, [Next]_vars, NEW t \in Terminals, Returns(t) PROVE Clean
    <2>1. WorkersStopped(t)
      BY <1>1, PstopEnds
    <2>2. me.at = "wait_workers" /\ \A sh \in shells : ~sh.awaited
      BY <1>1, <2>1, NoneBeingStopped
    <2>3. UNCHANGED <<running, pidFile>>
      BY <2>1 DEF WorkersStopped
    <2>4. \A s \in Known \ late : Gone(s)
      BY <1>1, <2>2 DEF Inv, MasterStopped, WorkersInTurn, Over, BeingStopped, Known, Managed
    <2> QED
      BY <2>3, <2>4 DEF Gone
  <1>2. Inv /\ [Next]_vars =>
          [\A t \in Terminals : Returns(t) => Clean]_vars
    BY <1>1
  <1> QED
    BY <1>2, ScriptsInvariant, PTL DEF StopCleansUp, Spec
=============================================================================
