------------------------ MODULE RecoveryWindowProofs ------------------------
(***************************************************************************)
(* Proofs about RecoveryWindow, for any operators, starts, window, horizon *)
(* and number of faults.                                                   *)
(*                                                                         *)
(* An operator that has got past a file knows that it holds what the       *)
(* operator wants (Installing); a file that is being filled is torn and    *)
(* has one writer (Filling); so the timer is enabled by an operator whose  *)
(* start is in the ledger and in the timer (Armed).  The allowance of a    *)
(* launch was measured after it named itself and under a window in force   *)
(* (Allowed), and its intent stands (Intended).                            *)
(***************************************************************************)
EXTENDS RecoveryWindow, TLAPS

Installing(o) == pc[o] \in {"write", "fill", "enable"} =>
  /\ ask[o] \in Start
  /\ at[o] \in {"service", "timer"} => file["ledger"] = ask[o]
  /\ at[o] = "timer" => file["service"] = Unit
  /\ pc[o] = "enable" => at[o] = "timer" /\ file["timer"] = ask[o]

Filling(o) == pc[o] = "fill" =>
  /\ file[at[o]] = Torn
  /\ \A p \in Operator : (pc[p] = "fill" /\ p # o) => at[p] # at[o]

Armed == armed =>
  /\ file["ledger"] \in Start /\ file["timer"] = file["ledger"] /\ file["service"] = Unit

Allowed(o) ==
  /\ pc[o] \in {"intend", "remeasure", "create"} => id[o] <= clock
  /\ pc[o] = "create" => InForce /\ secs[o] <= Deadline - id[o]

Intended(o) == pc[o] \in {"remeasure", "create"} => intent[id[o]] = o

Installations == Armed /\ \A o \in Operator : Installing(o) /\ Filling(o)

\* A running worker is somebody's.
RunsFor == worker.state = "running" => worker.by \in Operator

Launches ==
  /\ \A o \in Operator : Allowed(o) /\ Intended(o)
  /\ RunsFor /\ WorkersAreSupervised /\ IntentsAreOwn

IInv == TypeOK /\ Installations /\ Launches

\* Starts, marks, names and the second are told apart.
LEMMA Marks ==
  /\ Start \subseteq Nat /\ Window \in Nat /\ Horizon \in Nat /\ MaxFaults \in Nat
  /\ None \notin Start /\ Torn \notin Start /\ Unit \notin Start
  /\ None # Torn /\ None # Unit /\ Torn # Unit /\ None \notin Operator
BY WindowAssumption

\* No unit, and a unit that failed.
WorkerType == [state : {"none", "running", "failed"}, id : Second,
               by : Operator \cup {None}, until : Nat, made : Second]

LEMMA WorkerTypes == /\ NoWorker \in WorkerType
                     /\ [NoWorker EXCEPT !.state = "failed"] \in WorkerType
BY Marks DEF WorkerType, NoWorker, Second

\* Names, the time and the deadline of a window in force are numbers.
LEMMA Numbers ==
  ASSUME TypeOK
  PROVE  /\ clock \in Nat /\ \A o \in Operator : id[o] \in Nat /\ secs[o] \in Nat
         /\ InForce => Deadline \in Nat
<1>1. Second \subseteq Nat
  BY Marks DEF Second
<1>2. clock \in Nat /\ \A o \in Operator : id[o] \in Nat /\ secs[o] \in Nat
  BY <1>1 DEF TypeOK
<1>3. ASSUME InForce PROVE Deadline \in Nat
  <2>1. file["ledger"] \in Nat
    BY <1>3, Marks DEF InForce
  <2>2. QED
    BY <2>1, Marks DEF Deadline
<1>4. QED
  BY <1>2, <1>3

\* The machine before anything is installed.
LEMMA InitInvariant == Init => IInv
<1> SUFFICES ASSUME Init PROVE IInv
  OBVIOUS
<1> USE Marks DEF Init
<1>1. TypeOK
  <2>1. worker \in WorkerType /\ 0 \in Second
    BY WorkerTypes DEF Second
  <2>2. QED
    BY <2>1 DEF TypeOK, WorkerType, File, Step, Up
<1>2. Installations
  BY DEF Installations, Armed, Installing, Filling
<1>3. Launches
  BY DEF Launches, Allowed, Intended, RunsFor, WorkersAreSupervised, IntentsAreOwn, NoWorker
<1>4. QED
  BY <1>1, <1>2, <1>3 DEF IInv

-----------------------------------------------------------------------------
(***************************************************************************)
(* Types                                                                   *)
(***************************************************************************)

\* The end of a shell and a step that keeps its variables have the types.
LEMMA ShellTypes ==
  ASSUME TypeOK, NEW o \in Operator,
         \/ Exit(o)
         \/ \E step \in Step : Pass(o, step)
  PROVE  /\ pc' \in [Operator -> Step] /\ at' \in [Operator -> File]
         /\ ask' \in [Operator -> Start \cup {None}]
         /\ secs' \in [Operator -> Nat] /\ id' \in [Operator -> Second]
<1>1. 0 \in Second /\ "idle" \in Step /\ "ledger" \in File
  BY Marks DEF Second, Step, File
<1>2. CASE Exit(o)
  BY <1>1, <1>2 DEF TypeOK, Exit, Goto
<1>3. ASSUME NEW step \in Step, Pass(o, step)
      PROVE  /\ pc' \in [Operator -> Step] /\ at' \in [Operator -> File]
             /\ ask' \in [Operator -> Start \cup {None}]
             /\ secs' \in [Operator -> Nat] /\ id' \in [Operator -> Second]
  BY <1>3 DEF TypeOK, Pass, Goto
<1>4. QED
  BY <1>2, <1>3

\* A file gets the value wanted, or is torn.
LEMMA FileTypes ==
  ASSUME TypeOK, NEW f \in File, NEW v,
         v = Torn \/ (f = "service" /\ v = Unit) \/ (f # "service" /\ v \in Start),
         file' = [file EXCEPT ![f] = v]
  PROVE  /\ file'["ledger"] \in Start \cup {None, Torn}
         /\ file'["timer"] \in Start \cup {None, Torn}
         /\ file'["service"] \in {None, Torn, Unit} /\ DOMAIN file' = File
BY DEF TypeOK, File

\* What goes on with an installation.
LEMMA ProceedTypes ==
  ASSUME TypeOK, NEW o \in Operator, Proceed(o)
  PROVE  /\ pc' \in [Operator -> Step] /\ at' \in [Operator -> File]
         /\ ask' = ask /\ secs' = secs /\ id' = id
<1>1. After[at[o]] \in Step \cup File /\ (at[o] # "timer" => After[at[o]] \in File)
  BY DEF TypeOK, After, File, Step
<1>2. QED
  BY <1>1 DEF TypeOK, Proceed, Goto, Step

\* Every step of a shell keeps the types.
LEMMA ShellTypeStep ==
  ASSUME IInv, NEW o \in Operator, Shell(o)
  PROVE  TypeOK'
<1> USE Marks DEF IInv
<1>1. ASSUME NEW s \in Start, Install(o, s) PROVE TypeOK'
  BY <1>1 DEF TypeOK, Install, Goto, disk, machine, Step, File, Up
<1>2. CASE Create(o)
  <2>1. at[o] \in File
    BY DEF TypeOK
  <2>2. CASE Proceed(o) /\ UNCHANGED file
    BY <1>2, <2>2, ProceedTypes DEF TypeOK, Create, machine, Up
  <2>3. CASE Exit(o) /\ UNCHANGED file
    BY <1>2, <2>3, ShellTypes DEF TypeOK, Create, machine, Up
  <2>4. CASE file' = [file EXCEPT ![at[o]] = Torn] /\ Pass(o, "fill")
    BY <1>2, <2>1, <2>4, ShellTypes, FileTypes DEF TypeOK, Create, machine, Up, Step
  <2>5. QED
    BY <1>2, <2>2, <2>3, <2>4 DEF Create
<1>3. CASE Fill(o)
  <2>1. ask[o] \in Start /\ at[o] \in File
    BY <1>3 DEF Fill, Installations, Installing, TypeOK
  <2>2. Wanted(o, at[o]) = Unit \/ Wanted(o, at[o]) \in Start
    BY <2>1 DEF Wanted
  <2>3. /\ file'["ledger"] \in Start \cup {None, Torn}
        /\ file'["timer"] \in Start \cup {None, Torn}
        /\ file'["service"] \in {None, Torn, Unit} /\ DOMAIN file' = File
    BY <1>3, <2>1, FileTypes DEF Fill, Wanted
  <2>4. QED
    BY <1>3, <2>3, ProceedTypes DEF TypeOK, Fill, machine, Up
<1>4. CASE Enable(o)
  BY <1>4, ShellTypes DEF TypeOK, Enable, Step, Up
<1>5. CASE Measure(o)
  <2>1. PICK step \in {"idle", "inspect", "name", "create"} : Remaining(o, step)
    BY <1>5 DEF Measure
  <2>2. InForce /\ clock < Deadline => Deadline - clock \in Nat
    <3>1. SUFFICES ASSUME InForce, clock < Deadline PROVE Deadline - clock \in Nat
      OBVIOUS
    <3>2. clock \in Nat /\ Deadline \in Nat
      BY <3>1, Numbers
    <3>3. QED
      BY <3>1, <3>2
  <2>3. /\ pc' \in [Operator -> Step] /\ at' \in [Operator -> File]
        /\ ask' \in [Operator -> Start \cup {None}]
        /\ secs' \in [Operator -> Nat] /\ id' \in [Operator -> Second]
        /\ request' \in BOOLEAN
    <3>1. CASE Exit(o)
      BY <2>1, <3>1, ShellTypes DEF Remaining, TypeOK
    <3>2. CASE ~Exit(o)
      BY <2>1, <2>2, <3>2 DEF Remaining, TypeOK, Goto, Step
    <3>3. QED
      BY <3>1, <3>2
  <2>4. QED
    BY <1>5, <2>3 DEF TypeOK, Measure, disk, Up
<1>6. CASE Launch(o)
  BY <1>6, ShellTypes DEF TypeOK, Launch, disk, machine, Up, Step
<1>7. CASE Inspect(o)
  BY <1>7, ShellTypes DEF TypeOK, Inspect, disk, Up, Step, NoWorker, Second
<1>8. CASE Name(o)
  <2>1. CASE Exit(o)
    BY <1>8, <2>1, ShellTypes DEF TypeOK, Name, disk, machine, Up
  <2>2. CASE ~Exit(o)
    <3>1. /\ pc' = [pc EXCEPT ![o] = "intend"] /\ id' = [id EXCEPT ![o] = clock]
          /\ UNCHANGED <<clock, disk, machine, at, ask, secs, faults>> /\ Up
      BY <1>8, <2>2 DEF Name, Goto
    <3>2. QED
      BY <3>1 DEF TypeOK, disk, machine, Up, Step
  <2>3. QED
    BY <2>1, <2>2
<1>9. CASE Intend(o)
  BY <1>9, ShellTypes DEF TypeOK, Intend, machine, Up, Step
<1>10. CASE CreateWorker(o)
  <2>1. /\ pc' \in [Operator -> Step] /\ at' \in [Operator -> File]
        /\ ask' \in [Operator -> Start \cup {None}]
        /\ secs' \in [Operator -> Nat] /\ id' \in [Operator -> Second]
    BY <1>10, ShellTypes DEF CreateWorker
  <2>2. worker' \in [state : {"none", "running", "failed"}, id : Second,
                     by : Operator \cup {None}, until : Nat, made : Second]
    BY <1>10 DEF CreateWorker, TypeOK, Second
  <2>3. QED
    BY <1>10, <2>1, <2>2 DEF CreateWorker, TypeOK, disk, Up
<1>11. CASE Crash(o)
  <2>1. ~Up => pc[o] = "idle"
    BY DEF TypeOK
  <2>2. Up /\ faults' \in Nat
    BY <1>11, <2>1 DEF Crash, Fault, TypeOK
  <2>3. QED
    BY <1>11, <2>2, ShellTypes DEF TypeOK, Crash, disk, machine, Up
<1>12. QED
  BY <1>1, <1>2, <1>3, <1>4, <1>5, <1>6, <1>7, <1>8, <1>9, <1>10, <1>11 DEF Shell

\* Every other step keeps them too.
LEMMA SystemTypeStep ==
  ASSUME TypeOK,
         \/ Succeed \/ WorkerFails \/ EnforceExpiry \/ EnforceFails \/ PowerOff
         \/ Tick \/ Lock \/ Unlock \/ Stop \/ Halt \/ Boot
  PROVE  TypeOK'
<1> USE DEF disk, local
<1>1. CASE Succeed
  BY <1>1, WorkerTypes DEF TypeOK, Succeed, WorkerType, Up
<1>2. CASE WorkerFails
  BY <1>2, WorkerTypes DEF TypeOK, WorkerFails, WorkerType, Fault, Up
<1>3. CASE EnforceExpiry
  <2>1. request' \in BOOLEAN
    BY <1>3 DEF EnforceExpiry, TypeOK
  <2>2. QED
    BY <1>3, <2>1 DEF TypeOK, EnforceExpiry, Up
<1>4. CASE EnforceFails
  <2>1. faults' \in Nat /\ Up
    BY <1>4 DEF EnforceFails, Fault, TypeOK
  <2>2. QED
    BY <1>4, <2>1 DEF TypeOK, EnforceFails, Up
<1>5. CASE PowerOff
  BY <1>5 DEF TypeOK, PowerOff, Up
<1>6. CASE Tick
  BY <1>6, Marks DEF TypeOK, Tick, Second, Up
<1>7. CASE Lock \/ Unlock \/ Boot
  BY <1>7 DEF TypeOK, Lock, Unlock, Boot, Fault, Up
<1>8. CASE Stop \/ Halt
  <2>1. Down /\ faults' \in Nat
    BY <1>8 DEF Stop, Halt, Fault, TypeOK
  <2>2. /\ pc' \in [Operator -> Step] /\ at' \in [Operator -> File]
        /\ ask' \in [Operator -> Start \cup {None}]
        /\ secs' \in [Operator -> Nat] /\ id' \in [Operator -> Second]
    BY <2>1, Marks DEF Down, Step, File, Second
  <2>3. QED
    BY <2>1, <2>2, WorkerTypes DEF TypeOK, Down, WorkerType, Up
<1>9. QED
  BY <1>1, <1>2, <1>3, <1>4, <1>5, <1>6, <1>7, <1>8
-----------------------------------------------------------------------------
(***************************************************************************)
(* Installations                                                           *)
(***************************************************************************)

\* A shell changes its own variables only.
LEMMA OneShell ==
  ASSUME TypeOK, NEW o \in Operator, Shell(o)
  PROVE  \A p \in Operator : p # o =>
           /\ pc'[p] = pc[p] /\ at'[p] = at[p] /\ ask'[p] = ask[p]
           /\ secs'[p] = secs[p] /\ id'[p] = id[p]
<1> USE DEF TypeOK, Exit, Pass, Goto
<1>1. CASE \E s \in Start : Install(o, s)
  BY <1>1 DEF Install
<1>2. CASE Create(o) \/ Fill(o)
  BY <1>2 DEF Create, Fill, Proceed
<1>3. CASE Enable(o) \/ Launch(o) \/ Inspect(o) \/ Intend(o) \/ CreateWorker(o) \/ Crash(o)
  BY <1>3 DEF Enable, Launch, Inspect, Intend, CreateWorker, Crash, disk, machine, local
<1>4. CASE Measure(o)
  BY <1>4 DEF Measure, Remaining
<1>5. CASE Name(o)
  BY <1>5 DEF Name
<1>6. QED
  BY <1>1, <1>2, <1>3, <1>4, <1>5 DEF Shell

\* Outside an installation a shell leaves the disk's files alone.
LEMMA OtherShell ==
  ASSUME TypeOK, NEW o \in Operator, Shell(o), ~Create(o), ~Fill(o)
  PROVE  file' = file
BY DEF Shell, Install, Enable, Measure, Launch, Inspect, Name, Intend, CreateWorker, Crash, disk

\* The others leave the disk alone, and the shells, unless the machine ends.
LEMMA SystemKeeps ==
  ASSUME \/ Succeed \/ WorkerFails \/ EnforceExpiry \/ EnforceFails \/ PowerOff
         \/ Tick \/ Lock \/ Unlock \/ Stop \/ Halt \/ Boot
  PROVE  /\ UNCHANGED disk
         /\ UNCHANGED local \/ \A o \in Operator : pc'[o] = "idle"
BY DEF Succeed, WorkerFails, EnforceExpiry, EnforceFails, PowerOff, Tick, Lock, Unlock, Stop,
       Halt, Boot, Down, disk, local

\* A file that holds something keeps it; a torn one is filled by its writer.
LEMMA FilesStay ==
  ASSUME IInv, NEW o \in Operator, Shell(o), NEW f \in File
  PROVE  /\ file[f] \notin {None, Torn} => file'[f] = file[f]
         /\ file[f] = Torn => file'[f] = Torn \/ (pc[o] = "fill" /\ at[o] = f)
<1>1. CASE Create(o)
  BY <1>1, Marks DEF Create, IInv, TypeOK
<1>2. CASE Fill(o)
  BY <1>2 DEF Fill, IInv, TypeOK, Installations, Filling
<1>3. QED
  BY <1>1, <1>2, OtherShell DEF IInv

\* What the others know of the files, they know after a step of a shell.
LEMMA OthersInstalling ==
  ASSUME IInv, NEW o \in Operator, Shell(o), NEW p \in Operator, p # o
  PROVE  Installing(p)'
<1>1. Installing(p)
  BY DEF IInv, Installations
<1>2. \A f \in File : file[f] \notin {None, Torn} => file'[f] = file[f]
  BY FilesStay
<1>3. QED
  BY <1>1, <1>2, OneShell, Marks DEF Installing, IInv, File

\* After one file comes the next, and after the last systemd.
LEMMA ProceedInstalling ==
  ASSUME IInv, NEW o \in Operator, Proceed(o), pc[o] \in {"write", "fill"},
         file'[at[o]] = Wanted(o, at[o]),
         \A f \in File : file[f] \notin {None, Torn} => file'[f] = file[f]
  PROVE  Installing(o)' /\ pc'[o] # "fill"
<1>1. Installing(o) /\ at[o] \in File /\ ask[o] \in Start
  BY DEF IInv, Installations, Installing, TypeOK
<1>2. ask'[o] = ask[o]
  BY DEF Proceed
<1>3. CASE at[o] = "timer"
  BY <1>1, <1>2, <1>3, Marks DEF Installing, Proceed, Goto, IInv, TypeOK, File, Wanted
<1>4. CASE at[o] = "ledger"
  BY <1>1, <1>2, <1>4, Marks DEF Installing, Proceed, Goto, IInv, TypeOK, File, Wanted, After
<1>5. CASE at[o] = "service"
  BY <1>1, <1>2, <1>5, Marks DEF Installing, Proceed, Goto, IInv, TypeOK, File, Wanted, After
<1>6. QED
  BY <1>1, <1>3, <1>4, <1>5 DEF File

\* A step of a shell keeps what installations rely on.
LEMMA ShellInstallStep ==
  ASSUME IInv, NEW o \in Operator, Shell(o)
  PROVE  Installations'
<1>1. \A f \in File : file[f] \notin {None, Torn} => file'[f] = file[f]
  BY FilesStay
<1>2. Armed'
  <2>1. CASE Enable(o)
    BY <2>1, Marks DEF Enable, Armed, IInv, Installations, Installing
  <2>2. CASE armed' = armed
    BY <1>1, <2>2, Marks DEF Armed, IInv, Installations, File
  <2>3. QED
    BY <2>1, <2>2 DEF Shell, Install, Create, Fill, Measure, Launch, Inspect, Name, Intend,
                      CreateWorker, Crash, disk
<1>3. Installing(o)' /\ (pc'[o] = "fill" =>
         /\ file'[at'[o]] = Torn
         /\ \A p \in Operator : (pc[p] = "fill" /\ p # o) => at[p] # at'[o])
  <2>1. ASSUME NEW s \in Start, Install(o, s)
        PROVE  Installing(o)' /\ pc'[o] = "write"
    BY <2>1 DEF Install, Goto, Installing, IInv, TypeOK
  <2>2. CASE Create(o)
    <3>1. CASE Proceed(o) /\ UNCHANGED file /\ file[at[o]] = Wanted(o, at[o])
      BY <1>1, <2>2, <3>1, ProceedInstalling DEF Create
    <3>2. CASE Exit(o)
      BY <3>2 DEF Exit, Goto, Installing, IInv, TypeOK
    <3>3. CASE /\ file[at[o]] = None /\ file' = [file EXCEPT ![at[o]] = Torn]
               /\ Pass(o, "fill")
      <4>1. pc'[o] = "fill" /\ at' = at /\ ask' = ask /\ file'[at[o]] = Torn
        BY <3>3 DEF Pass, Goto, IInv, TypeOK
      <4>2. \A p \in Operator : pc[p] = "fill" => at[p] # at[o]
        BY <3>3, Marks DEF IInv, Installations, Filling
      <4>3. Installing(o)'
        BY <1>1, <2>2, <4>1, Marks DEF Create, Installing, IInv, Installations, File
      <4>4. QED
        BY <4>1, <4>2, <4>3
    <3>4. QED
      BY <2>2, <3>1, <3>2, <3>3 DEF Create
  <2>3. CASE Fill(o)
    <3>1. file'[at[o]] = Wanted(o, at[o])
      BY <2>3 DEF Fill, IInv, TypeOK
    <3>2. QED
      BY <1>1, <2>3, <3>1, ProceedInstalling DEF Fill
  <2>4. CASE ~Create(o) /\ ~Fill(o) /\ \A s \in Start : ~Install(o, s)
    <3>1. pc'[o] \notin {"write", "fill", "enable"}
      BY <2>4 DEF Shell, Enable, Measure, Remaining, Launch, Inspect, Name, Intend, CreateWorker,
                  Crash, Exit, Pass, Goto, IInv, TypeOK
    <3>2. QED
      BY <3>1 DEF Installing
  <2>5. QED
    BY <2>1, <2>2, <2>3, <2>4
<1>4. ASSUME NEW p \in Operator, p # o PROVE Filling(p)'
  <2>1. SUFFICES ASSUME pc[p] = "fill" PROVE Filling(p)'
    BY <1>4, OneShell DEF Filling, IInv
  <2>2. /\ file[at[p]] = Torn /\ at[p] \in File
        /\ \A q \in Operator : (pc[q] = "fill" /\ q # p) => at[q] # at[p]
    BY <2>1 DEF IInv, Installations, Filling, TypeOK
  <2>3. file'[at[p]] = Torn
    BY <1>4, <2>2, FilesStay
  <2>4. \A q \in Operator : (pc'[q] = "fill" /\ q # p) => at'[q] # at'[p]
    BY <1>3, <1>4, <2>1, <2>2, OneShell DEF IInv
  <2>5. QED
    BY <1>4, <2>3, <2>4, OneShell DEF Filling, IInv
<1>5. Filling(o)'
  BY <1>3, OneShell DEF Filling, IInv
<1>6. QED
  BY <1>2, <1>3, <1>4, <1>5, OthersInstalling DEF Installations

\* So does every other step.
LEMMA SystemInstallStep ==
  ASSUME IInv, UNCHANGED disk, UNCHANGED local \/ \A o \in Operator : pc'[o] = "idle"
  PROVE  Installations'
BY DEF IInv, Installations, Armed, Installing, Filling, disk, local
-----------------------------------------------------------------------------
(***************************************************************************)
(* Launches                                                                *)
(***************************************************************************)

\* What a launch relies on stays: time, a window in force, and its intent.
LEMMA Reliable ==
  ASSUME IInv, NEW o \in Operator, Shell(o)
  PROVE  /\ clock' = clock
         /\ InForce => InForce' /\ Deadline' = Deadline
         /\ \A t \in Second : intent[t] # None => intent'[t] = intent[t]
<1>1. clock' = clock
  BY DEF Shell, Install, Create, Fill, Enable, Measure, Launch, Inspect, Name, Intend,
         CreateWorker, Crash
<1>2. armed => armed'
  BY DEF Shell, Install, Create, Fill, Enable, Measure, Launch, Inspect, Name, Intend,
         CreateWorker, Crash, disk
<1>3. \A f \in File : file[f] \notin {None, Torn} => file'[f] = file[f]
  BY FilesStay
<1>4. \A t \in Second : intent[t] # None => intent'[t] = intent[t]
  <2>1. CASE Intend(o)
    BY <2>1 DEF Intend, IInv, TypeOK
  <2>2. CASE ~Intend(o)
    BY <2>2 DEF Shell, Install, Create, Fill, Enable, Measure, Launch, Inspect, Name,
                CreateWorker, Crash, disk
  <2>3. QED
    BY <2>1, <2>2
<1>5. InForce => InForce' /\ Deadline' = Deadline
  BY <1>2, <1>3, Marks DEF InForce, Deadline, File
<1>6. QED
  BY <1>1, <1>4, <1>5

\* A launch that did not take the step relies on what it did.
LEMMA OthersLaunching ==
  ASSUME IInv, NEW o \in Operator, Shell(o), NEW p \in Operator, p # o
  PROVE  Allowed(p)' /\ Intended(p)'
<1>1. Allowed(p) /\ Intended(p) /\ id[p] \in Second /\ None \notin Operator
  BY Marks DEF IInv, Launches, TypeOK
<1>2. /\ pc'[p] = pc[p] /\ secs'[p] = secs[p] /\ id'[p] = id[p]
  BY OneShell DEF IInv
<1>3. Allowed(p)'
  BY <1>1, <1>2, Reliable DEF Allowed
<1>4. Intended(p)'
  BY <1>1, <1>2, Reliable DEF Intended
<1>5. QED
  BY <1>3, <1>4

\* A launch names itself by the second, records that, and asks for the time.
LEMMA OwnLaunching ==
  ASSUME IInv, NEW o \in Operator, Shell(o)
  PROVE  Allowed(o)' /\ Intended(o)'
<1> USE DEF IInv
<1>1. CASE Name(o)
  <2>1. CASE Exit(o)
    BY <2>1 DEF Exit, Goto, Allowed, Intended, TypeOK
  <2>2. CASE ~Exit(o)
    <3>1. pc'[o] = "intend" /\ id'[o] = clock /\ clock' = clock /\ clock \in Nat
      BY <1>1, <2>2, Marks DEF Name, Goto, TypeOK, Second
    <3>2. QED
      BY <3>1 DEF Allowed, Intended
  <2>3. QED
    BY <2>1, <2>2
<1>2. CASE Intend(o)
  <2>1. CASE Exit(o)
    BY <2>1 DEF Exit, Goto, Allowed, Intended, TypeOK
  <2>2. CASE ~Exit(o)
    <3>1. /\ pc[o] = "intend" /\ pc'[o] = "remeasure" /\ id' = id /\ clock' = clock
          /\ intent'[id[o]] = o
      BY <1>2, <2>2 DEF Intend, Pass, Goto, TypeOK
    <3>2. QED
      BY <3>1 DEF Allowed, Intended, Launches
  <2>3. QED
    BY <2>1, <2>2
<1>3. CASE Measure(o)
  <2>1. CASE Exit(o)
    BY <2>1 DEF Exit, Goto, Allowed, Intended, TypeOK
  <2>2. CASE ~Exit(o) /\ pc[o] = "remeasure"
    <3>1. /\ InForce /\ pc'[o] = "create" /\ secs'[o] = Deadline - clock
          /\ UNCHANGED <<id, disk, clock>>
      BY <1>3, <2>2 DEF Measure, Remaining, Goto, TypeOK
    <3>2. id[o] <= clock /\ intent[id[o]] = o
      BY <2>2 DEF Launches, Allowed, Intended
    <3>3. InForce' /\ Deadline' = Deadline /\ intent' = intent
      BY <3>1 DEF InForce, Deadline, disk
    <3>4. id[o] \in Nat /\ clock \in Nat /\ Deadline \in Nat
      BY <3>1, Numbers
    <3>5. Deadline - clock <= Deadline - id[o]
      BY <3>2, <3>4
    <3>6. QED
      BY <3>1, <3>2, <3>3, <3>5 DEF Allowed, Intended
  <2>3. CASE ~Exit(o) /\ pc[o] # "remeasure"
    BY <1>3, <2>3 DEF Measure, Remaining, Goto, Allowed, Intended, TypeOK
  <2>4. QED
    BY <2>2, <2>1, <2>3
<1>4. CASE ~Name(o) /\ ~Intend(o) /\ ~Measure(o)
  <2>1. pc'[o] \notin {"intend", "remeasure", "create"}
    <3>1. CASE Create(o) \/ Fill(o)
      BY <3>1 DEF Create, Fill, Proceed, Exit, Pass, Goto, TypeOK
    <3>2. CASE ~Create(o) /\ ~Fill(o)
      BY <1>4, <3>2 DEF Shell, Install, Enable, Launch, Inspect, CreateWorker, Crash, Exit, Pass,
                        Goto, TypeOK
    <3>3. QED
      BY <3>1, <3>2
  <2>2. QED
    BY <2>1 DEF Allowed, Intended
<1>5. QED
  BY <1>1, <1>2, <1>3, <1>4

\* The worker is created by a launch that is allowed and has its intent.
LEMMA ShellWorker ==
  ASSUME IInv, NEW o \in Operator, Shell(o)
  PROVE  RunsFor' /\ WorkersAreSupervised' /\ IntentsAreOwn'
<1>1. CASE UNCHANGED worker
  <2>1. SUFFICES ASSUME worker.state = "running"
                 PROVE  RunsFor' /\ WorkersAreSupervised' /\ IntentsAreOwn'
    BY <1>1 DEF WorkersAreSupervised, IntentsAreOwn, RunsFor
  <2>2. /\ InForce /\ worker.until <= Deadline + (worker.made - worker.id)
        /\ intent[worker.id] = worker.by
    BY <2>1 DEF IInv, Launches, WorkersAreSupervised, IntentsAreOwn
  <2>3. intent[worker.id] # None => intent'[worker.id] = intent[worker.id]
    BY Reliable DEF IInv, TypeOK
  <2>4. worker.by # None /\ worker.by \in Operator
    BY <2>1, Marks DEF IInv, Launches, RunsFor
  <2>5. QED
    BY <1>1, <2>2, <2>3, <2>4, Reliable
       DEF WorkersAreSupervised, IntentsAreOwn, RunsFor
<1>2. CASE worker' = NoWorker
  BY <1>2 DEF WorkersAreSupervised, IntentsAreOwn, RunsFor, NoWorker
<1>3. CASE CreateWorker(o) /\ worker' # worker
  <2>1. /\ pc[o] = "create" /\ UNCHANGED <<clock, disk>>
        /\ worker' = [state |-> "running", id |-> id[o], by |-> o,
                      until |-> clock + secs[o], made |-> clock]
    BY <1>3 DEF CreateWorker
  <2>2. /\ InForce /\ secs[o] <= Deadline - id[o] /\ intent[id[o]] = o
    BY <2>1 DEF IInv, Launches, Allowed, Intended
  <2>3. id[o] \in Nat /\ clock \in Nat /\ Deadline \in Nat /\ secs[o] \in Nat
    BY <2>2, Numbers DEF IInv
  <2>4. clock + secs[o] <= Deadline + (clock - id[o])
    BY <2>2, <2>3
  <2>5. InForce' /\ Deadline' = Deadline /\ intent' = intent
    BY <2>1, <2>2 DEF InForce, Deadline, disk
  <2>6. QED
    BY <2>1, <2>2, <2>4, <2>5 DEF WorkersAreSupervised, IntentsAreOwn, RunsFor
<1>4. QED
  BY <1>1, <1>2, <1>3 DEF Shell, Install, Create, Fill, Enable, Measure, Launch, Inspect, Name,
                          Intend, CreateWorker, Crash, machine

\* The other steps: a worker ends, or nothing but the time changes.
LEMMA SystemLaunchStep ==
  ASSUME IInv,
         \/ Succeed \/ WorkerFails \/ EnforceExpiry \/ EnforceFails \/ PowerOff
         \/ Tick \/ Lock \/ Unlock \/ Stop \/ Halt \/ Boot
  PROVE  Launches'
<1>1. UNCHANGED disk /\ (UNCHANGED local \/ \A o \in Operator : pc'[o] = "idle")
  BY SystemKeeps
<1>2. InForce' = InForce /\ Deadline' = Deadline /\ intent' = intent
  BY <1>1 DEF InForce, Deadline, disk
<1>3. clock \in Nat /\ (clock' = clock \/ clock' = clock + 1)
  BY Marks DEF IInv, TypeOK, Second, Succeed, WorkerFails, EnforceExpiry, EnforceFails, PowerOff,
               Tick, Lock, Unlock, Stop, Halt, Boot, Down
<1>4. worker' = worker \/ worker'.state # "running"
  BY DEF Succeed, WorkerFails, EnforceExpiry, EnforceFails, PowerOff, Tick, Lock, Unlock, Stop,
         Halt, Boot, Down, NoWorker, machine
<1>5. RunsFor' /\ WorkersAreSupervised' /\ IntentsAreOwn'
  BY <1>2, <1>4 DEF IInv, Launches, WorkersAreSupervised, IntentsAreOwn, RunsFor
<1>6. ASSUME NEW o \in Operator PROVE Allowed(o)' /\ Intended(o)'
  <2>1. id[o] \in Nat
    BY Marks DEF IInv, TypeOK, Second
  <2>2. QED
    BY <1>1, <1>2, <1>3, <2>1 DEF IInv, Launches, Allowed, Intended, local
<1>7. QED
  BY <1>5, <1>6 DEF Launches

-----------------------------------------------------------------------------
(***************************************************************************)
(* The inductive invariant and the theorems                                *)
(***************************************************************************)

LEMMA StepInvariant == IInv /\ [Next]_vars => IInv'
<1> SUFFICES ASSUME IInv, [Next]_vars PROVE IInv'
  OBVIOUS
<1>1. ASSUME NEW o \in Operator, Shell(o) PROVE IInv'
  BY <1>1, ShellTypeStep, ShellInstallStep, OwnLaunching, OthersLaunching, ShellWorker
     DEF IInv, Launches
<1>2. CASE \/ Succeed \/ WorkerFails \/ EnforceExpiry \/ EnforceFails \/ PowerOff
           \/ Tick \/ Lock \/ Unlock \/ Stop \/ Halt \/ Boot
  BY <1>2, SystemTypeStep, SystemKeeps, SystemInstallStep, SystemLaunchStep DEF IInv
<1>3. CASE UNCHANGED vars
  <2>1. UNCHANGED <<clock, file, armed, intent, due, request, power, worker, pc, at, ask, secs,
                    id, faults>>
    BY <1>3 DEF vars, disk, machine, local
  <2>2. TypeOK'
    BY <2>1 DEF IInv, TypeOK, Up
  <2>3. Installations'
    BY <2>1 DEF IInv, Installations, Armed, Installing, Filling
  <2>4. Launches'
    BY <2>1 DEF IInv, Launches, Allowed, Intended, RunsFor, WorkersAreSupervised, IntentsAreOwn,
                InForce, Deadline
  <2>5. QED
    BY <2>2, <2>3, <2>4 DEF IInv
<1>4. QED
  BY <1>1, <1>2, <1>3 DEF Next

LEMMA Invariance == Spec => []IInv
BY InitInvariant, StepInvariant, PTL DEF Spec

\* The variables of the window keep their shapes, and nothing runs on a
\* machine that is down.
THEOREM WindowTypeOK == Spec => []TypeOK
<1>1. IInv => TypeOK
  BY DEF IInv
<1>2. QED
  BY <1>1, Invariance, PTL

\* Every worker that final_discovery_recovery_window.sh lets
\* launch_final_discovery.sh create is under the armed timer and gets no
\* preparation time on top of the window.
THEOREM WindowWorkersAreSupervised == Spec => []WorkersAreSupervised
<1>1. IInv => WorkersAreSupervised
  BY DEF IInv, Launches
<1>2. QED
  BY <1>1, Invariance, PTL

\* The intent a worker is given is the one its launcher recorded.
THEOREM WindowIntentsAreOwn == Spec => []IntentsAreOwn
<1>1. IInv => IntentsAreOwn
  BY DEF IInv, Launches
<1>2. QED
  BY <1>1, Invariance, PTL

\* No sequence of installations, whole or cut off, moves a deadline.
THEOREM WindowDeadlineFixed == Spec => DeadlineFixed
<1> DEFINE Fixed == /\ \A f \in File : file[f] \notin {None, Torn} => file'[f] = file[f]
                    /\ armed => armed'
                    /\ armed' => file'["ledger"] \in Start /\ file'["timer"] = file'["ledger"]
<1>1. IInv /\ [Next]_vars => [Fixed]_vars
  <2> SUFFICES ASSUME IInv, Next PROVE Fixed
    OBVIOUS
  <2>1. Armed'
    BY StepInvariant DEF IInv, Installations
  <2>2. ASSUME NEW o \in Operator, Shell(o)
        PROVE  /\ \A f \in File : file[f] \notin {None, Torn} => file'[f] = file[f]
               /\ armed => armed'
    <3>1. armed => armed'
      BY <2>2 DEF Shell, Install, Create, Fill, Enable, Measure, Launch, Inspect, Name, Intend,
                  CreateWorker, Crash, disk
    <3>2. QED
      BY <2>2, <3>1, FilesStay
  <2>3. CASE \A o \in Operator : ~Shell(o)
    <3>1. UNCHANGED <<file, armed>>
      BY <2>3, SystemKeeps DEF Next, disk
    <3>2. QED
      BY <2>1, <3>1 DEF Armed
  <2>4. QED
    BY <2>1, <2>2, <2>3 DEF Armed
<1>2. QED
  BY <1>1, Invariance, PTL DEF Spec, DeadlineFixed

\* Nothing but a success, an expired window or a failed expiry check asks for
\* the machine to be powered off.
THEOREM WindowPoweroffIsDue == Spec => PoweroffIsDue
<1> DEFINE Due == (request' /\ ~request) =>
                    \/ file["ledger"] \in Start /\ clock >= Deadline
                    \/ worker.state = "running" /\ worker'.state = "none"
                    \/ due /\ faults' > faults
<1>1. IInv /\ [Next]_vars => [Due]_vars
  <2> SUFFICES ASSUME IInv, Next, request', ~request PROVE Due
    OBVIOUS
  <2>1. ASSUME NEW o \in Operator, Shell(o) PROVE Due
    <3>1. CASE Measure(o)
      BY <3>1 DEF Measure, Remaining
    <3>2. CASE ~Measure(o)
      BY <2>1, <3>2 DEF Shell, Install, Create, Fill, Enable, Launch, Inspect, Name, Intend,
                        CreateWorker, Crash, machine
    <3>3. QED
      BY <3>1, <3>2
  <2>2. CASE Succeed
    BY <2>2 DEF Succeed, NoWorker
  <2>3. CASE EnforceExpiry
    BY <2>3 DEF EnforceExpiry
  <2>4. CASE EnforceFails
    BY <2>4 DEF EnforceFails, Fault, IInv, TypeOK
  <2>5. CASE WorkerFails \/ PowerOff \/ Tick \/ Lock \/ Unlock \/ Stop \/ Halt \/ Boot
    BY <2>5 DEF WorkerFails, PowerOff, Tick, Lock, Unlock, Stop, Halt, Boot, Down
  <2>6. QED
    BY <2>1, <2>2, <2>3, <2>4, <2>5 DEF Next
<1>2. QED
  BY <1>1, Invariance, PTL DEF Spec, PoweroffIsDue
=============================================================================
