--------------------------- MODULE RecoveryWindow ---------------------------
(***************************************************************************)
(* The fixed recovery window of the production machine: the ledger and     *)
(* expiry timer that cloud/final_discovery_recovery_window.sh installs,    *)
(* the launches of cloud/launch_final_discovery.sh through its Scaleway    *)
(* adapter, the units that end the worker and power the machine off, and   *)
(* the provider.                                                           *)
(*                                                                         *)
(* Operators install the window and launch workers at the same time; they, *)
(* the machine and the provider's interface may fail; the clock runs on    *)
(* between any two steps.  A launch asks whether the power-off unit is     *)
(* active, whether a worker is, how much time remains, names itself by the *)
(* second, records its intent, asks for the time again, and has systemd    *)
(* create the worker under a fixed unit name.                              *)
(***************************************************************************)
EXTENDS Naturals

CONSTANTS
  Operator,    \* root shells on the machine
  Start,       \* window starts an operator may ask for
  Window,      \* length of the window
  Horizon,     \* bound on the clock
  None,        \* no file, no owner
  Torn,        \* a file whose writer died
  Unit,        \* the contents of the expiry service in the repository
  MaxFaults    \* bound on crashes, failed calls and power cycles

ASSUME WindowAssumption ==
  /\ Start \subseteq Nat /\ Window \in Nat \ {0} /\ Horizon \in Nat /\ MaxFaults \in Nat
  /\ Unit \notin Start /\ None \notin Start \cup Operator \cup {Unit, Torn}
  /\ Torn \notin Start \cup {Unit}

VARIABLES
  clock,
  file,      \* "ledger", "service" and "timer" on disk
  armed,     \* the timer is enabled
  due,       \* the timer has elapsed; the expiry service is about to run
  request,   \* the power-off unit is active, perhaps between retries
  power,     \* the instance as the provider sees it
  worker,    \* the transient unit
  intent,    \* launch intents: second -> operator
  pc, at, ask, secs, id,  \* locals of the operators
  faults

local == <<pc, at, ask, secs, id>>
machine == <<due, request, power, worker>>
disk == <<file, armed, intent>>
vars == <<clock, disk, machine, local, faults>>

File == {"ledger", "service", "timer"}
After == [f \in File |->
  CASE f = "ledger" -> "service" [] f = "service" -> "timer" [] OTHER -> "enable"]
Second == 0 .. Horizon
Step == {"idle", "write", "fill", "enable", "report", "admit", "inspect", "measure", "name",
         "intend", "remeasure", "create"}
NoWorker == [state |-> "none", id |-> 0, by |-> None, until |-> 0, made |-> 0]

\* The machine runs, and so may anything on it.
Up == power # "stopped"
Deadline == file["ledger"] + Window
Goto(o, step) == pc' = [pc EXCEPT ![o] = step]

\* The shell ends, and its variables with it.
Exit(o) ==
  /\ Goto(o, "idle")
  /\ at' = [at EXCEPT ![o] = "ledger"] /\ ask' = [ask EXCEPT ![o] = None]
  /\ secs' = [secs EXCEPT ![o] = 0] /\ id' = [id EXCEPT ![o] = 0]

\* Go on with the variables as they are.
Pass(o, step) == Goto(o, step) /\ UNCHANGED <<at, ask, secs, id>>
Fault == faults < MaxFaults /\ faults' = faults + 1

(***************************************************************************)
(* install                                                                 *)
(***************************************************************************)

\* What an operator wants in a file.
Wanted(o, f) == IF f = "service" THEN Unit ELSE ask[o]

\* record_for: a window cannot start in the future.
Install(o, s) ==
  /\ Up /\ pc[o] = "idle" /\ s <= clock
  /\ ask' = [ask EXCEPT ![o] = s]
  /\ at' = [at EXCEPT ![o] = "ledger"]
  /\ Goto(o, "write")
  /\ UNCHANGED <<clock, disk, machine, secs, id, faults>>

\* Go on with the next file, or with systemd.
Proceed(o) ==
  /\ IF at[o] = "timer" THEN Goto(o, "enable") /\ UNCHANGED at
     ELSE Goto(o, "write") /\ at' = [at EXCEPT ![o] = After[at[o]]]
  /\ UNCHANGED <<ask, secs, id>>

\* write_once: a file that is there must be the one wanted, whole ...
Create(o) ==
  /\ Up /\ pc[o] = "write"
  /\ \/ /\ file[at[o]] = Wanted(o, at[o])
        /\ Proceed(o) /\ UNCHANGED file
     \/ /\ file[at[o]] \notin {None, Wanted(o, at[o])}
        /\ Exit(o) /\ UNCHANGED file
     \/ /\ file[at[o]] = None
        /\ file' = [file EXCEPT ![at[o]] = Torn]
        /\ Pass(o, "fill")
  /\ UNCHANGED <<clock, armed, intent, machine, faults>>

\* ... and one that is not is created under its final name, then filled.
Fill(o) ==
  /\ Up /\ pc[o] = "fill"
  /\ file' = [file EXCEPT ![at[o]] = Wanted(o, at[o])]
  /\ Proceed(o)
  /\ UNCHANGED <<clock, armed, intent, machine, faults>>

\* systemctl enable --now: OnBootSec is long past, so the timer elapses.
Enable(o) ==
  /\ Up /\ pc[o] = "enable"
  /\ armed' = TRUE /\ due' = TRUE
  /\ Pass(o, "report")
  /\ UNCHANGED <<clock, file, intent, request, power, worker, faults>>

(***************************************************************************)
(* remaining                                                               *)
(***************************************************************************)

\* read_record and verify_armed
InForce ==
  /\ armed /\ file["ledger"] \in Start
  /\ file["timer"] = file["ledger"] /\ file["service"] = Unit

\* The seconds left are kept; past the deadline the caller only asks for the
\* machine to be powered off, and without a window in force for nothing.
Remaining(o, step) ==
  \/ /\ InForce /\ clock < Deadline
     /\ IF step = "idle" THEN Exit(o)
        ELSE /\ Goto(o, step) /\ secs' = [secs EXCEPT ![o] = Deadline - clock]
             /\ UNCHANGED <<at, ask, id>>
     /\ UNCHANGED request
  \/ /\ file["ledger"] \in Start /\ clock >= Deadline
     /\ Exit(o) /\ request' = TRUE
  \/ /\ ~InForce /\ (file["ledger"] \in Start => clock < Deadline)
     /\ Exit(o) /\ UNCHANGED request

Measure(o) ==
  /\ Up
  /\ \/ pc[o] = "report" /\ Remaining(o, "idle")
     \/ pc[o] = "admit" /\ Remaining(o, "inspect")
     \/ pc[o] = "measure" /\ Remaining(o, "name")
     \/ pc[o] = "remeasure" /\ Remaining(o, "create")
  /\ UNCHANGED <<clock, disk, due, power, worker, faults>>

(***************************************************************************)
(* A launch                                                                *)
(***************************************************************************)

\* The adapter refuses while the power-off unit is active.
Launch(o) ==
  /\ Up /\ pc[o] = "idle" /\ ~request
  /\ Pass(o, "admit")
  /\ UNCHANGED <<clock, disk, machine, faults>>

\* The launcher refuses while a worker runs, and clears a failed unit.
Inspect(o) ==
  /\ Up /\ pc[o] = "inspect"
  /\ \/ worker.state = "running" /\ Exit(o) /\ UNCHANGED worker
     \/ worker.state # "running" /\ Pass(o, "measure") /\ worker' = NoWorker
  /\ UNCHANGED <<clock, disk, due, request, power, faults>>

\* launch_id is the second; no file of that name may be there.
Name(o) ==
  /\ Up /\ pc[o] = "name"
  /\ \/ intent[clock] # None /\ Exit(o)
     \/ /\ intent[clock] = None
        /\ Goto(o, "intend") /\ id' = [id EXCEPT ![o] = clock]
        /\ UNCHANGED <<at, ask, secs>>
  /\ UNCHANGED <<clock, disk, machine, faults>>

\* Mutant: the intent of another launch is written over.
IntendReplacing(o) ==
  /\ Up /\ pc[o] = "intend"
  /\ Pass(o, "remeasure") /\ intent' = [intent EXCEPT ![id[o]] = o]
  /\ UNCHANGED <<clock, file, armed, machine, faults>>

\* Mutant: the time measured before the intent is still used after it.
IntendUnmeasured(o) ==
  /\ Up /\ pc[o] = "intend"
  /\ \/ intent[id[o]] # None /\ Exit(o) /\ UNCHANGED intent
     \/ intent[id[o]] = None /\ Pass(o, "create") /\ intent' = [intent EXCEPT ![id[o]] = o]
  /\ UNCHANGED <<clock, file, armed, machine, faults>>

\* The intent is created exclusively.
Intend(o) ==
  /\ Up /\ pc[o] = "intend"
  /\ \/ intent[id[o]] # None /\ Exit(o) /\ UNCHANGED intent
     \/ intent[id[o]] = None /\ Pass(o, "remeasure") /\ intent' = [intent EXCEPT ![id[o]] = o]
  /\ UNCHANGED <<clock, file, armed, machine, faults>>

\* systemd-run: a unit of that name, running or failed, makes it fail.
\* RuntimeMaxSec counts from now.
CreateWorker(o) ==
  /\ Up /\ pc[o] = "create"
  /\ \/ worker.state # "none" /\ UNCHANGED worker
     \/ /\ worker.state = "none"
        /\ worker' = [state |-> "running", id |-> id[o], by |-> o,
                      until |-> clock + secs[o], made |-> clock]
  /\ Exit(o)
  /\ UNCHANGED <<clock, disk, due, request, power, faults>>

(***************************************************************************)
(* The units                                                               *)
(***************************************************************************)

\* OnSuccess of the worker starts the power-off unit; Restart=no.
Succeed ==
  /\ Up /\ worker.state = "running"
  /\ worker' = NoWorker /\ request' = TRUE
  /\ UNCHANGED <<clock, disk, due, power, local, faults>>

\* A failed worker, or one past its RuntimeMaxSec, stays loaded as failed.
WorkerFails ==
  /\ Up /\ worker.state = "running"
  /\ \/ Fault
     \/ clock >= worker.until /\ UNCHANGED faults
  /\ worker' = [NoWorker EXCEPT !.state = "failed"]
  /\ UNCHANGED <<clock, disk, due, request, power, local>>

\* Mutant: any elapsed timer powers the machine off.
EnforceAlways ==
  /\ Up /\ due
  /\ request' = TRUE
  /\ due' = FALSE
  /\ UNCHANGED <<clock, disk, power, worker, local, faults>>

\* enforce_expiry
EnforceExpiry ==
  /\ Up /\ due /\ file["ledger"] \in Start
  /\ request' = (request \/ clock >= Deadline)
  /\ due' = FALSE
  /\ UNCHANGED <<clock, disk, power, worker, local, faults>>

\* The expiry service fails or is too slow: OnFailure powers the machine off.
EnforceFails ==
  /\ Up /\ due /\ Fault
  /\ request' = TRUE /\ due' = FALSE
  /\ UNCHANGED <<clock, disk, power, worker, local>>

\* scaleway_poweroff_guard.sh, at the start of the unit or a retry, where the
\* provider answers: a locked instance makes it fail and be retried.
PowerOff ==
  /\ Up /\ request /\ power # "locked"
  /\ power' = "stopping"
  /\ request' = FALSE
  /\ UNCHANGED <<clock, disk, due, worker, local, faults>>

(***************************************************************************)
(* Time, provider, faults                                                  *)
(***************************************************************************)

\* OnCalendar of the timer elapses on the second.
Tick ==
  /\ clock < Horizon
  /\ clock' = clock + 1
  /\ due' = (due \/ (Up /\ armed /\ clock' = file["timer"] + Window))
  /\ UNCHANGED <<disk, request, power, worker, local, faults>>

Lock ==
  /\ power = "running" /\ Fault
  /\ power' = "locked"
  /\ UNCHANGED <<clock, disk, due, request, worker, local>>

Unlock ==
  /\ power = "locked"
  /\ power' = "running"
  /\ UNCHANGED <<clock, disk, due, request, worker, local, faults>>

\* Whatever runs on the machine is gone.
Down ==
  /\ power' = "stopped" /\ due' = FALSE /\ request' = FALSE /\ worker' = NoWorker
  /\ pc' = [o \in Operator |-> "idle"] /\ at' = [o \in Operator |-> "ledger"]
  /\ ask' = [o \in Operator |-> None]
  /\ secs' = [o \in Operator |-> 0] /\ id' = [o \in Operator |-> 0]
  /\ UNCHANGED <<clock, disk>>

Stop == power = "stopping" /\ Down /\ UNCHANGED faults
Halt == power = "running" /\ Down /\ Fault

\* Mutant: the timer is not set to elapse at boot.
BootUnwatched ==
  /\ power = "stopped" /\ Fault
  /\ power' = "running"
  /\ UNCHANGED <<clock, disk, due, request, worker, local>>

\* The owner starts the instance again.  OnBootSec=15s of an enabled timer.
Boot ==
  /\ power = "stopped" /\ Fault
  /\ power' = "running" /\ due' = armed
  /\ UNCHANGED <<clock, disk, request, worker, local>>

\* A shell dies, or one of its commands fails.
Crash(o) ==
  /\ pc[o] # "idle" /\ Fault
  /\ Exit(o)
  /\ UNCHANGED <<clock, disk, machine>>

-----------------------------------------------------------------------------
Init ==
  /\ clock = 0
  /\ file = [f \in File |-> None] /\ armed = FALSE
  /\ due = FALSE /\ request = FALSE /\ power = "running" /\ worker = NoWorker
  /\ intent = [t \in Second |-> None]
  /\ pc = [o \in Operator |-> "idle"] /\ at = [o \in Operator |-> "ledger"]
  /\ ask = [o \in Operator |-> None]
  /\ secs = [o \in Operator |-> 0] /\ id = [o \in Operator |-> 0]
  /\ faults = 0

Shell(o) ==
  \/ \E s \in Start : Install(o, s)
  \/ Create(o) \/ Fill(o) \/ Enable(o) \/ Measure(o)
  \/ Launch(o) \/ Inspect(o) \/ Name(o) \/ Intend(o) \/ CreateWorker(o)
  \/ Crash(o)

Next ==
  \/ \E o \in Operator : Shell(o)
  \/ Succeed \/ WorkerFails \/ EnforceExpiry \/ EnforceFails \/ PowerOff
  \/ Tick \/ Lock \/ Unlock \/ Stop \/ Halt \/ Boot

Spec == Init /\ [][Next]_vars

\* systemd runs what is due and retries the power-off unit; the provider lifts
\* locks, answers in the end and carries out what it accepted.
FairSpec ==
  /\ Spec
  /\ WF_vars(EnforceExpiry) /\ WF_vars(PowerOff) /\ WF_vars(Unlock) /\ WF_vars(Stop)

-----------------------------------------------------------------------------
(***************************************************************************)
(* Properties                                                              *)
(***************************************************************************)

\* Shapes; nothing runs on a machine that is down.
TypeOK ==
  /\ clock \in Second /\ faults \in Nat
  /\ file["ledger"] \in Start \cup {None, Torn} /\ file["timer"] \in Start \cup {None, Torn}
  /\ file["service"] \in {None, Torn, Unit} /\ DOMAIN file = File
  /\ armed \in BOOLEAN /\ due \in BOOLEAN /\ request \in BOOLEAN
  /\ power \in {"running", "locked", "stopping", "stopped"}
  /\ worker \in [state : {"none", "running", "failed"}, id : Second,
                  by : Operator \cup {None}, until : Nat, made : Second]
  /\ intent \in [Second -> Operator \cup {None}]
  /\ pc \in [Operator -> Step] /\ at \in [Operator -> File]
  /\ ask \in [Operator -> Start \cup {None}]
  /\ secs \in [Operator -> Nat] /\ id \in [Operator -> Second]
  /\ ~Up => worker = NoWorker /\ ~request /\ ~due /\ \A o \in Operator : pc[o] = "idle"

\* "The start and deadline cannot be reset by retries": whoever installs again
\* with whatever start, and wherever an installation was cut off, a deadline
\* on disk stays, and the timer that is armed is the one of the ledger.
DeadlineFixed ==
  [][/\ \A f \in File : file[f] \notin {None, Torn} => file'[f] = file[f]
     /\ armed => armed'
     /\ armed' => file'["ledger"] \in Start /\ file'["timer"] = file'["ledger"]]_vars

\* A worker belongs to the operator whose intent it is given, also when two of
\* them launch in the same second.
IntentsAreOwn == worker.state = "running" => intent[worker.id] = worker.by

\* A worker runs only for the operator whose intent it is given and under a
\* timer armed for the deadline of the ledger, and its allowance ends at the
\* deadline, later at most by what passed since the launch named itself: no
\* preparation before that is added to the window.
WorkersAreSupervised ==
  /\ IntentsAreOwn
  /\ worker.state = "running" => InForce /\ worker.until <= Deadline + (worker.made - worker.id)

\* A worker that fails, a launch that is refused or cut off and a boot before
\* the deadline leave the machine on: it is powered off only for a worker that
\* succeeded, an expired window, or an expiry check that failed.
PoweroffIsDue ==
  [][(request' /\ ~request) =>
       \/ file["ledger"] \in Start /\ clock >= Deadline
       \/ worker.state = "running" /\ worker'.state = "none"
       \/ due /\ faults' > faults]_vars

\* Once the window is over, the machine goes down, and again after every boot.
ExpiryStopsMachine == [](InForce /\ clock >= Deadline => <>(power = "stopped"))
=============================================================================
