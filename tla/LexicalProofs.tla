--------------------------- MODULE LexicalProofs ---------------------------
(***************************************************************************)
(* The theorems of LexicalPromotion and LexicalResume, whose names do not  *)
(* overlap and whose variables are their own.                              *)
(*                                                                         *)
(* The promotion, for any runs and any number of faults and commands: the  *)
(* inductive invariant IInv says where the tree of a journal is, that what *)
(* recovery would leave is what the database was committed for, and that a *)
(* commit without a journal has been sealed.                               *)
(*                                                                         *)
(* The build, for any editions, tables of any number of leaves, and any    *)
(* number of interrupts: RInv says which tables are full at each step,     *)
(* that the aggregates a worker holds go with the rankings that stand      *)
(* (part by part while they are made), and that the leaves it made from    *)
(* them say so.                                                            *)
(***************************************************************************)
EXTENDS LexicalPromotion, LexicalResume, TLAPS

\* The process knows its run while it works for one.
ProcessNamed ==
  /\ pc \in Building => run \in Run /\ dir \in Run
  /\ pc \in {"recover", "returned"} /\ caller \in {"launch", "handler", "seal"}
       => run \in Run /\ dir \in Run

\* An execution that has not begun has left nothing behind.
Fresh ==
  /\ \A r \in Run : status[r] = "none" => staging[r] = Absent /\ backup[r] = None
  /\ journal # None => status[journal.run] # "none" /\ status[journal.dir] # "none"

\* What a run has done when it comes to a step.
Launching ==
  pc \in {"recover", "returned"} /\ caller = "launch" =>
    /\ status[run] = "none"
    /\ ~active => journal = None
    /\ pc = "returned" /\ result \in {"no_journal", "staging_restored"} => journal = None

Filling ==
  /\ pc \in Building => status[run] = "running"
  /\ pc \in {"open", "build", "journal"} => journal = None
  /\ pc \in {"open", "build", "journal", "aside"} => backup[run] = None
  /\ pc = "open" /\ dir = run => staging[dir] = Absent
  /\ pc = "build" => staging[dir] = Open
  /\ pc \in {"journal", "aside", "in"} => staging[dir] = run

Promoting ==
  /\ pc \in {"aside", "in", "bind", "expose", "succeed"} =>
       journal = [run |-> run, dir |-> dir]
  /\ pc = "in" => output = None
  /\ pc \in {"bind", "expose", "succeed"} => staging[dir] = Absent
  /\ pc \in {"aside", "in", "bind", "expose"} => ~Committed
  /\ pc \in {"expose", "succeed"} => run \in bound
  /\ pc = "succeed" => Committed

Witnessing ==
  \/ pc = "amend"
  \/ pc = "returned" /\ caller = "finalization" /\ result = "canonical_committed"

Amending == Witnessing => journal # None \/ marker # None

\* The tree of the journal is staged or canonical, and never both sides are.
Located ==
  journal # None =>
    /\ Staged => staging[journal.dir] = journal.run /\ (output = None \/ ~Aside) /\ ~Committed
    /\ ~Staged => output = journal.run

\* What recovery would leave in the canonical directory is what the views are of.
Exposed ==
  /\ marker # None => marker.tree = marker.promotion
  /\ Resolved = IF marker = None THEN None ELSE marker.tree

\* A commit whose journal is gone has been sealed, and only such trees are
\* ever moved aside.
Archived ==
  /\ \A r \in sealed : status[r] = "succeeded"
  /\ marker # None => marker.promotion \in sealed \/ (journal # None /\ Committed)
  /\ \A r \in Run : backup[r] \in sealed \cup {None}

IInv ==
  /\ TypeOK /\ ProcessNamed /\ Fresh /\ Launching /\ Filling /\ Promoting /\ Amending
  /\ Located /\ Exposed /\ Archived

-----------------------------------------------------------------------------
(***************************************************************************)
(* Every step keeps each part of the invariant.                            *)
(***************************************************************************)

\* Every step keeps the shapes.
LEMMA TypeOKStep == IInv /\ [Next]_vars => TypeOK'
<1> SUFFICES ASSUME IInv, [Next]_vars PROVE TypeOK'
  OBVIOUS
<1> USE PromotionAssumption
    DEF IInv, Maybe, Goto, Recover, Answer, Exit, NoFault, Fault, trees, records, process,
    Step, Building, Caller, Sealing, Result, Absent, Open, Journal, Marker,
    TypeOK, ProcessNamed, Promoting, Amending, Witnessing, Witness, Located, Launching
<1>1. CASE Unjournaled \/ Keep
  BY <1>1 DEF Unjournaled, Keep
<1>2. CASE Retreat
  BY <1>2 DEF Retreat
<1>3. CASE Restore
  BY <1>3 DEF Restore
<1>4. CASE Restored \/ Seal
  BY <1>4 DEF Restored, Seal
<1>5. ASSUME NEW r \in Run, NEW d \in Run, NEW f \in BOOLEAN, Launch(r, d, f) PROVE TypeOK'
  BY <1>5 DEF Launch
<1>6. CASE Proceed
  <2>1. status' \in [Run -> {"none", "running", "failed", "succeeded"}]
    BY <1>6 DEF Proceed
  <2>2. pc' \in Step /\ run' \in Maybe(Run) /\ dir' \in Maybe(Run)
    BY <1>6 DEF Proceed
  <2>3. /\ caller' \in Caller /\ result' \in Result /\ force' \in BOOLEAN /\ active' \in BOOLEAN
        /\ pc' = "idle" => run' = None
        /\ pc' \in Building => run' # None /\ dir' # None
    BY <1>6 DEF Proceed
  <2>4. QED
    BY <1>6, <2>1, <2>2, <2>3 DEF Proceed
<1>7. CASE OpenWriter \/ Finalize
  BY <1>7 DEF OpenWriter, Finalize
<1>8. CASE WriteJournal
  BY <1>8 DEF WriteJournal
<1>9. CASE MoveAside
  BY <1>9 DEF MoveAside
<1>10. CASE MoveIn
  BY <1>10 DEF MoveIn
<1>11. CASE MoveInFails
  BY <1>11 DEF MoveInFails
<1>12. CASE BindOutputs
  BY <1>12 DEF BindOutputs
<1>13. CASE Expose
  BY <1>13 DEF Expose
<1>14. CASE Succeed
  BY <1>14 DEF Succeed
<1>15. CASE SealReturns
  BY <1>15 DEF SealReturns
<1>16. CASE Fail
  BY <1>16 DEF Fail
<1>17. CASE Handled
  BY <1>17 DEF Handled
<1>18. ASSUME NEW c \in Caller, Command(c) PROVE TypeOK'
  BY <1>18 DEF Command
<1>19. CASE CommandReturns \/ Amend
  <2>1. CASE CommandReturns
    BY <2>1 DEF CommandReturns
  <2>2. CASE Amend
    BY <2>2 DEF Amend
  <2>3. QED
    BY <1>19, <2>1, <2>2
<1>20. CASE Kill \/ Reboot
  <2>1. /\ pc' \in Step /\ caller' \in Caller /\ result' \in Result
        /\ run' \in Maybe(Run) /\ dir' \in Maybe(Run)
        /\ force' \in BOOLEAN /\ active' \in BOOLEAN
    BY <1>20 DEF Kill, Reboot
  <2>2. (pc' = "idle" => run' = None) /\ pc' \notin Building
    BY <1>20 DEF Kill, Reboot
  <2>3. faults' \in Nat
    BY <1>20 DEF Kill, Reboot
  <2>4. QED
    BY <1>20, <2>1, <2>2, <2>3 DEF Kill, Reboot
<1>21. CASE UNCHANGED vars
  BY <1>21 DEF vars
<1>. QED
  BY <1>1, <1>2, <1>3, <1>4, <1>5, <1>6, <1>7, <1>8, <1>9, <1>10, <1>11, <1>12, <1>13,
     <1>14, <1>15, <1>16, <1>17, <1>18, <1>19, <1>20, <1>21 DEF Next, Work, Recovery

\* A process has its run from its launch to its end.
LEMMA ProcessNamedStep == IInv /\ [Next]_vars => ProcessNamed'
<1> SUFFICES ASSUME IInv, [Next]_vars PROVE ProcessNamed'
  OBVIOUS
<1> USE PromotionAssumption
    DEF IInv, Maybe, Goto, Recover, Answer, Exit, NoFault, Fault, trees, records, process,
    Step, Building, Caller, Sealing, Result, Absent, Open, Journal, Marker,
    ProcessNamed, TypeOK
<1>1. CASE Unjournaled \/ Keep
  BY <1>1 DEF Unjournaled, Keep
<1>2. CASE Retreat
  BY <1>2 DEF Retreat
<1>3. CASE Restore
  BY <1>3 DEF Restore
<1>4. CASE Restored \/ Seal
  BY <1>4 DEF Restored, Seal
<1>5. ASSUME NEW r \in Run, NEW d \in Run, NEW f \in BOOLEAN, Launch(r, d, f) PROVE ProcessNamed'
  BY <1>5 DEF Launch
<1>6. CASE Proceed
  BY <1>6 DEF Proceed
<1>7. CASE OpenWriter \/ Finalize
  BY <1>7 DEF OpenWriter, Finalize
<1>8. CASE WriteJournal
  BY <1>8 DEF WriteJournal
<1>9. CASE MoveAside
  BY <1>9 DEF MoveAside
<1>10. CASE MoveIn
  BY <1>10 DEF MoveIn
<1>11. CASE MoveInFails
  BY <1>11 DEF MoveInFails
<1>12. CASE BindOutputs
  BY <1>12 DEF BindOutputs
<1>13. CASE Expose
  BY <1>13 DEF Expose
<1>14. CASE Succeed
  BY <1>14 DEF Succeed
<1>15. CASE SealReturns
  BY <1>15 DEF SealReturns
<1>16. CASE Fail
  BY <1>16 DEF Fail
<1>17. CASE Handled
  BY <1>17 DEF Handled
<1>18. ASSUME NEW c \in Caller, Command(c) PROVE ProcessNamed'
  BY <1>18 DEF Command
<1>19. CASE CommandReturns \/ Amend
  BY <1>19 DEF CommandReturns, Amend
<1>20. CASE Kill \/ Reboot
  BY <1>20 DEF Kill, Reboot
<1>21. CASE UNCHANGED vars
  BY <1>21 DEF vars
<1>. QED
  BY <1>1, <1>2, <1>3, <1>4, <1>5, <1>6, <1>7, <1>8, <1>9, <1>10, <1>11, <1>12, <1>13,
     <1>14, <1>15, <1>16, <1>17, <1>18, <1>19, <1>20, <1>21 DEF Next, Work, Recovery

\* Only executions that have begun leave anything behind.
LEMMA FreshStep == IInv /\ [Next]_vars => Fresh'
<1> SUFFICES ASSUME IInv, [Next]_vars PROVE Fresh'
  OBVIOUS
<1> USE PromotionAssumption
    DEF IInv, Maybe, Goto, Recover, Answer, Exit, NoFault, Fault, trees, records, process,
    Step, Building, Caller, Sealing, Result, Absent, Open, Journal, Marker,
    Fresh, TypeOK, ProcessNamed, Launching, Filling, Promoting, Located, Staged, Aside,
    Fillable
<1>1. CASE Unjournaled \/ Keep
  BY <1>1 DEF Unjournaled, Keep
<1>2. CASE Retreat
  BY <1>2 DEF Retreat
<1>3. CASE Restore
  BY <1>3 DEF Restore
<1>4. CASE Restored \/ Seal
  BY <1>4 DEF Restored, Seal
<1>5. ASSUME NEW r \in Run, NEW d \in Run, NEW f \in BOOLEAN, Launch(r, d, f) PROVE Fresh'
  BY <1>5 DEF Launch
<1>6. CASE Proceed
  BY <1>6 DEF Proceed
<1>7. CASE OpenWriter \/ Finalize
  BY <1>7 DEF OpenWriter, Finalize
<1>8. CASE WriteJournal
  BY <1>8 DEF WriteJournal
<1>9. CASE MoveAside
  BY <1>9 DEF MoveAside
<1>10. CASE MoveIn
  BY <1>10 DEF MoveIn
<1>11. CASE MoveInFails
  BY <1>11 DEF MoveInFails
<1>12. CASE BindOutputs
  BY <1>12 DEF BindOutputs
<1>13. CASE Expose
  BY <1>13 DEF Expose
<1>14. CASE Succeed
  BY <1>14 DEF Succeed
<1>15. CASE SealReturns
  BY <1>15 DEF SealReturns
<1>16. CASE Fail
  BY <1>16 DEF Fail
<1>17. CASE Handled
  BY <1>17 DEF Handled
<1>18. ASSUME NEW c \in Caller, Command(c) PROVE Fresh'
  BY <1>18 DEF Command
<1>19. CASE CommandReturns \/ Amend
  BY <1>19 DEF CommandReturns, Amend
<1>20. CASE Kill \/ Reboot
  BY <1>20 DEF Kill, Reboot
<1>21. CASE UNCHANGED vars
  BY <1>21 DEF vars
<1>. QED
  BY <1>1, <1>2, <1>3, <1>4, <1>5, <1>6, <1>7, <1>8, <1>9, <1>10, <1>11, <1>12, <1>13,
     <1>14, <1>15, <1>16, <1>17, <1>18, <1>19, <1>20, <1>21 DEF Next, Work, Recovery

\* A launch goes on only without a journal, whatever recovery found.
LEMMA LaunchingStep == IInv /\ [Next]_vars => Launching'
<1> SUFFICES ASSUME IInv, [Next]_vars PROVE Launching'
  OBVIOUS
<1> USE PromotionAssumption
    DEF IInv, Maybe, Goto, Recover, Answer, Exit, NoFault, Fault, trees, records, process,
    Step, Building, Caller, Sealing, Result, Absent, Open, Journal, Marker,
    Launching, TypeOK, ProcessNamed, Filling, Fresh, Promoting
<1>1. CASE Unjournaled \/ Keep
  BY <1>1 DEF Unjournaled, Keep
<1>2. CASE Retreat
  BY <1>2 DEF Retreat
<1>3. CASE Restore
  BY <1>3 DEF Restore
<1>4. CASE Restored \/ Seal
  BY <1>4 DEF Restored, Seal
<1>5. ASSUME NEW r \in Run, NEW d \in Run, NEW f \in BOOLEAN, Launch(r, d, f) PROVE Launching'
  BY <1>5 DEF Launch
<1>6. CASE Proceed
  BY <1>6 DEF Proceed
<1>7. CASE OpenWriter \/ Finalize
  BY <1>7 DEF OpenWriter, Finalize
<1>8. CASE WriteJournal
  BY <1>8 DEF WriteJournal
<1>9. CASE MoveAside
  BY <1>9 DEF MoveAside
<1>10. CASE MoveIn
  BY <1>10 DEF MoveIn
<1>11. CASE MoveInFails
  BY <1>11 DEF MoveInFails
<1>12. CASE BindOutputs
  BY <1>12 DEF BindOutputs
<1>13. CASE Expose
  BY <1>13 DEF Expose
<1>14. CASE Succeed
  BY <1>14 DEF Succeed
<1>15. CASE SealReturns
  BY <1>15 DEF SealReturns
<1>16. CASE Fail
  BY <1>16 DEF Fail
<1>17. CASE Handled
  BY <1>17 DEF Handled
<1>18. ASSUME NEW c \in Caller, Command(c) PROVE Launching'
  BY <1>18 DEF Command
<1>19. CASE CommandReturns \/ Amend
  BY <1>19 DEF CommandReturns, Amend
<1>20. CASE Kill \/ Reboot
  BY <1>20 DEF Kill, Reboot
<1>21. CASE UNCHANGED vars
  BY <1>21 DEF vars
<1>. QED
  BY <1>1, <1>2, <1>3, <1>4, <1>5, <1>6, <1>7, <1>8, <1>9, <1>10, <1>11, <1>12, <1>13,
     <1>14, <1>15, <1>16, <1>17, <1>18, <1>19, <1>20, <1>21 DEF Next, Work, Recovery

\* Up to its journal a run fills and seals a directory of its own.
LEMMA FillingStep == IInv /\ [Next]_vars => Filling'
<1> SUFFICES ASSUME IInv, [Next]_vars PROVE Filling'
  OBVIOUS
<1> USE PromotionAssumption
    DEF IInv, Maybe, Goto, Recover, Answer, Exit, NoFault, Fault, trees, records, process,
    Step, Building, Caller, Sealing, Result, Absent, Open, Journal, Marker,
    Filling, TypeOK, ProcessNamed, Launching, Fresh, Promoting, Fillable, Staged, Aside
<1>1. CASE Unjournaled \/ Keep
  BY <1>1 DEF Unjournaled, Keep
<1>2. CASE Retreat
  BY <1>2 DEF Retreat
<1>3. CASE Restore
  BY <1>3 DEF Restore
<1>4. CASE Restored \/ Seal
  BY <1>4 DEF Restored, Seal
<1>5. ASSUME NEW r \in Run, NEW d \in Run, NEW f \in BOOLEAN, Launch(r, d, f) PROVE Filling'
  BY <1>5 DEF Launch
<1>6. CASE Proceed
  BY <1>6 DEF Proceed
<1>7. CASE OpenWriter \/ Finalize
  BY <1>7 DEF OpenWriter, Finalize
<1>8. CASE WriteJournal
  BY <1>8 DEF WriteJournal
<1>9. CASE MoveAside
  BY <1>9 DEF MoveAside
<1>10. CASE MoveIn
  BY <1>10 DEF MoveIn
<1>11. CASE MoveInFails
  BY <1>11 DEF MoveInFails
<1>12. CASE BindOutputs
  BY <1>12 DEF BindOutputs
<1>13. CASE Expose
  BY <1>13 DEF Expose
<1>14. CASE Succeed
  BY <1>14 DEF Succeed
<1>15. CASE SealReturns
  BY <1>15 DEF SealReturns
<1>16. CASE Fail
  BY <1>16 DEF Fail
<1>17. CASE Handled
  BY <1>17 DEF Handled
<1>18. ASSUME NEW c \in Caller, Command(c) PROVE Filling'
  BY <1>18 DEF Command
<1>19. CASE CommandReturns \/ Amend
  BY <1>19 DEF CommandReturns, Amend
<1>20. CASE Kill \/ Reboot
  BY <1>20 DEF Kill, Reboot
<1>21. CASE UNCHANGED vars
  BY <1>21 DEF vars
<1>. QED
  BY <1>1, <1>2, <1>3, <1>4, <1>5, <1>6, <1>7, <1>8, <1>9, <1>10, <1>11, <1>12, <1>13,
     <1>14, <1>15, <1>16, <1>17, <1>18, <1>19, <1>20, <1>21 DEF Next, Work, Recovery

\* From its journal to its commit a promotion is where its steps say.
LEMMA PromotingStep == IInv /\ [Next]_vars => Promoting'
<1> SUFFICES ASSUME IInv, [Next]_vars PROVE Promoting'
  OBVIOUS
<1> USE PromotionAssumption
    DEF IInv, Maybe, Goto, Recover, Answer, Exit, NoFault, Fault, trees, records, process,
    Step, Building, Caller, Sealing, Result, Absent, Open, Journal, Marker,
    Promoting, TypeOK, ProcessNamed, Filling, Located, Archived, Staged, Committed
<1>1. CASE Unjournaled \/ Keep
  BY <1>1 DEF Unjournaled, Keep
<1>2. CASE Retreat
  BY <1>2 DEF Retreat
<1>3. CASE Restore
  BY <1>3 DEF Restore
<1>4. CASE Restored \/ Seal
  BY <1>4 DEF Restored, Seal
<1>5. ASSUME NEW r \in Run, NEW d \in Run, NEW f \in BOOLEAN, Launch(r, d, f) PROVE Promoting'
  BY <1>5 DEF Launch
<1>6. CASE Proceed
  BY <1>6 DEF Proceed
<1>7. CASE OpenWriter \/ Finalize
  BY <1>7 DEF OpenWriter, Finalize
<1>8. CASE WriteJournal
  BY <1>8 DEF WriteJournal
<1>9. CASE MoveAside
  BY <1>9 DEF MoveAside
<1>10. CASE MoveIn
  BY <1>10 DEF MoveIn
<1>11. CASE MoveInFails
  BY <1>11 DEF MoveInFails
<1>12. CASE BindOutputs
  BY <1>12 DEF BindOutputs
<1>13. CASE Expose
  BY <1>13 DEF Expose
<1>14. CASE Succeed
  BY <1>14 DEF Succeed
<1>15. CASE SealReturns
  BY <1>15 DEF SealReturns
<1>16. CASE Fail
  BY <1>16 DEF Fail
<1>17. CASE Handled
  BY <1>17 DEF Handled
<1>18. ASSUME NEW c \in Caller, Command(c) PROVE Promoting'
  BY <1>18 DEF Command
<1>19. CASE CommandReturns \/ Amend
  BY <1>19 DEF CommandReturns, Amend
<1>20. CASE Kill \/ Reboot
  BY <1>20 DEF Kill, Reboot
<1>21. CASE UNCHANGED vars
  BY <1>21 DEF vars
<1>. QED
  BY <1>1, <1>2, <1>3, <1>4, <1>5, <1>6, <1>7, <1>8, <1>9, <1>10, <1>11, <1>12, <1>13,
     <1>14, <1>15, <1>16, <1>17, <1>18, <1>19, <1>20, <1>21 DEF Next, Work, Recovery

\* A finalization has the journal or the marker it found.
LEMMA AmendingStep == IInv /\ [Next]_vars => Amending'
<1> SUFFICES ASSUME IInv, [Next]_vars PROVE Amending'
  OBVIOUS
<1> USE PromotionAssumption
    DEF IInv, Maybe, Goto, Recover, Answer, Exit, NoFault, Fault, trees, records, process,
    Step, Building, Caller, Sealing, Result, Absent, Open, Journal, Marker,
    Amending, TypeOK, Witnessing, Committed, Staged
<1>1. CASE Unjournaled \/ Keep
  BY <1>1 DEF Unjournaled, Keep
<1>2. CASE Retreat
  BY <1>2 DEF Retreat
<1>3. CASE Restore
  BY <1>3 DEF Restore
<1>4. CASE Restored \/ Seal
  BY <1>4 DEF Restored, Seal
<1>5. ASSUME NEW r \in Run, NEW d \in Run, NEW f \in BOOLEAN, Launch(r, d, f) PROVE Amending'
  BY <1>5 DEF Launch
<1>6. CASE Proceed
  BY <1>6 DEF Proceed
<1>7. CASE OpenWriter \/ Finalize
  BY <1>7 DEF OpenWriter, Finalize
<1>8. CASE WriteJournal
  BY <1>8 DEF WriteJournal
<1>9. CASE MoveAside
  BY <1>9 DEF MoveAside
<1>10. CASE MoveIn
  BY <1>10 DEF MoveIn
<1>11. CASE MoveInFails
  BY <1>11 DEF MoveInFails
<1>12. CASE BindOutputs
  BY <1>12 DEF BindOutputs
<1>13. CASE Expose
  BY <1>13 DEF Expose
<1>14. CASE Succeed
  BY <1>14 DEF Succeed
<1>15. CASE SealReturns
  BY <1>15 DEF SealReturns
<1>16. CASE Fail
  BY <1>16 DEF Fail
<1>17. CASE Handled
  BY <1>17 DEF Handled
<1>18. ASSUME NEW c \in Caller, Command(c) PROVE Amending'
  BY <1>18 DEF Command
<1>19. CASE CommandReturns \/ Amend
  BY <1>19 DEF CommandReturns, Amend
<1>20. CASE Kill \/ Reboot
  BY <1>20 DEF Kill, Reboot
<1>21. CASE UNCHANGED vars
  BY <1>21 DEF vars
<1>. QED
  BY <1>1, <1>2, <1>3, <1>4, <1>5, <1>6, <1>7, <1>8, <1>9, <1>10, <1>11, <1>12, <1>13,
     <1>14, <1>15, <1>16, <1>17, <1>18, <1>19, <1>20, <1>21 DEF Next, Work, Recovery

\* The tree of a journal is staged or canonical at every cut.
LEMMA LocatedStep == IInv /\ [Next]_vars => Located'
<1> SUFFICES ASSUME IInv, [Next]_vars PROVE Located'
  OBVIOUS
<1> USE PromotionAssumption
    DEF IInv, Maybe, Goto, Recover, Answer, Exit, NoFault, Fault, trees, records, process,
    Step, Building, Caller, Sealing, Result, Absent, Open, Journal, Marker,
    Located, TypeOK, ProcessNamed, Fresh, Filling, Promoting, Exposed, Archived, Launching,
    Staged, Aside, Committed, Ambiguous
<1>1. CASE Unjournaled \/ Keep
  BY <1>1 DEF Unjournaled, Keep
<1>2. CASE Retreat
  BY <1>2 DEF Retreat
<1>3. CASE Restore
  BY <1>3 DEF Restore
<1>4. CASE Restored \/ Seal
  BY <1>4 DEF Restored, Seal
<1>5. ASSUME NEW r \in Run, NEW d \in Run, NEW f \in BOOLEAN, Launch(r, d, f) PROVE Located'
  BY <1>5 DEF Launch
<1>6. CASE Proceed
  BY <1>6 DEF Proceed
<1>7. CASE OpenWriter \/ Finalize
  BY <1>7 DEF OpenWriter, Finalize
<1>8. CASE WriteJournal
  BY <1>8 DEF WriteJournal
<1>9. CASE MoveAside
  BY <1>9 DEF MoveAside
<1>10. CASE MoveIn
  BY <1>10 DEF MoveIn
<1>11. CASE MoveInFails
  BY <1>11 DEF MoveInFails
<1>12. CASE BindOutputs
  BY <1>12 DEF BindOutputs
<1>13. CASE Expose
  BY <1>13 DEF Expose
<1>14. CASE Succeed
  BY <1>14 DEF Succeed
<1>15. CASE SealReturns
  BY <1>15 DEF SealReturns
<1>16. CASE Fail
  BY <1>16 DEF Fail
<1>17. CASE Handled
  BY <1>17 DEF Handled
<1>18. ASSUME NEW c \in Caller, Command(c) PROVE Located'
  BY <1>18 DEF Command
<1>19. CASE CommandReturns \/ Amend
  BY <1>19 DEF CommandReturns, Amend
<1>20. CASE Kill \/ Reboot
  BY <1>20 DEF Kill, Reboot
<1>21. CASE UNCHANGED vars
  BY <1>21 DEF vars
<1>. QED
  BY <1>1, <1>2, <1>3, <1>4, <1>5, <1>6, <1>7, <1>8, <1>9, <1>10, <1>11, <1>12, <1>13,
     <1>14, <1>15, <1>16, <1>17, <1>18, <1>19, <1>20, <1>21 DEF Next, Work, Recovery

\* What recovery would leave changes only with the commit.
LEMMA ExposedStep == IInv /\ [Next]_vars => Exposed'
<1> SUFFICES ASSUME IInv, [Next]_vars PROVE Exposed'
  OBVIOUS
<1> USE PromotionAssumption
    DEF IInv, Maybe, Goto, Recover, Answer, Exit, NoFault, Fault, trees, records, process,
    Step, Building, Caller, Sealing, Result, Absent, Open, Journal, Marker,
    Exposed, TypeOK, ProcessNamed, Fresh, Filling, Promoting, Located, Archived, Launching,
    Staged, Aside, Committed, Ambiguous, Resolved, Before
<1>1. CASE Unjournaled \/ Keep
  BY <1>1 DEF Unjournaled, Keep
<1>2. CASE Retreat
  BY <1>2 DEF Retreat
<1>3. CASE Restore
  BY <1>3 DEF Restore
<1>4. CASE Restored \/ Seal
  BY <1>4 DEF Restored, Seal
<1>5. ASSUME NEW r \in Run, NEW d \in Run, NEW f \in BOOLEAN, Launch(r, d, f) PROVE Exposed'
  BY <1>5 DEF Launch
<1>6. CASE Proceed
  BY <1>6 DEF Proceed
<1>7. CASE OpenWriter \/ Finalize
  BY <1>7 DEF OpenWriter, Finalize
<1>8. CASE WriteJournal
  BY <1>8 DEF WriteJournal
<1>9. CASE MoveAside
  BY <1>9 DEF MoveAside
<1>10. CASE MoveIn
  BY <1>10 DEF MoveIn
<1>11. CASE MoveInFails
  BY <1>11 DEF MoveInFails
<1>12. CASE BindOutputs
  BY <1>12 DEF BindOutputs
<1>13. CASE Expose
  BY <1>13 DEF Expose
<1>14. CASE Succeed
  BY <1>14 DEF Succeed
<1>15. CASE SealReturns
  BY <1>15 DEF SealReturns
<1>16. CASE Fail
  BY <1>16 DEF Fail
<1>17. CASE Handled
  BY <1>17 DEF Handled
<1>18. ASSUME NEW c \in Caller, Command(c) PROVE Exposed'
  BY <1>18 DEF Command
<1>19. CASE CommandReturns \/ Amend
  BY <1>19 DEF CommandReturns, Amend
<1>20. CASE Kill \/ Reboot
  BY <1>20 DEF Kill, Reboot
<1>21. CASE UNCHANGED vars
  BY <1>21 DEF vars
<1>. QED
  BY <1>1, <1>2, <1>3, <1>4, <1>5, <1>6, <1>7, <1>8, <1>9, <1>10, <1>11, <1>12, <1>13,
     <1>14, <1>15, <1>16, <1>17, <1>18, <1>19, <1>20, <1>21 DEF Next, Work, Recovery

\* Commits are sealed before they are replaced, and sealed trees moved aside.
LEMMA ArchivedStep == IInv /\ [Next]_vars => Archived'
<1> SUFFICES ASSUME IInv, [Next]_vars PROVE Archived'
  OBVIOUS
<1> USE PromotionAssumption
    DEF IInv, Maybe, Goto, Recover, Answer, Exit, NoFault, Fault, trees, records, process,
    Step, Building, Caller, Sealing, Result, Absent, Open, Journal, Marker,
    Archived, TypeOK, ProcessNamed, Fresh, Filling, Promoting, Located, Exposed, Amending,
    Witnessing, Launching, Staged, Aside, Committed, Ambiguous, Resolved, Before, Witness
<1>1. CASE Unjournaled \/ Keep
  BY <1>1 DEF Unjournaled, Keep
<1>2. CASE Retreat
  BY <1>2 DEF Retreat
<1>3. CASE Restore
  BY <1>3 DEF Restore
<1>4. CASE Restored \/ Seal
  BY <1>4 DEF Restored, Seal
<1>5. ASSUME NEW r \in Run, NEW d \in Run, NEW f \in BOOLEAN, Launch(r, d, f) PROVE Archived'
  BY <1>5 DEF Launch
<1>6. CASE Proceed
  BY <1>6 DEF Proceed
<1>7. CASE OpenWriter \/ Finalize
  BY <1>7 DEF OpenWriter, Finalize
<1>8. CASE WriteJournal
  BY <1>8 DEF WriteJournal
<1>9. CASE MoveAside
  BY <1>9 DEF MoveAside
<1>10. CASE MoveIn
  BY <1>10 DEF MoveIn
<1>11. CASE MoveInFails
  BY <1>11 DEF MoveInFails
<1>12. CASE BindOutputs
  BY <1>12 DEF BindOutputs
<1>13. CASE Expose
  BY <1>13 DEF Expose
<1>14. CASE Succeed
  BY <1>14 DEF Succeed
<1>15. CASE SealReturns
  BY <1>15 DEF SealReturns
<1>16. CASE Fail
  BY <1>16 DEF Fail
<1>17. CASE Handled
  BY <1>17 DEF Handled
<1>18. ASSUME NEW c \in Caller, Command(c) PROVE Archived'
  BY <1>18 DEF Command
<1>19. CASE CommandReturns \/ Amend
  BY <1>19 DEF CommandReturns, Amend
<1>20. CASE Kill \/ Reboot
  BY <1>20 DEF Kill, Reboot
<1>21. CASE UNCHANGED vars
  BY <1>21 DEF vars
<1>. QED
  BY <1>1, <1>2, <1>3, <1>4, <1>5, <1>6, <1>7, <1>8, <1>9, <1>10, <1>11, <1>12, <1>13,
     <1>14, <1>15, <1>16, <1>17, <1>18, <1>19, <1>20, <1>21 DEF Next, Work, Recovery

-----------------------------------------------------------------------------
\* The empty output satisfies the invariant.
LEMMA InitInvariant == Init => IInv
<1> SUFFICES ASSUME Init PROVE IInv
  OBVIOUS
<1> USE PromotionAssumption DEF Init, Absent, Open, Journal, Marker
<1>1. TypeOK
  BY DEF TypeOK, Maybe, Step, Caller, Result, Building
<1>2. ProcessNamed /\ Fresh /\ Launching /\ Filling /\ Promoting /\ Amending
  BY DEF ProcessNamed, Fresh, Launching, Filling, Promoting, Amending, Witnessing, Building
<1>3. Located /\ Exposed /\ Archived
  BY DEF Located, Exposed, Archived, Resolved
<1>4. QED
  BY <1>1, <1>2, <1>3 DEF IInv

\* The invariant holds in every reachable state.
THEOREM LexicalInvariant == Spec => []IInv
<1>1. IInv /\ [Next]_vars => IInv'
  BY TypeOKStep, ProcessNamedStep, FreshStep, LaunchingStep, FillingStep, PromotingStep,
     AmendingStep, LocatedStep, ExposedStep, ArchivedStep DEF IInv
<1>2. QED
  BY InitInvariant, <1>1, PTL DEF Spec

-----------------------------------------------------------------------------
\* The variables of the promotion keep their types, for any runs and faults.
THEOREM LexicalTypeOK == Spec => []TypeOK
<1>1. IInv => TypeOK
  BY DEF IInv
<1>2. QED
  BY LexicalInvariant, <1>1, PTL

\* The views of the database are of the canonical tree whenever no other
\* promotion is in doubt, wherever runs and recoveries were cut off.
THEOREM LexicalExposureMatchesTree == Spec => []ExposureMatchesTree
<1>1. IInv => ExposureMatchesTree
  BY PromotionAssumption
     DEF IInv, TypeOK, Exposed, Resolved, ExposureMatchesTree, Maybe, Marker, Committed
<1>2. QED
  BY LexicalInvariant, <1>1, PTL

\* At every cut recovery can tell from journal, directories and marker whether
\* the promotion took place.
THEOREM LexicalRecoveryIsUnambiguous == Spec => []RecoveryIsUnambiguous
<1>1. IInv => RecoveryIsUnambiguous
  BY PromotionAssumption
     DEF IInv, TypeOK, Located, Exposed, RecoveryIsUnambiguous, Ambiguous, Aside, Staged,
         Committed, Maybe, Journal, Marker
<1>2. QED
  BY LexicalInvariant, <1>1, PTL

\* A promoted tree replaces the database views of a sealed promotion only.
THEOREM LexicalOnlySealedIsReplaced == Spec => OnlySealedIsReplaced
<1>1. IInv /\ [Next]_vars =>
        [marker' # marker => marker = None \/ marker.promotion \in sealed]_vars
  <2> SUFFICES ASSUME IInv, [Next]_vars, marker' # marker
               PROVE  marker = None \/ marker.promotion \in sealed
    OBVIOUS
  <2>1. Expose
    BY DEF Next, Work, Recovery, vars, records, trees,
           Unjournaled, Retreat, Restore, Restored, Keep, Seal, Launch, Proceed,
           OpenWriter, Finalize, WriteJournal, MoveAside, MoveIn, BindOutputs, Succeed,
           SealReturns, Handled, CommandReturns, Amend, Command,
           MoveInFails, Fail, Kill, Reboot
  <2>2. QED
    BY <2>1 DEF Expose, IInv, Promoting, Archived
<1>2. QED
  BY LexicalInvariant, <1>1, PTL DEF Spec, OnlySealedIsReplaced

\* A failed execution stays failed, and what is sealed is the promotion of the
\* marker by an execution that succeeded.
THEOREM LexicalFailureStands == Spec => FailureStands
<1>1. IInv /\ [Next]_vars =>
        [/\ \A r \in Run : status[r] = "failed" => status'[r] = "failed"
         /\ \A r \in sealed' \ sealed : status'[r] = "succeeded" /\ marker.promotion = r]_vars
  <2> SUFFICES ASSUME IInv, [Next]_vars
               PROVE  /\ \A r \in Run : status[r] = "failed" => status'[r] = "failed"
                      /\ \A r \in sealed' \ sealed :
                           status'[r] = "succeeded" /\ marker.promotion = r
    OBVIOUS
  <2>1. CASE Proceed
    BY <2>1 DEF Proceed, IInv, TypeOK, Launching
  <2>2. CASE Succeed
    BY <2>2 DEF Succeed, IInv, TypeOK, Filling, Building
  <2>3. CASE Handled
    BY <2>3 DEF Handled, IInv, TypeOK
  <2>4. CASE Amend
    BY <2>4 DEF Amend, IInv, TypeOK
  <2>5. CASE Seal
    BY <2>5 DEF Seal, Committed
  <2>6. CASE UNCHANGED <<status, sealed>>
    BY <2>6
  <2>7. QED
    BY <2>1, <2>2, <2>3, <2>4, <2>5, <2>6
       DEF Next, Work, Recovery, vars, records, trees,
           Unjournaled, Retreat, Restore, Restored, Keep, Launch,
           OpenWriter, Finalize, WriteJournal, MoveAside, MoveIn, BindOutputs, Expose,
           SealReturns, CommandReturns, Command,
           MoveInFails, Fail, Kill, Reboot
<1>2. QED
  BY LexicalInvariant, <1>1, PTL DEF Spec, FailureStands

\* No step loses a sealed tree: it moves from its staging directory to the
\* canonical one, aside, or back.
THEOREM LexicalTreesAreKept == Spec => TreesAreKept
<1>1. IInv /\ [Next]_vars => [\A t \in Run : Kept(t) => Kept(t)']_vars
  <2> SUFFICES ASSUME IInv, [Next]_vars, NEW t \in Run, Kept(t) PROVE Kept(t)'
    OBVIOUS
  <2> USE PromotionAssumption
      DEF IInv, TypeOK, Kept, Maybe, Journal, records, process
  <2>1. CASE Retreat
    BY <2>1 DEF Retreat, Staged, Located
  <2>2. CASE Restore
    BY <2>2 DEF Restore, Aside
  <2>3. CASE OpenWriter \/ Finalize
    BY <2>3 DEF OpenWriter, Finalize, Filling, ProcessNamed, Building, Fillable
  <2>4. CASE MoveAside
    BY <2>4 DEF MoveAside, Filling, ProcessNamed, Building
  <2>5. CASE MoveIn
    BY <2>5 DEF MoveIn, Promoting, ProcessNamed, Building
  <2>6. CASE MoveInFails
    BY <2>6 DEF MoveInFails, Promoting, ProcessNamed, Building
  <2>7. CASE UNCHANGED trees
    BY <2>7 DEF trees
  <2>8. QED
    BY <2>1, <2>2, <2>3, <2>4, <2>5, <2>6, <2>7
       DEF Next, Work, Recovery, vars,
           Unjournaled, Restored, Keep, Seal, Launch, Proceed, WriteJournal,
           BindOutputs, Expose, Succeed, SealReturns, Handled, CommandReturns, Amend,
           Command, Fail, Kill, Reboot
<1>2. QED
  BY LexicalInvariant, <1>1, PTL DEF Spec, TreesAreKept

-----------------------------------------------------------------------------
\* The canonical tree as recovery would leave it, and all trees that are or
\* were canonical: the two sides of the refinement.
Exposure == IF marker = None THEN None ELSE marker.tree
Canonicals == ({backup[r] : r \in Run} \cup {Resolved}) \ {None}

\* Until the commit nothing changes that recovery would not undo.
LEMMA Undone ==
  IInv /\ IInv' /\ [Next]_vars /\ ~Expose => UNCHANGED <<Resolved, Exposure, Canonicals>>
<1> SUFFICES ASSUME IInv, IInv', [Next]_vars, ~Expose
             PROVE  UNCHANGED <<Resolved, Exposure, Canonicals>>
  OBVIOUS
<1>1. UNCHANGED marker
  BY DEF Next, Work, Recovery, vars, records, trees,
         Unjournaled, Retreat, Restore, Restored, Keep, Seal, Launch, Proceed,
         OpenWriter, Finalize, WriteJournal, MoveAside, MoveIn, BindOutputs, Succeed,
         SealReturns, Handled, CommandReturns, Amend, Command,
           MoveInFails, Fail, Kill, Reboot
<1>2. UNCHANGED <<Resolved, Exposure>>
  BY <1>1 DEF IInv, Exposed, Exposure
<1>3. UNCHANGED Canonicals
  <2> USE PromotionAssumption DEF IInv, TypeOK, Maybe, Journal
  <2>1. CASE Restore
    <3>1. PICK r \in Run : /\ backup[r] # None /\ Resolved = backup[r]
                           /\ backup' = [backup EXCEPT ![r] = None]
      BY <2>1 DEF Restore, Located, Aside, Resolved, Before, Staged, Committed
    <3>2. QED
      BY <3>1, <1>2 DEF Canonicals
  <2>2. CASE MoveInFails
    <3>1. run \in Run /\ backup' = [backup EXCEPT ![run] = None]
      BY <2>2 DEF MoveInFails, ProcessNamed, Building
    <3>2. journal # None /\ journal.run = run /\ ~Committed
      BY <2>2 DEF MoveInFails, Promoting, ProcessNamed, Building
    <3>3. backup[run] = None \/ Resolved = backup[run]
      BY <3>2 DEF Resolved, Before, Aside
    <3>4. QED
      BY <3>1, <3>3, <1>2 DEF Canonicals
  <2>3. CASE MoveAside
    <3>1. run \in Run /\ backup[run] = None /\ backup' = [backup EXCEPT ![run] = output]
      BY <2>3 DEF MoveAside, ProcessNamed, Building, Filling
    <3>2. Resolved = output
      BY <2>3, <3>1
      DEF MoveAside, Promoting, Filling, Resolved, Before, Aside, Staged, ProcessNamed, Building
    <3>3. QED
      BY <3>1, <3>2, <1>2 DEF Canonicals
  <2>4. CASE UNCHANGED backup
    BY <2>4, <1>2 DEF Canonicals
  <2>5. QED
    BY <2>1, <2>2, <2>3, <2>4
       DEF Next, Work, Recovery, vars, trees,
           Unjournaled, Retreat, Restored, Keep, Seal, Launch, Proceed, OpenWriter,
           Finalize, WriteJournal, MoveIn, BindOutputs, Succeed, SealReturns, Handled,
           CommandReturns, Amend, Command, Fail, Kill, Reboot
<1>4. QED
  BY <1>2, <1>3

\* The commit makes the tree of its run canonical for the first time.
LEMMA Promoted ==
  IInv /\ IInv' /\ Expose =>
    /\ run \in Run /\ run \notin Canonicals
    /\ Resolved' = run /\ Exposure' = run
    /\ Canonicals' = Canonicals \cup {run}
<1> SUFFICES ASSUME IInv, IInv', Expose
             PROVE  /\ run \in Run /\ run \notin Canonicals
                    /\ Resolved' = run /\ Exposure' = run
                    /\ Canonicals' = Canonicals \cup {run}
  OBVIOUS
<1> USE PromotionAssumption DEF IInv, TypeOK, Maybe, Journal, Marker
<1>1. run \in Run /\ dir \in Run /\ status[run] = "running"
  BY DEF Expose, ProcessNamed, Filling, Building
<1>2. journal = [run |-> run, dir |-> dir] /\ journal # None /\ ~Committed /\ ~Staged
  BY <1>1 DEF Expose, Promoting, Staged
<1>3. output = run
  BY <1>2 DEF Located
<1>4. marker' = [promotion |-> run, tree |-> run] /\ marker' # None /\ UNCHANGED backup
  BY <1>1, <1>3 DEF Expose, trees
<1>5. Exposure' = run /\ Resolved' = run
  BY <1>4 DEF Exposed, Exposure
<1>6. Resolved = backup[run]
  BY <1>1, <1>2 DEF Resolved, Before, Aside
<1>7. run \notin Canonicals
  BY <1>1, <1>6 DEF Archived, Canonicals
<1>8. Canonicals' = Canonicals \cup {run}
  BY <1>1, <1>4, <1>5, <1>6 DEF Canonicals
<1>9. QED
  BY <1>1, <1>5, <1>7, <1>8

\* Files and database change as one: the promotion implements AtomicPromotion.
THEOREM LexicalImplementsAtomic == Spec => ImplementsAtomic
<1>1. Init => Atomic!Init
  BY DEF Init, Atomic!Init, Resolved
<1>2. IInv /\ IInv' /\ [Next]_vars => [Atomic!Next]_(Atomic!promotionVars)
  <2> SUFFICES ASSUME IInv, IInv', [Next]_vars
               PROVE  Atomic!Next \/ UNCHANGED Atomic!promotionVars
    OBVIOUS
  <2>1. CASE Expose
    <3>1. PICK t \in Run : t = run
      BY <2>1, Promoted
    <3>2. Atomic!Promote(t)
      BY <3>1, <2>1, Promoted DEF Atomic!Promote, Exposure, Canonicals
    <3>3. QED
      BY <3>1, <3>2 DEF Atomic!Next
  <2>2. CASE ~Expose
    BY <2>2, Undone DEF Atomic!promotionVars, Exposure, Canonicals
  <2>3. QED
    BY <2>1, <2>2
<1>3. QED
  BY LexicalInvariant, <1>1, <1>2, PTL DEF Spec, ImplementsAtomic, Atomic!Spec

-----------------------------------------------------------------------------
(***************************************************************************)
(* The build of the staging tree                                           *)
(***************************************************************************)

Full(t) == Len(leaf[t]) = Leaves[t]

\* A table is begun when those before it are full; one comparison may be cut off.
Begun ==
  /\ \A t \in Table : Len(leaf[t]) <= Leaves[t]
  /\ leaf["critical"] # <<>> => Full("primary")
  /\ leaf["ketiv"] # <<>> => Full("critical")
  /\ leaf["critical_core_profile"] # <<>> => Full("ketiv")
  /\ leaf["hebrew_qere_ketiv"] # <<>> => Full("critical_core_profile")

\* The steps at which the tables of Begun are there.
Counted ==
  /\ Full("primary") /\ Full("critical") /\ Full("ketiv") /\ Full("critical_core_profile")
  /\ leaf["hebrew_qere_ketiv"] # <<>>

\* Where the worker is in its table, and what is finished before it.
Progress ==
  /\ \A t \in Table : At(t) => worker.part <= Len(leaf[t]) + 1 /\ worker.part <= Leaves[t]
  /\ At("rebuild") => worker.part <= Leaves["primary"]
  /\ At("critical") => Full("primary")
  /\ At("ketiv") => Full("critical")
  /\ At("critical_core_profile") => Full("ketiv")
  /\ At("hebrew_qere_ketiv") => Full("critical_core_profile")
  /\ worker.at \notin {"idle", "primary", "critical", "ketiv", "critical_core_profile",
                      "hebrew_qere_ketiv"} => Counted
  /\ worker.at \in {"nulls", "candidates", "queue", "quarantine", "metadata", "hashes"}
       => Full("evaluation")
  /\ worker.at \in {"candidates", "queue", "quarantine", "metadata", "hashes"} => Full("nulls")
  /\ worker.at \in {"queue", "quarantine", "metadata", "hashes"} => Full("candidates")
  /\ worker.at \in {"quarantine", "metadata", "hashes"} => Full("queue")

Sealed ==
  hashed # Nobody =>
    /\ At("idle") /\ Counted
    /\ \A t \in FromCandidates \cup {"evaluation"} : Full(t)

\* Aggregates that one edition made with the rankings that stand.
Sound(aggregates) ==
  \E a \in Edition :
    /\ AllOf("primary", [rows |-> Rows[a]["primary"], from |-> <<>>])
    /\ aggregates = AggregatesOf(a)

\* The parts before the one the worker is at.
Partly(t, content) ==
  \A i \in 1..(worker.part - 1) : i <= Len(leaf[t]) /\ leaf[t][i] = content

Aggregating ==
  /\ worker.at \in {"primary", "rebuild"} =>
       /\ worker.aggregates = [i \in 1..(worker.part - 1) |-> Mine("aggregates")]
       /\ Partly("primary", [rows |-> Mine("primary"), from |-> <<>>])
  /\ worker.at \in {"rebuild", "complete"} =>
       checkpoint.parts = worker.aggregates /\ ~checkpoint.complete
  /\ worker.at \notin {"idle", "primary", "rebuild"} => Sound(worker.aggregates)
  /\ checkpoint.complete => Sound(checkpoint.parts)

Made(t) == AllOf(t, [rows |-> Mine(t), from |-> worker.aggregates])

Following ==
  /\ \A t \in FromCandidates :
       At(t) => Partly(t, [rows |-> Mine(t), from |-> worker.aggregates])
  /\ worker.at \in {"candidates", "queue", "quarantine", "metadata", "hashes"} => Made("nulls")
  /\ worker.at \in {"queue", "quarantine", "metadata", "hashes"} => Made("candidates")
  /\ worker.at \in {"quarantine", "metadata", "hashes"} => Made("queue")

RInv ==
  /\ ResumeShapes /\ Begun /\ Progress /\ Sealed /\ Aggregating /\ Following
  /\ CandidatesFollowRankings

-----------------------------------------------------------------------------
Names == Table \cup {"rebuild", "complete", "batches", "quarantine", "metadata"}

LEMMA Order ==
  /\ \A s \in Names : After[s] \in Place \ {"idle"}
  /\ After["primary"] = "critical" /\ After["critical"] = "ketiv"
  /\ After["ketiv"] = "critical_core_profile"
  /\ After["critical_core_profile"] = "hebrew_qere_ketiv"
  /\ After["hebrew_qere_ketiv"] = "batches" /\ After["rebuild"] = "complete"
  /\ After["complete"] = "batches" /\ After["batches"] = "evaluation"
  /\ After["evaluation"] = "nulls" /\ After["nulls"] = "candidates"
  /\ After["candidates"] = "queue" /\ After["queue"] = "quarantine"
  /\ After["quarantine"] = "metadata" /\ After["metadata"] = "hashes"
BY DEF After, Names, Table, Ranking, Comparison, FromCandidates, Place

LEMMA Computing ==
  ASSUME ResumeShapes, ~At("idle"), NEW o \in Output
  PROVE  Mine(o) \in Value
BY DEF ResumeShapes, Mine, Value, At

LEMMA ComputedTyped ==
  ASSUME ResumeShapes, ~At("idle"), NEW t \in Table
  PROVE  Computed(t) \in Content
<1>1. Mine(t) \in Value
  BY Computing DEF Output
<1>2. <<>> \in Seq(Value) /\ batch \in Seq(Value) /\ worker.aggregates \in Seq(Value)
  BY DEF ResumeShapes
<1>3. QED
  BY <1>1, <1>2 DEF Computed, Content

\* A table where the worker is gets at most the part it computed, at its end.
LEMMA Written ==
  ASSUME ResumeShapes, Begun, Progress, NEW t \in Table, WriteLeaf(t)
  PROVE  /\ worker.part \in 1..Leaves[t] /\ worker.part <= Len(leaf'[t])
         /\ leaf' \in [Table -> Seq(Content)]
         /\ \A u \in Table : u # t => leaf'[u] = leaf[u]
         /\ Len(leaf[t]) <= Len(leaf'[t]) /\ Len(leaf'[t]) <= Leaves[t]
         /\ \A i \in 1..Len(leaf[t]) : leaf'[t][i] = leaf[t][i]
         /\ leaf'[t][worker.part] = Computed(t)
         /\ Full(t) => leaf'[t] = leaf[t]
<1>1. Computed(t) \in Content /\ leaf[t] \in Seq(Content) /\ worker.part \in Nat \ {0}
  <2>1. t # "idle"
    BY DEF Table, Ranking, Comparison, FromCandidates
  <2>2. QED
    BY <2>1, ComputedTyped DEF ResumeShapes, WriteLeaf, At
<1>2. worker.part <= Len(leaf[t]) + 1 /\ worker.part <= Leaves[t] /\ Leaves[t] \in Nat \ {0}
  BY ResumeAssumption DEF Progress, WriteLeaf
<1>3. CASE Standing(t)
  <2>1. leaf' = leaf /\ leaf[t][worker.part] = Computed(t)
    BY <1>3 DEF WriteLeaf, Agrees
  <2>2. QED
    BY <1>1, <1>2, <1>3, <2>1 DEF ResumeShapes, Begun, Standing
<1>4. CASE ~Standing(t)
  <2>1. leaf' = [leaf EXCEPT ![t] = Append(@, Computed(t))]
    BY <1>4 DEF WriteLeaf
  <2>2. worker.part = Len(leaf[t]) + 1
    BY <1>1, <1>2, <1>4 DEF Standing
  <2>3. leaf'[t] = Append(leaf[t], Computed(t)) /\ \A u \in Table : u # t => leaf'[u] = leaf[u]
    BY <2>1 DEF ResumeShapes
  <2>4. leaf' \in [Table -> Seq(Content)]
    BY <1>1, <2>1 DEF ResumeShapes
  <2>5. QED
    BY <1>1, <1>2, <2>2, <2>3, <2>4 DEF Full
<1>5. QED
  BY <1>3, <1>4

\* What becomes of a worker that goes on, ends or rests.
LEMMA WorkerAfter ==
  ASSUME ResumeShapes, NEW t \in Table, worker.at \in {t, "rebuild"}, worker' = Later(t)
  PROVE  /\ worker'.edition = worker.edition
         /\ worker'.at = IF Finished(t) THEN After[worker.at] ELSE worker.at
         /\ worker'.part = IF Finished(t) THEN 1 ELSE worker.part + 1
         /\ worker'.aggregates = IF t = "primary" THEN Append(worker.aggregates, Mine("aggregates"))
                                                 ELSE worker.aggregates
BY DEF ResumeShapes, Later

LEMMA WorkerMoved ==
  ASSUME ResumeShapes, Advance
  PROVE  /\ worker'.at = After[worker.at] /\ worker'.part = 1
         /\ worker'.edition = worker.edition /\ worker'.aggregates = worker.aggregates
BY DEF ResumeShapes, Advance

Ends ==
  /\ worker' = Idle /\ UNCHANGED <<tree, batch>>
  /\ checkpoint' \in {checkpoint, [checkpoint EXCEPT !.aside = FALSE]}
Rests == UNCHANGED <<tree, checkpoint, batch, worker>>

\* What the invariant tells apart.
LEMMA Steps ==
  ASSUME [ResumeNext]_resumeVars
  PROVE  \/ \E t \in Table : WriteLeaf(t)
         \/ Rebuild \/ Complete \/ WriteBatch \/ Assemble \/ SetAside \/ Describe \/ Hash
         \/ \E e \in Edition : Resume(e)
         \/ Ends \/ Rests
<1>1. ASSUME NEW t \in Table, Differs(t) PROVE Ends
  BY <1>1 DEF Differs, Raise, Ends, tree
<1>2. RebuildDiffers => Ends
  BY DEF RebuildDiffers, Raise, Ends, tree
<1>3. AttemptFails => Ends
  BY DEF AttemptFails, Raise, Ends, tree
<1>4. AttemptKilled => Ends
  BY DEF AttemptKilled, Ends, tree
<1>5. CleanSpill \/ UNCHANGED resumeVars => Rests
  BY DEF CleanSpill, Rests, resumeVars, private
<1>6. QED
  BY <1>1, <1>2, <1>3, <1>4, <1>5 DEF ResumeNext, Build

LEMMA Unlettered ==
  ASSUME NEW t \in Table
  PROVE  t \in Place /\ t \in Names /\ t \in Output
         /\ t \notin {"rebuild", "complete", "batches", "quarantine", "metadata", "hashes", "idle"}
BY DEF Table, Ranking, Comparison, FromCandidates, Place, Names, Output

\* Shapes.
LEMMA ShapesStep == RInv /\ [ResumeNext]_resumeVars => ResumeShapes'
<1> SUFFICES ASSUME RInv, [ResumeNext]_resumeVars PROVE ResumeShapes'
  OBVIOUS
<1> USE DEF RInv
<1>1. ASSUME NEW t \in Table, WriteLeaf(t) PROVE ResumeShapes'
  <2>1. leaf' \in [Table -> Seq(Content)]
    BY <1>1, Written
  <2>2. worker.at = t /\ worker' = Later(t) /\ ~At("idle")
    BY <1>1, Unlettered DEF WriteLeaf, At
  <2>3. Mine("aggregates") \in Value
    BY <2>2, Computing DEF Output
  <2>4. After[t] \in Place \ {"idle"} /\ t \in Place \ {"idle"}
    BY Order, Unlettered
  <2>5. /\ worker'.edition = worker.edition /\ worker'.at \in Place \ {"idle"}
        /\ worker'.part \in Nat \ {0} /\ worker'.aggregates \in Seq(Value)
    <3>1. worker.aggregates \in Seq(Value) /\ worker.part \in Nat \ {0}
      BY DEF ResumeShapes
    <3>2. Append(worker.aggregates, Mine("aggregates")) \in Seq(Value)
      BY <3>1, <2>3
    <3>3. /\ worker'.edition = worker.edition
          /\ worker'.at = IF Finished(t) THEN After[worker.at] ELSE worker.at
          /\ worker'.part = IF Finished(t) THEN 1 ELSE worker.part + 1
          /\ worker'.aggregates =
               IF t = "primary" THEN Append(worker.aggregates, Mine("aggregates"))
                                ELSE worker.aggregates
      BY <2>2, WorkerAfter
    <3>4. worker'.at \in Place \ {"idle"}
      BY <2>2, <2>4, <3>3
    <3>5. worker'.part \in Nat \ {0}
      BY <3>1, <3>3
    <3>6. worker'.aggregates \in Seq(Value)
      BY <3>1, <3>2, <3>3
    <3>7. QED
      BY <3>3, <3>4, <3>5, <3>6
  <2>6. worker' \in [at : Place, edition : Edition \cup {Nobody},
                     part : Nat \ {0}, aggregates : Seq(Value)]
    BY <2>2, <2>5 DEF ResumeShapes, Later
  <2>7. QED
    BY <1>1, <2>1, <2>2, <2>5, <2>6 DEF ResumeShapes, WriteLeaf, private, At
<1>2. CASE Rebuild
  <2>1. worker.at = "rebuild" /\ worker' = Later("primary") /\ ~At("idle") /\ "primary" \in Table
    BY <1>2 DEF Rebuild, At, Table, Ranking
  <2>2. Mine("aggregates") \in Value
    BY <2>1, Computing DEF Output
  <2>3. After["rebuild"] \in Place \ {"idle"} /\ "rebuild" \in Place \ {"idle"}
    BY Order DEF Names, Place
  <2>4. /\ worker'.edition = worker.edition /\ worker'.at \in Place \ {"idle"}
        /\ worker'.part \in Nat \ {0} /\ worker'.aggregates \in Seq(Value)
    <3>1. worker.aggregates \in Seq(Value) /\ worker.part \in Nat \ {0}
      BY DEF ResumeShapes
    <3>2. Append(worker.aggregates, Mine("aggregates")) \in Seq(Value)
      BY <3>1, <2>2
    <3>3. /\ worker'.edition = worker.edition
          /\ worker'.at = IF Finished("primary") THEN After[worker.at] ELSE worker.at
          /\ worker'.part = IF Finished("primary") THEN 1 ELSE worker.part + 1
          /\ worker'.aggregates = Append(worker.aggregates, Mine("aggregates"))
      BY <2>1, WorkerAfter
    <3>4. worker'.at \in Place \ {"idle"}
      BY <2>1, <2>3, <3>3
    <3>5. worker'.part \in Nat \ {0}
      BY <3>1, <3>3
    <3>6. QED
      BY <3>2, <3>3, <3>4, <3>5
  <2>5. worker' \in [at : Place, edition : Edition \cup {Nobody},
                     part : Nat \ {0}, aggregates : Seq(Value)]
    BY <2>1, <2>4 DEF ResumeShapes, Later
  <2>6. checkpoint' \in [parts : Seq(Value), complete : BOOLEAN, aside : BOOLEAN]
    <3>1. checkpoint.parts \in Seq(Value)
      BY DEF ResumeShapes
    <3>2. Append(checkpoint.parts, Mine("aggregates")) \in Seq(Value)
      BY <3>1, <2>2
    <3>3. QED
      BY <1>2, <3>2 DEF Rebuild, ResumeShapes
  <2>7. QED
    BY <1>2, <2>1, <2>4, <2>5, <2>6 DEF ResumeShapes, Rebuild, tree, At
<1>3. ASSUME Advance, worker.at \in Names
      PROVE  /\ worker' \in [at : Place, edition : Edition \cup {Nobody},
                              part : Nat \ {0}, aggregates : Seq(Value)]
             /\ At("idle")' <=> worker'.edition = Nobody
  <2>1. After[worker.at] \in Place \ {"idle"} /\ worker.at # "idle"
    BY <1>3, Order DEF Names, Table, Ranking, Comparison, FromCandidates
  <2>2. worker' = [at |-> After[worker.at], edition |-> worker.edition, part |-> 1,
                   aggregates |-> worker.aggregates]
    BY <1>3 DEF Advance, ResumeShapes
  <2>3. After[worker.at] \in Place /\ worker.edition \in Edition /\ worker.aggregates \in Seq(Value)
    BY <2>1 DEF ResumeShapes, At
  <2>4. worker' \in [at : Place, edition : Edition \cup {Nobody},
                     part : Nat \ {0}, aggregates : Seq(Value)]
    BY <2>2, <2>3
  <2>5. QED
    BY <2>1, <2>2, <2>3, <2>4, ResumeAssumption DEF At
<1>4. CASE Complete
  BY <1>3, <1>4 DEF Complete, ResumeShapes, tree, At, Names
<1>5. CASE WriteBatch
  <2>1. Mine("batch") \in Value
    BY <1>5, Computing DEF WriteBatch, At, Output
  <2>2. QED
    BY <1>5, <2>1 DEF WriteBatch, ResumeShapes, tree, At
<1>6. CASE Assemble
  BY <1>3, <1>6 DEF Assemble, ResumeShapes, tree, private, At, Names
<1>7. CASE SetAside
  BY <1>3, <1>7 DEF SetAside, ResumeShapes, tree, At, Names
<1>8. CASE Describe
  BY <1>3, <1>8 DEF Describe, ResumeShapes, private, At, Names
<1>9. Idle \in [at : Place, edition : Edition \cup {Nobody}, part : Nat \ {0},
                aggregates : Seq(Value)]
      /\ Idle.at = "idle" /\ Idle.edition = Nobody
  BY DEF Idle, Place
<1>10. CASE Hash
  BY <1>9, <1>10 DEF Hash, ResumeShapes, private, At
<1>11. ASSUME worker' = Idle, UNCHANGED <<tree, batch>>, stray' \in BOOLEAN,
              spill' \subseteq {"database", "sort"}, interrupts' \in Nat,
              checkpoint' \in {checkpoint, [checkpoint EXCEPT !.aside = FALSE]}
       PROVE  ResumeShapes'
  BY <1>9, <1>11 DEF ResumeShapes, tree, At
<1>12. ASSUME NEW t \in Table, Differs(t) PROVE ResumeShapes'
  BY <1>11, <1>12 DEF Differs, Raise, ResumeShapes
<1>13. CASE RebuildDiffers
  BY <1>11, <1>13 DEF RebuildDiffers, Raise, ResumeShapes
<1>14. CASE AttemptFails
  <2>1. stray' \in BOOLEAN
    BY <1>14 DEF AttemptFails, CutOff, ResumeShapes
  <2>2. interrupts' \in Nat
    BY <1>14 DEF AttemptFails, Interrupt, ResumeShapes
  <2>3. QED
    BY <1>11, <1>14, <2>1, <2>2 DEF AttemptFails, Raise, ResumeShapes
<1>15. CASE AttemptKilled
  <2>1. stray' \in BOOLEAN
    BY <1>15 DEF AttemptKilled, CutOff, ResumeShapes
  <2>2. interrupts' \in Nat
    BY <1>15 DEF AttemptKilled, Interrupt, ResumeShapes
  <2>3. spill' \subseteq {"database", "sort"}
    BY <1>15 DEF AttemptKilled, ResumeShapes
  <2>4. QED
    BY <1>11, <1>15, <2>1, <2>2, <2>3 DEF AttemptKilled, ResumeShapes, private
<1>16. CASE CleanSpill
  BY <1>16 DEF CleanSpill, ResumeShapes, tree, private, At
<1>17. ASSUME NEW e \in Edition, Resume(e) PROVE ResumeShapes'
  <2>1. CASE Loadable
    <3>1. worker' = [Attempt("batches", e) EXCEPT !.aggregates = checkpoint.parts]
          /\ checkpoint' = [checkpoint EXCEPT !.aside = FALSE]
      BY <1>17, <2>1 DEF Resume
    <3>2. worker' = [at |-> "batches", edition |-> e, part |-> 1, aggregates |-> checkpoint.parts]
      BY <3>1 DEF Attempt, Idle
    <3>3. worker' \in [at : Place, edition : Edition \cup {Nobody},
                       part : Nat \ {0}, aggregates : Seq(Value)]
      BY <3>2 DEF Place, ResumeShapes
    <3>4. checkpoint' \in [parts : Seq(Value), complete : BOOLEAN, aside : BOOLEAN]
      BY <3>1 DEF ResumeShapes
    <3>5. worker'.at # "idle" /\ worker'.edition # Nobody
      BY <3>2, ResumeAssumption
    <3>6. QED
      BY <1>17, <3>3, <3>4, <3>5 DEF Resume, ResumeShapes, tree, At
  <2>2. CASE ~Loadable
    <3>1. worker' = Attempt("rebuild", e) /\ checkpoint' = Restarted
      BY <1>17, <2>2 DEF Resume
    <3>2. worker' = [at |-> "rebuild", edition |-> e, part |-> 1, aggregates |-> <<>>]
      BY <3>1 DEF Attempt, Idle
    <3>3. worker' \in [at : Place, edition : Edition \cup {Nobody},
                       part : Nat \ {0}, aggregates : Seq(Value)]
      BY <3>2 DEF Place
    <3>4. QED
      BY <1>17, <3>1, <3>2, <3>3, ResumeAssumption DEF Resume, Restarted, ResumeShapes, tree, At
  <2>3. QED
    BY <2>1, <2>2
<1>18. CASE UNCHANGED resumeVars
  BY <1>18 DEF resumeVars, tree, private, ResumeShapes, At
<1>19. QED
  BY <1>1, <1>2, <1>4, <1>5, <1>6, <1>7, <1>8, <1>10, <1>12, <1>13, <1>14, <1>15, <1>16, <1>17,
     <1>18 DEF ResumeNext, Build

\* A leaf written: where the worker goes, and what stays as it was.
LEMMA Onwards ==
  ASSUME ResumeShapes, Begun, Progress, NEW t \in Table, WriteLeaf(t)
  PROVE  /\ worker.at = t /\ worker'.edition = worker.edition
         /\ Finished(t) => worker'.at = After[t] /\ worker'.part = 1 /\ Full(t)'
         /\ ~Finished(t) => worker'.at = t /\ worker'.part = worker.part + 1
         /\ \A u \in Table : Full(u) => Full(u)' /\ leaf'[u] = leaf[u]
         /\ \A u \in Table : leaf[u] # <<>> => leaf'[u] # <<>>
         /\ UNCHANGED <<hashed, checkpoint>>
<1>1. worker.at = t /\ worker' = Later(t) /\ UNCHANGED <<hashed, checkpoint>>
  BY DEF WriteLeaf, At, private
<1>2. /\ worker'.edition = worker.edition
      /\ worker'.at = IF Finished(t) THEN After[worker.at] ELSE worker.at
      /\ worker'.part = IF Finished(t) THEN 1 ELSE worker.part + 1
  BY <1>1, WorkerAfter
<1>3. \A u \in Table : Full(u) => leaf'[u] = leaf[u]
  BY Written
<1>4. \A u \in Table : leaf[u] # <<>> => leaf'[u] # <<>>
  <2>1. leaf[t] \in Seq(Content) /\ leaf'[t] \in Seq(Content)
    BY Written DEF ResumeShapes
  <2>2. leaf[t] # <<>> => Len(leaf[t]) > 0
    BY <2>1
  <2>3. leaf[t] # <<>> => leaf'[t] # <<>>
    BY <2>1, <2>2, Written
  <2>4. QED
    BY <2>3, Written
<1>5. Finished(t) => Full(t)'
  <2>1. Len(leaf'[t]) \in Nat /\ Leaves[t] \in Nat
    BY Written, ResumeAssumption
  <2>2. QED
    BY <2>1, Written DEF Finished, Full
<1>6. \A u \in Table : Full(u) => Full(u)'
  BY <1>3 DEF Full
<1>7. QED
  BY <1>1, <1>2, <1>3, <1>4, <1>5, <1>6

\* One table before another.
LEMMA BegunAfter ==
  ASSUME ResumeShapes, Begun, Progress, NEW t \in Table, WriteLeaf(t),
         NEW u \in Table, NEW v \in Table, leaf[v] # <<>> => Full(u), t = v => Full(u)
  PROVE  leaf'[v] # <<>> => Full(u)'
<1>1. CASE t = v
  BY <1>1, Onwards
<1>2. CASE t # v
  BY <1>2, Onwards, Written
<1>3. QED
  BY <1>1, <1>2

LEMMA TableNames ==
  /\ "primary" \in Table /\ "critical" \in Table /\ "ketiv" \in Table
  /\ "critical_core_profile" \in Table /\ "hebrew_qere_ketiv" \in Table /\ "evaluation" \in Table
  /\ "nulls" \in Table /\ "candidates" \in Table /\ "queue" \in Table
BY DEF Table, Ranking, Comparison, FromCandidates

LEMMA BegunStep == RInv /\ [ResumeNext]_resumeVars => Begun'
<1> SUFFICES ASSUME RInv, [ResumeNext]_resumeVars PROVE Begun'
  OBVIOUS
<1> USE DEF RInv
<1>1. ASSUME NEW t \in Table, WriteLeaf(t) PROVE Begun'
  <2>1. worker.at = t
    BY <1>1, Onwards
  <2>2. \A u \in Table : Len(leaf'[u]) <= Leaves[u]
    BY <1>1, Written DEF Begun
  <2>3. leaf'["critical"] # <<>> => Full("primary")'
    BY <1>1, <2>1, BegunAfter, TableNames DEF Begun, Progress, At
  <2>4. leaf'["ketiv"] # <<>> => Full("critical")'
    BY <1>1, <2>1, BegunAfter, TableNames DEF Begun, Progress, At
  <2>5. leaf'["critical_core_profile"] # <<>> => Full("ketiv")'
    BY <1>1, <2>1, BegunAfter, TableNames DEF Begun, Progress, At
  <2>6. leaf'["hebrew_qere_ketiv"] # <<>> => Full("critical_core_profile")'
    BY <1>1, <2>1, BegunAfter, TableNames DEF Begun, Progress, At
  <2>7. QED
    BY <2>2, <2>3, <2>4, <2>5, <2>6 DEF Begun
<1>2. leaf' = leaf => Begun'
  BY DEF Begun, Full
<1>3. \/ \E t \in Table : WriteLeaf(t)
      \/ leaf' = leaf
  BY Steps DEF Rebuild, Complete, WriteBatch, Assemble, SetAside, Describe, Hash, Resume, Ends,
               Rests, tree
<1>4. QED
  BY <1>1, <1>2, <1>3

\* The steps that write no leaf leave the leaves alone.
LEMMA Elsewhere ==
  ASSUME [ResumeNext]_resumeVars, \A t \in Table : ~WriteLeaf(t)
  PROVE  leaf' = leaf
BY Steps DEF Rebuild, Complete, WriteBatch, Assemble, SetAside, Describe, Hash, Resume, Ends,
             Rests, tree

\* What the steps of the worker that write no leaf do to it.
LEMMA WorkerElsewhere ==
  ASSUME ResumeShapes, [ResumeNext]_resumeVars, \A t \in Table : ~WriteLeaf(t)
  PROVE  \/ /\ At("rebuild") /\ worker'.edition = worker.edition
            /\ worker'.at = IF Finished("primary") THEN "complete" ELSE "rebuild"
            /\ worker'.part = IF Finished("primary") THEN 1 ELSE worker.part + 1
         \/ /\ worker.at \in {"complete", "batches", "quarantine", "metadata"}
            /\ worker'.at = After[worker.at] /\ worker'.part = 1
            /\ worker'.edition = worker.edition /\ worker'.aggregates = worker.aggregates
         \/ At("idle") /\ Inventoried /\ worker'.at \in {"rebuild", "batches"} /\ worker'.part = 1
         \/ worker'.at = "idle"
         \/ worker' = worker
<1>1. CASE Rebuild
  BY <1>1, WorkerAfter, Order, TableNames DEF Rebuild, At
<1>2. CASE Complete \/ Assemble \/ SetAside \/ Describe
  BY <1>2, WorkerMoved DEF Complete, Assemble, SetAside, Describe, At
<1>3. ASSUME NEW e \in Edition, Resume(e)
      PROVE  At("idle") /\ Inventoried /\ worker'.at \in {"rebuild", "batches"} /\ worker'.part = 1
  BY <1>3 DEF Resume, Attempt, Idle
<1>4. Hash \/ Ends => worker'.at = "idle"
  BY DEF Hash, Ends, Idle
<1>5. WriteBatch \/ Rests => worker' = worker
  BY DEF WriteBatch, Rests
<1>6. QED
  BY <1>1, <1>2, <1>3, <1>4, <1>5, Steps

LEMMA Lengths ==
  ASSUME ResumeShapes, NEW t \in Table
  PROVE  /\ Len(leaf[t]) \in Nat /\ Leaves[t] \in Nat \ {0}
         /\ leaf[t] # <<>> <=> Len(leaf[t]) > 0
         /\ Full(t) => leaf[t] # <<>>
<1>1. leaf[t] \in Seq(Content) /\ Leaves[t] \in Nat \ {0}
  BY ResumeAssumption DEF ResumeShapes
<1>2. QED
  BY <1>1 DEF Full

\* Comparisons that are begun stand on rankings that are full.
LEMMA CountedWhenBegun ==
  ASSUME ResumeShapes, Begun, leaf["hebrew_qere_ketiv"] # <<>>
  PROVE  Counted
BY Lengths, TableNames DEF Begun, Counted

LEMMA InventoriedCounted ==
  ASSUME ResumeShapes, Begun, Inventoried
  PROVE  Counted
BY CountedWhenBegun, Lengths, TableNames DEF Inventoried, Comparison

\* The last ranking or comparison begun or written, those before it are full.
LEMMA CountedAfter ==
  ASSUME ResumeShapes, Begun, Progress, NEW t \in Table, WriteLeaf(t), t = "hebrew_qere_ketiv",
         leaf'["hebrew_qere_ketiv"] # <<>>
  PROVE  Counted'
<1>1. Full("critical_core_profile")
  BY Onwards DEF Progress, At
<1>2. Full("primary") /\ Full("critical") /\ Full("ketiv")
  BY <1>1, Lengths, TableNames DEF Begun
<1>3. \A u \in Table : Full(u) => Full(u)'
  BY Onwards
<1>4. QED
  BY <1>1, <1>2, <1>3, TableNames DEF Counted

LEMMA ProgressStep == RInv /\ [ResumeNext]_resumeVars => Progress'
<1> SUFFICES ASSUME RInv, [ResumeNext]_resumeVars PROVE Progress'
  OBVIOUS
<1> USE DEF RInv
<1>1. ASSUME NEW t \in Table, WriteLeaf(t) PROVE Progress'
  <2>1. /\ worker.at = t
        /\ Finished(t) => worker'.at = After[t] /\ worker'.part = 1 /\ Full(t)'
        /\ ~Finished(t) => worker'.at = t /\ worker'.part = worker.part + 1
        /\ \A u \in Table : Full(u) => Full(u)'
        /\ \A u \in Table : leaf[u] # <<>> => leaf'[u] # <<>>
    BY <1>1, Onwards
  <2>2. Counted => Counted'
    BY <2>1, TableNames DEF Counted
  <2>3. ResumeShapes' /\ Begun'
    BY ShapesStep, BegunStep
  <2>4. \A u \in Table : Len(leaf'[u]) \in Nat /\ Leaves[u] \in Nat \ {0}
    <3>1. ASSUME NEW u \in Table PROVE Len(leaf'[u]) \in Nat
      <4>1. leaf'[u] \in Seq(Content)
        BY <2>3 DEF ResumeShapes
      <4>2. QED
        BY <4>1
    <3>2. QED
      BY <3>1, ResumeAssumption
  <2>5. \A u \in Table : At(u)' => worker'.part <= Len(leaf'[u]) + 1 /\ worker'.part <= Leaves[u]
    <3>1. CASE Finished(t)
      BY <2>1, <2>4, <3>1 DEF At
    <3>2. CASE ~Finished(t)
      <4>1. worker.part \in 1..Leaves[t] /\ worker.part <= Len(leaf'[t])
        BY <1>1, Written
      <4>2. worker.part # Leaves[t]
        BY <3>2 DEF Finished
      <4>3. QED
        BY <2>1, <2>4, <3>2, <4>1, <4>2 DEF At
    <3>3. QED
      BY <3>1, <3>2
  <2>6. CASE ~Finished(t)
    <3>1. worker'.at = worker.at /\ worker'.at \in Table
      BY <2>1, <2>6
    <3>2. worker'.at # "rebuild"
      BY <3>1, Unlettered
    <3>3. QED
      BY <2>1, <2>2, <2>5, <3>1, <3>2, TableNames DEF Progress, At
  <2>7. CASE Finished(t)
    <3>1. worker'.at = After[t] /\ Full(t)' /\ worker'.at # "rebuild"
      BY <2>1, <2>7, Order DEF Table, Ranking, Comparison, FromCandidates
    <3>2. t \in {"primary", "critical", "ketiv", "critical_core_profile"} => Progress'
      BY <2>5, <3>1, Order DEF Progress, At
    <3>3. t = "hebrew_qere_ketiv" => Progress'
      <4>1. t = "hebrew_qere_ketiv" => Counted'
        <5>1. t = "hebrew_qere_ketiv" => leaf'["hebrew_qere_ketiv"] # <<>>
          <6>1. leaf'[t] \in Seq(Content) /\ Leaves[t] \in Nat \ {0} /\ Len(leaf'[t]) = Leaves[t]
            BY <2>3, <3>1, ResumeAssumption DEF ResumeShapes, Full
          <6>2. QED
            BY <6>1
        <5>2. QED
          BY <1>1, <5>1, CountedAfter
      <4>2. QED
        BY <2>5, <3>1, <4>1, Order DEF Progress, At
    <3>4. t \in {"evaluation", "nulls", "candidates", "queue"} => Progress'
      <4>1. t \in {"evaluation", "nulls", "candidates", "queue"} => Counted
        BY <2>1 DEF Progress
      <4>2. QED
        BY <2>1, <2>2, <2>5, <3>1, <4>1, Order, TableNames DEF Progress, At
    <3>5. QED
      BY <3>2, <3>3, <3>4 DEF Table, Ranking, Comparison, FromCandidates
  <2>8. QED
    BY <2>6, <2>7
<1>2. ASSUME \A t \in Table : ~WriteLeaf(t) PROVE Progress'
  <2>1. leaf' = leaf
    BY <1>2, Elsewhere
  <2>2. (\A t \in Table : Full(t)' <=> Full(t)) /\ (Counted' <=> Counted)
    BY <2>1, TableNames DEF Full, Counted
  <2>3. \A t \in Table : Len(leaf[t]) \in Nat /\ Leaves[t] \in Nat \ {0}
    BY Lengths
  <2>4. CASE At("rebuild") /\ worker'.at \in {"rebuild", "complete"}
             /\ worker'.part = IF Finished("primary") THEN 1 ELSE worker.part + 1
    <3>1. worker'.part <= Leaves["primary"]
      <4>1. /\ worker.part \in Nat /\ worker.part <= Leaves["primary"]
            /\ Leaves["primary"] \in Nat \ {0}
        BY <2>3, <2>4, TableNames DEF Progress, ResumeShapes
      <4>2. QED
        BY <2>4, <4>1 DEF Finished
    <3>2. Counted
      BY <2>4 DEF Progress, At
    <3>3. \A t \in Table : ~At(t)'
      BY <2>4, Unlettered DEF At
    <3>4. QED
      BY <2>2, <2>4, <3>1, <3>2, <3>3 DEF Progress, At
  <2>5. CASE worker.at \in {"complete", "batches", "quarantine", "metadata"}
             /\ worker'.at = After[worker.at] /\ worker'.part = 1
    <3>1. Counted /\ worker'.at \in {"batches", "evaluation", "metadata", "hashes"}
      BY <2>5, Order DEF Progress
    <3>2. \A t \in Table : 1 <= Len(leaf'[t]) + 1 /\ 1 <= Leaves[t]
      BY <2>1, <2>3
    <3>3. QED
      BY <2>2, <2>5, <3>1, <3>2, Order, TableNames DEF Progress, At
  <2>6. CASE At("idle") /\ Inventoried /\ worker'.at \in {"rebuild", "batches"} /\ worker'.part = 1
    <3>1. Counted
      BY <2>6, InventoriedCounted
    <3>2. \A t \in Table : 1 <= Leaves[t] /\ ~At(t)'
      BY <2>3, <2>6, Unlettered DEF At
    <3>3. QED
      BY <2>2, <2>6, <3>1, <3>2, TableNames DEF Progress, At
  <2>7. CASE worker'.at = "idle"
    BY <2>7, Unlettered DEF Progress, At
  <2>8. CASE worker' = worker
    BY <2>1, <2>2, <2>8, TableNames DEF Progress, At
  <2>9. QED
    BY <1>2, <2>4, <2>5, <2>6, <2>7, <2>8, WorkerElsewhere DEF At
<1>3. QED
  BY <1>1, <1>2

\* Nothing that is sealed is written to again.
LEMMA SealedStep == RInv /\ [ResumeNext]_resumeVars => Sealed'
<1> SUFFICES ASSUME RInv, [ResumeNext]_resumeVars PROVE Sealed'
  OBVIOUS
<1> USE DEF RInv
<1>1. ASSUME NEW t \in Table, WriteLeaf(t) PROVE Sealed'
  <2>1. hashed' = hashed /\ worker.at = t
    BY <1>1, Onwards
  <2>2. QED
    BY <2>1, Unlettered DEF Sealed, At
<1>2. ASSUME leaf' = leaf, hashed' = hashed, ~At("idle") \/ hashed = Nobody \/ worker' = worker
             \/ worker'.at = "idle"
      PROVE  Sealed'
  BY <1>2 DEF Sealed, Counted, Full, At
<1>3. Rebuild \/ Complete \/ WriteBatch \/ Assemble \/ SetAside \/ Describe => Sealed'
  <2>1. Rebuild \/ Complete \/ WriteBatch \/ Assemble \/ SetAside \/ Describe =>
          leaf' = leaf /\ hashed' = hashed /\ ~At("idle")
    BY DEF Rebuild, Complete, WriteBatch, Assemble, SetAside, Describe, tree, At
  <2>2. QED
    BY <1>2, <2>1
<1>4. CASE Hash
  BY <1>4, TableNames DEF Hash, Sealed, Progress, Counted, Full, At, FromCandidates, Idle
<1>5. ASSUME NEW e \in Edition, Resume(e) PROVE Sealed'
  BY <1>2, <1>5 DEF Resume, Adoptable, tree
<1>6. Ends \/ Rests => Sealed'
  BY <1>2 DEF Ends, Rests, tree, Idle
<1>7. QED
  BY <1>1, <1>3, <1>4, <1>5, <1>6, Steps

\* A part of the primary rankings made: the worker's aggregates go with those
\* that stand, and are sound with the last.
LEMMA PartMade ==
  ASSUME ResumeShapes, Aggregating, worker.at \in {"primary", "rebuild"},
         worker.part \in 1..Leaves["primary"], worker' = Later("primary"),
         NEW l, l \in Seq(Content), worker.part <= Len(l), Len(l) <= Leaves["primary"],
         Len(leaf["primary"]) <= Len(l),
         \A i \in 1..Len(leaf["primary"]) : l[i] = leaf["primary"][i],
         l[worker.part] = Computed("primary")
  PROVE  /\ worker'.edition = worker.edition
         /\ ~Finished("primary") =>
              /\ worker'.at = worker.at /\ worker'.part = worker.part + 1
              /\ worker'.aggregates = [i \in 1..worker.part |-> Mine("aggregates")]
              /\ \A i \in 1..worker.part :
                   i <= Len(l) /\ l[i] = [rows |-> Mine("primary"), from |-> <<>>]
         /\ Finished("primary") =>
              /\ worker'.at = After[worker.at]
              /\ worker'.aggregates = AggregatesOf(worker.edition) /\ Len(l) = Leaves["primary"]
              /\ \A i \in 1..Leaves["primary"] :
                   l[i] = [rows |-> Rows[worker.edition]["primary"], from |-> <<>>]
<1>1. /\ worker'.edition = worker.edition
      /\ worker'.at = IF Finished("primary") THEN After[worker.at] ELSE worker.at
      /\ worker'.part = IF Finished("primary") THEN 1 ELSE worker.part + 1
      /\ worker'.aggregates = Append(worker.aggregates, Mine("aggregates"))
  BY WorkerAfter, TableNames
<1>2. worker.edition \in Edition /\ Leaves["primary"] \in Nat \ {0}
  BY ResumeAssumption, TableNames DEF ResumeShapes, At
<1>3. Computed("primary") = [rows |-> Mine("primary"), from |-> <<>>]
  BY DEF Computed, FromCandidates
<1>4. worker.aggregates = [i \in 1..(worker.part - 1) |-> Mine("aggregates")]
  BY DEF Aggregating
<1>5. \A i \in 1..worker.part :
        i <= Len(l) /\ l[i] = [rows |-> Mine("primary"), from |-> <<>>]
  <2>1. ASSUME NEW i \in 1..(worker.part - 1)
        PROVE  i <= Len(l) /\ l[i] = [rows |-> Mine("primary"), from |-> <<>>]
    <3>1. i <= Len(leaf["primary"])
          /\ leaf["primary"][i] = [rows |-> Mine("primary"), from |-> <<>>]
      BY <2>1 DEF Aggregating, Partly
    <3>2. Len(leaf["primary"]) \in Nat /\ Len(l) \in Nat
      BY Lengths, TableNames
    <3>3. QED
      BY <3>1, <3>2
  <2>2. QED
    BY <1>3, <2>1
<1>6. CASE ~Finished("primary")
  <2>1. Append(worker.aggregates, Mine("aggregates"))
          = [i \in 1..worker.part |-> Mine("aggregates")]
    BY <1>4
  <2>2. QED
    BY <1>1, <1>5, <1>6, <2>1
<1>7. CASE Finished("primary")
  <2>1. worker.part = Leaves["primary"] /\ Len(l) = Leaves["primary"]
    <3>1. Len(l) \in Nat
      OBVIOUS
    <3>2. QED
      BY <1>2, <1>7, <3>1 DEF Finished
  <2>2. worker.aggregates
          = [i \in 1..(Leaves["primary"] - 1) |-> Rows[worker.edition]["aggregates"]]
    BY <1>4, <2>1 DEF Mine
  <2>3. Append(worker.aggregates, Rows[worker.edition]["aggregates"]) = AggregatesOf(worker.edition)
    BY <1>2, <2>2 DEF AggregatesOf
  <2>4. QED
    BY <1>1, <1>5, <1>7, <2>1, <2>3 DEF Mine
<1>8. QED
  BY <1>6, <1>7

\* Full primary rankings stay, and what is sound with them.
LEMMA SoundKept ==
  ASSUME Full("primary") => leaf'["primary"] = leaf["primary"]
  PROVE  /\ worker'.aggregates = worker.aggregates /\ Sound(worker.aggregates)
              => Sound(worker.aggregates)'
         /\ checkpoint'.parts = checkpoint.parts /\ Sound(checkpoint.parts)
              => Sound(checkpoint.parts)'
         /\ worker'.aggregates = checkpoint.parts /\ Sound(checkpoint.parts)
              => Sound(worker.aggregates)'
<1>1. ASSUME NEW a \in Edition, AllOf("primary", [rows |-> Rows[a]["primary"], from |-> <<>>])
      PROVE  AllOf("primary", [rows |-> Rows[a]["primary"], from |-> <<>>])'
  BY <1>1 DEF AllOf, Full
<1>2. QED
  BY <1>1 DEF Sound, AggregatesOf

LEMMA AggregatingStep == RInv /\ [ResumeNext]_resumeVars => Aggregating'
<1> SUFFICES ASSUME RInv, [ResumeNext]_resumeVars PROVE Aggregating'
  OBVIOUS
<1> USE DEF RInv
\* A worker past the aggregates, or none, and a tree whose primary rankings stay.
<1>1. ASSUME Full("primary") => leaf'["primary"] = leaf["primary"],
             checkpoint'.complete => checkpoint.complete /\ checkpoint'.parts = checkpoint.parts,
             worker'.at \notin {"primary", "rebuild", "complete"},
             \/ worker'.at = "idle"
             \/ /\ worker.at \notin {"idle", "primary", "rebuild"}
                /\ worker'.aggregates = worker.aggregates
      PROVE  Aggregating'
  <2>1. checkpoint'.complete => Sound(checkpoint.parts)'
    BY <1>1, SoundKept DEF Aggregating
  <2>2. worker'.at # "idle" => Sound(worker.aggregates)'
    BY <1>1, SoundKept DEF Aggregating
  <2>3. QED
    BY <1>1, <2>1, <2>2 DEF Aggregating
<1>2. ASSUME NEW t \in Table, WriteLeaf(t), t # "primary" PROVE Aggregating'
  <2>1. worker.at = t /\ worker' = Later(t) /\ UNCHANGED checkpoint
    BY <1>2 DEF WriteLeaf, At, private
  <2>2. worker'.at \in {t, After[t]} /\ worker'.aggregates = worker.aggregates
    BY <1>2, <2>1, WorkerAfter
  <2>3. worker'.at \notin {"primary", "rebuild", "complete"}
    BY <1>2, <2>2, Order DEF Table, Ranking, Comparison, FromCandidates
  <2>4. leaf'["primary"] = leaf["primary"]
    BY <1>2, Written, TableNames
  <2>5. worker.at \notin {"idle", "primary", "rebuild"}
    BY <1>2, <2>1, Unlettered
  <2>6. QED
    BY <1>1, <2>1, <2>2, <2>3, <2>4, <2>5
<1>3. CASE WriteLeaf("primary")
  <2>1. worker.at = "primary" /\ worker' = Later("primary") /\ UNCHANGED checkpoint
    BY <1>3 DEF WriteLeaf, At, private
  <2>2. /\ worker'.edition = worker.edition
        /\ ~Finished("primary") =>
             /\ worker'.at = worker.at /\ worker'.part = worker.part + 1
             /\ worker'.aggregates = [i \in 1..worker.part |-> Mine("aggregates")]
             /\ \A i \in 1..worker.part :
                  i <= Len(leaf'["primary"])
                  /\ leaf'["primary"][i] = [rows |-> Mine("primary"), from |-> <<>>]
        /\ Finished("primary") =>
             /\ worker'.at = After[worker.at]
             /\ worker'.aggregates = AggregatesOf(worker.edition)
             /\ Len(leaf'["primary"]) = Leaves["primary"]
             /\ \A i \in 1..Leaves["primary"] :
                  leaf'["primary"][i] = [rows |-> Rows[worker.edition]["primary"], from |-> <<>>]
    <3>1. /\ worker.part \in 1..Leaves["primary"] /\ worker.part <= Len(leaf'["primary"])
          /\ leaf'["primary"] \in Seq(Content) /\ Len(leaf'["primary"]) <= Leaves["primary"]
          /\ Len(leaf["primary"]) <= Len(leaf'["primary"])
          /\ \A i \in 1..Len(leaf["primary"]) : leaf'["primary"][i] = leaf["primary"][i]
          /\ leaf'["primary"][worker.part] = Computed("primary")
      BY <1>3, Written, TableNames
    <3>2. QED
      BY <2>1, <3>1, PartMade
  <2>3. checkpoint.complete => Sound(checkpoint.parts)'
    <3>1. Full("primary") => leaf'["primary"] = leaf["primary"]
      BY <1>3, Onwards, TableNames
    <3>2. QED
      BY <2>1, <3>1, SoundKept DEF Aggregating
  <2>4. worker.edition \in Edition /\ worker.part \in Nat \ {0}
    BY <2>1 DEF ResumeShapes, At
  <2>5. CASE ~Finished("primary")
    <3>1. worker'.at = "primary" /\ worker'.part - 1 = worker.part
      BY <2>1, <2>2, <2>4, <2>5
    <3>2. QED
      BY <2>1, <2>2, <2>3, <2>5, <3>1 DEF Aggregating, Partly, Mine
  <2>6. CASE Finished("primary")
    <3>1. worker'.at = "critical"
      BY <2>1, <2>2, <2>6, Order
    <3>2. Sound(worker.aggregates)'
      BY <2>2, <2>4, <2>6 DEF Sound, AllOf, AggregatesOf
    <3>3. QED
      BY <2>1, <2>3, <3>1, <3>2 DEF Aggregating
  <2>7. QED
    BY <2>5, <2>6
<1>4. CASE Rebuild
  <2>1. worker.at = "rebuild" /\ worker' = Later("primary") /\ leaf' = leaf
        /\ leaf["primary"][worker.part] = Computed("primary")
        /\ checkpoint' = [checkpoint EXCEPT !.parts = Append(@, Mine("aggregates"))]
    BY <1>4 DEF Rebuild, tree, At
  <2>2. Full("primary") /\ worker.part \in 1..Leaves["primary"] /\ Leaves["primary"] \in Nat \ {0}
    <3>1. Full("primary") /\ worker.part <= Leaves["primary"]
      BY <2>1 DEF Progress, Counted, At
    <3>2. worker.part \in Nat \ {0} /\ Leaves["primary"] \in Nat \ {0}
      BY ResumeAssumption, TableNames DEF ResumeShapes
    <3>3. QED
      BY <3>1, <3>2
  <2>3. /\ worker'.edition = worker.edition
        /\ ~Finished("primary") =>
             /\ worker'.at = worker.at /\ worker'.part = worker.part + 1
             /\ worker'.aggregates = [i \in 1..worker.part |-> Mine("aggregates")]
             /\ \A i \in 1..worker.part :
                  i <= Len(leaf["primary"])
                  /\ leaf["primary"][i] = [rows |-> Mine("primary"), from |-> <<>>]
        /\ Finished("primary") =>
             /\ worker'.at = After[worker.at]
             /\ worker'.aggregates = AggregatesOf(worker.edition)
             /\ Len(leaf["primary"]) = Leaves["primary"]
             /\ \A i \in 1..Leaves["primary"] :
                  leaf["primary"][i] = [rows |-> Rows[worker.edition]["primary"], from |-> <<>>]
    <3>1. leaf["primary"] \in Seq(Content) /\ Len(leaf["primary"]) = Leaves["primary"]
      BY <2>2, TableNames DEF ResumeShapes, Full
    <3>2. worker.part <= Len(leaf["primary"])
      BY <2>2, <3>1
    <3>3. Len(leaf["primary"]) <= Leaves["primary"] /\ Len(leaf["primary"]) <= Len(leaf["primary"])
      BY <2>2, <3>1
    <3>4. QED
      BY <2>1, <2>2, <3>1, <3>2, <3>3, PartMade
  <2>4. checkpoint.parts = worker.aggregates /\ ~checkpoint.complete
    BY <2>1 DEF Aggregating
  <2>5. checkpoint'.parts = worker'.aggregates /\ ~checkpoint'.complete
    <3>1. worker'.aggregates = Append(worker.aggregates, Mine("aggregates"))
      BY <2>1, WorkerAfter, TableNames
    <3>2. QED
      BY <2>1, <2>4, <3>1 DEF ResumeShapes
  <2>6. worker.edition \in Edition
    BY <2>1 DEF ResumeShapes, At
  <2>7. CASE ~Finished("primary")
    <3>1. worker'.at = "rebuild" /\ worker'.part - 1 = worker.part
      BY <2>1, <2>2, <2>3, <2>7
    <3>2. QED
      BY <2>1, <2>3, <2>5, <2>7, <3>1 DEF Aggregating, Partly, Mine
  <2>8. CASE Finished("primary")
    <3>1. worker'.at = "complete"
      BY <2>1, <2>3, <2>8, Order
    <3>2. Sound(worker.aggregates)'
      BY <2>1, <2>3, <2>6, <2>8 DEF Sound, AllOf, AggregatesOf
    <3>3. QED
      BY <2>5, <3>1, <3>2 DEF Aggregating
  <2>9. QED
    BY <2>7, <2>8
<1>5. CASE Complete
  <2>1. /\ worker.at = "complete" /\ worker'.at = "batches" /\ leaf' = leaf
        /\ worker'.aggregates = worker.aggregates
        /\ checkpoint'.complete /\ checkpoint'.parts = checkpoint.parts
    BY <1>5, WorkerMoved, Order DEF Complete, tree, At, ResumeShapes
  <2>2. Sound(worker.aggregates)' /\ worker.aggregates = checkpoint.parts
    BY <2>1, SoundKept DEF Aggregating
  <2>3. Sound(checkpoint.parts)'
    BY <2>1, <2>2, SoundKept DEF Aggregating
  <2>4. QED
    BY <2>1, <2>2, <2>3 DEF Aggregating
<1>6. Assemble \/ SetAside \/ Describe => Aggregating'
  <2>1. Assemble \/ SetAside \/ Describe =>
          /\ worker.at \in {"batches", "quarantine", "metadata"} /\ Advance /\ leaf' = leaf
          /\ checkpoint'.complete = checkpoint.complete /\ checkpoint'.parts = checkpoint.parts
    BY DEF Assemble, SetAside, Describe, tree, private, At, ResumeShapes
  <2>2. QED
    BY <1>1, <2>1, WorkerMoved, Order
<1>7. WriteBatch \/ Rests => Aggregating'
  <2>1. WriteBatch \/ Rests => leaf' = leaf /\ worker' = worker /\ checkpoint' = checkpoint
    BY DEF WriteBatch, Rests, tree
  <2>2. ASSUME leaf' = leaf, worker' = worker, checkpoint' = checkpoint PROVE Aggregating'
    <3>1. checkpoint'.complete => Sound(checkpoint.parts)'
      BY <2>2, SoundKept DEF Aggregating
    <3>2. worker'.at \notin {"idle", "primary", "rebuild"} => Sound(worker.aggregates)'
      BY <2>2, SoundKept DEF Aggregating
    <3>3. QED
      BY <2>2, <3>1, <3>2 DEF Aggregating, Partly, Mine
  <2>3. QED
    BY <2>1, <2>2
<1>8. CASE Hash
  BY <1>1, <1>8 DEF Hash, private, Idle
<1>9. CASE Ends
  <2>1. worker'.at = "idle" /\ leaf' = leaf
        /\ checkpoint'.complete = checkpoint.complete /\ checkpoint'.parts = checkpoint.parts
    BY <1>9 DEF Ends, tree, Idle, ResumeShapes
  <2>2. QED
    BY <1>1, <2>1
<1>10. ASSUME NEW e \in Edition, Resume(e) PROVE Aggregating'
  <2>1. CASE Loadable
    <3>1. /\ worker'.at = "batches" /\ worker'.aggregates = checkpoint.parts /\ leaf' = leaf
          /\ checkpoint.complete
          /\ checkpoint'.complete = checkpoint.complete /\ checkpoint'.parts = checkpoint.parts
      BY <1>10, <2>1 DEF Resume, Loadable, Attempt, Idle, tree, ResumeShapes
    <3>2. Sound(worker.aggregates)' /\ Sound(checkpoint.parts)'
      BY <3>1, SoundKept DEF Aggregating
    <3>3. QED
      BY <3>1, <3>2 DEF Aggregating
  <2>2. CASE ~Loadable
    <3>1. /\ worker' = [at |-> "rebuild", edition |-> e, part |-> 1, aggregates |-> <<>>]
          /\ checkpoint' = Restarted
      BY <1>10, <2>2 DEF Resume, Attempt, Idle
    <3>2. checkpoint'.parts = <<>> /\ checkpoint'.complete = FALSE
      BY <3>1 DEF Restarted
    <3>3. 1..(worker'.part - 1) = {} /\ worker'.at = "rebuild" /\ worker'.aggregates = <<>>
      BY <3>1
    <3>4. [i \in 1..(worker'.part - 1) |-> Mine("aggregates")'] = <<>>
      BY <3>3
    <3>5. QED
      BY <3>2, <3>3, <3>4 DEF Aggregating, Partly
  <2>3. QED
    BY <2>1, <2>2
<1>11. QED
  BY <1>2, <1>3, <1>4, <1>5, <1>6, <1>7, <1>8, <1>9, <1>10, Steps

\* The leaves of nulls, candidates and queue are one attempt's, or equal to its.
LEMMA FollowingStep == RInv /\ [ResumeNext]_resumeVars => Following'
<1> SUFFICES ASSUME RInv, [ResumeNext]_resumeVars PROVE Following'
  OBVIOUS
<1> USE DEF RInv
<1>1. ASSUME NEW t \in Table, WriteLeaf(t), t \notin FromCandidates PROVE Following'
  <2>1. worker'.at \in {t, After[t]} /\ (worker'.at # t => worker'.part = 1)
    BY <1>1, Onwards
  <2>2. worker'.at \in {"nulls", "candidates", "queue"} => worker'.at = "nulls" /\ worker'.part = 1
    BY <1>1, <2>1, Order DEF Table, Ranking, Comparison, FromCandidates
  <2>3. worker'.at \notin {"candidates", "queue", "quarantine", "metadata", "hashes"}
    BY <1>1, <2>1, Order DEF Table, Ranking, Comparison, FromCandidates
  <2>4. 1..(1 - 1) = {}
    OBVIOUS
  <2>5. QED
    BY <2>2, <2>3, <2>4 DEF Following, Partly, FromCandidates, At
<1>2. ASSUME NEW t \in FromCandidates, WriteLeaf(t) PROVE Following'
  <2>1. t \in Table /\ t # "primary"
    BY DEF Table, FromCandidates
  <2>2. /\ worker.at = t /\ worker'.edition = worker.edition
        /\ worker'.aggregates = worker.aggregates
    BY <1>2, <2>1, Onwards, WorkerAfter DEF WriteLeaf
  <2>3. /\ Finished(t) => worker'.at = After[t] /\ worker'.part = 1 /\ Full(t)'
        /\ ~Finished(t) => worker'.at = t /\ worker'.part = worker.part + 1
        /\ \A u \in Table : u # t => leaf'[u] = leaf[u]
    BY <1>2, <2>1, Onwards, Written
  <2>4. Computed(t) = [rows |-> Mine(t), from |-> worker.aggregates]
    BY <1>2 DEF Computed, FromCandidates
  <2>5. \A i \in 1..worker.part :
          i <= Len(leaf'[t]) /\ leaf'[t][i] = [rows |-> Mine(t), from |-> worker.aggregates]
    <3>1. /\ worker.part <= Len(leaf'[t]) /\ worker.part \in Nat
          /\ Len(leaf[t]) <= Len(leaf'[t]) /\ leaf'[t][worker.part] = Computed(t)
          /\ \A i \in 1..Len(leaf[t]) : leaf'[t][i] = leaf[t][i]
          /\ Len(leaf'[t]) \in Nat /\ Len(leaf[t]) \in Nat
      <4>1. leaf[t] \in Seq(Content) /\ leaf'[t] \in Seq(Content)
        BY <1>2, <2>1, Written DEF ResumeShapes
      <4>2. QED
        BY <1>2, <2>1, <4>1, Written DEF ResumeShapes
    <3>2. ASSUME NEW i \in 1..(worker.part - 1)
          PROVE  i <= Len(leaf'[t]) /\ leaf'[t][i] = [rows |-> Mine(t), from |-> worker.aggregates]
      <4>1. i <= Len(leaf[t]) /\ leaf[t][i] = [rows |-> Mine(t), from |-> worker.aggregates]
        BY <2>2, <3>2 DEF Following, Partly, At
      <4>2. QED
        BY <3>1, <4>1
    <3>3. \A i \in 1..worker.part : i \in 1..(worker.part - 1) \/ i = worker.part
      BY <3>1
    <3>4. QED
      BY <2>4, <3>1, <3>2, <3>3
  <2>6. /\ worker.at \in {"candidates", "queue"} => Made("nulls")'
        /\ worker.at = "queue" => Made("candidates")'
    <3>1. worker.at \in {"candidates", "queue"} => Made("nulls") /\ leaf'["nulls"] = leaf["nulls"]
      BY <2>2, <2>3, TableNames DEF Following
    <3>2. worker.at = "queue" => Made("candidates") /\ leaf'["candidates"] = leaf["candidates"]
      BY <2>2, <2>3, TableNames DEF Following
    <3>3. QED
      BY <2>2, <3>1, <3>2 DEF Made, AllOf, Mine
  <2>7. CASE ~Finished(t)
    <3>1. worker'.at = t /\ worker'.part - 1 = worker.part
      <4>1. worker.part \in Nat \ {0}
        BY DEF ResumeShapes
      <4>2. QED
        BY <2>3, <2>7, <4>1
    <3>2. Partly(t, [rows |-> Mine(t), from |-> worker.aggregates])'
      BY <2>2, <2>5, <3>1 DEF Partly, Mine
    <3>3. QED
      BY <2>2, <2>6, <3>1, <3>2 DEF Following, FromCandidates, At
  <2>8. CASE Finished(t)
    <3>1. Made(t)'
      BY <2>2, <2>3, <2>5, <2>8 DEF Made, AllOf, Mine, Full, Finished
    <3>2. worker'.at = After[t] /\ 1..(worker'.part - 1) = {}
      BY <2>3, <2>8
    <3>3. QED
      BY <2>2, <2>6, <3>1, <3>2, Order DEF Following, Partly, FromCandidates, At
  <2>9. QED
    BY <2>7, <2>8
<1>3. ASSUME \A t \in Table : ~WriteLeaf(t) PROVE Following'
  <2>1. leaf' = leaf
    BY <1>3, Elsewhere
  <2>2. CASE worker'.at \in {"idle", "rebuild", "complete", "batches", "evaluation"}
    BY <2>2 DEF Following, FromCandidates, At
  <2>3. CASE /\ worker.at \in {"quarantine", "metadata"} /\ worker'.at \in {"metadata", "hashes"}
             /\ worker'.edition = worker.edition /\ worker'.aggregates = worker.aggregates
    BY <2>1, <2>3 DEF Following, FromCandidates, At, Made, AllOf, Mine
  <2>4. CASE worker' = worker
    BY <2>1, <2>4 DEF Following, At, Made, AllOf, Mine, Partly
  <2>5. QED
    BY <1>3, <2>2, <2>3, <2>4, WorkerElsewhere, Order
<1>4. QED
  BY <1>1, <1>2, <1>3

LEMMA SealingStep == RInv /\ [ResumeNext]_resumeVars => CandidatesFollowRankings'
<1> SUFFICES ASSUME RInv, [ResumeNext]_resumeVars PROVE CandidatesFollowRankings'
  OBVIOUS
<1> USE DEF RInv
<1>1. CASE Hash
  <2>1. worker.at = "hashes" /\ hashed' = worker.edition /\ leaf' = leaf
    BY <1>1 DEF Hash, At
  <2>2. Sound(worker.aggregates) /\ Made("nulls") /\ Made("candidates") /\ Made("queue")
    BY <2>1 DEF Aggregating, Following
  <2>3. PICK a \in Edition :
          /\ AllOf("primary", [rows |-> Rows[a]["primary"], from |-> <<>>])
          /\ worker.aggregates = AggregatesOf(a)
    BY <2>2 DEF Sound
  <2>4. ASSUME NEW t \in FromCandidates
        PROVE  AllOf(t, [rows |-> Rows[worker.edition][t], from |-> AggregatesOf(a)])
    BY <2>2, <2>3 DEF Made, Mine, FromCandidates
  <2>5. QED
    BY <2>1, <2>3, <2>4 DEF CandidatesFollowRankings, AllOf, AggregatesOf
<1>2. ASSUME leaf' = leaf, hashed' = hashed PROVE CandidatesFollowRankings'
  BY <1>2 DEF CandidatesFollowRankings, AllOf, AggregatesOf
<1>3. ASSUME hashed' = Nobody PROVE CandidatesFollowRankings'
  BY <1>3 DEF CandidatesFollowRankings
<1>4. ASSUME NEW t \in Table, WriteLeaf(t) PROVE hashed' = Nobody
  <2>1. worker.at = t /\ hashed' = hashed
    BY <1>4, Onwards
  <2>2. QED
    BY <2>1, Unlettered DEF Sealed, At
<1>5. Rebuild \/ Complete \/ WriteBatch \/ Assemble \/ SetAside \/ Describe \/ Ends \/ Rests
        => leaf' = leaf /\ hashed' = hashed
  BY DEF Rebuild, Complete, WriteBatch, Assemble, SetAside, Describe, Ends, Rests, tree
<1>6. ASSUME NEW e \in Edition, Resume(e) PROVE leaf' = leaf /\ hashed' = hashed
  BY <1>6 DEF Resume, tree
<1>7. QED
  BY <1>1, <1>2, <1>3, <1>4, <1>5, <1>6, Steps

LEMMA ResumeStarts == ResumeInit => RInv
<1> SUFFICES ASSUME ResumeInit PROVE RInv
  OBVIOUS
<1>1. PICK e \in Edition : worker = Attempt("primary", e)
  BY DEF ResumeInit
<1>2. worker = [at |-> "primary", edition |-> e, part |-> 1, aggregates |-> <<>>]
  BY <1>1 DEF Attempt, Idle
<1>3. EmptyTree /\ \A t \in Table : leaf[t] = <<>>
  BY DEF ResumeInit, EmptyTree
<1>4. Leaves \in [Table -> Nat \ {0}] /\ Nobody \notin Edition
  BY ResumeAssumption
<1>5. ResumeShapes
  <2>1. leaf \in [Table -> Seq(Content)]
    BY <1>3 DEF EmptyTree
  <2>2. worker \in [at : Place, edition : Edition \cup {Nobody}, part : Nat \ {0},
                    aggregates : Seq(Value)]
    BY <1>2 DEF Place, Table, Ranking
  <2>3. QED
    BY <1>2, <1>3, <1>4, <2>1, <2>2 DEF ResumeShapes, EmptyTree, At
<1>6. Begun
  BY <1>3, <1>4, TableNames DEF Begun
<1>7. Progress
  BY <1>2, <1>3, <1>4 DEF Progress, At
<1>8. Sealed /\ CandidatesFollowRankings
  BY <1>3 DEF Sealed, CandidatesFollowRankings, EmptyTree
<1>9. Aggregating
  <2>1. 1..(worker.part - 1) = {}
    BY <1>2
  <2>2. worker.aggregates = [i \in 1..(worker.part - 1) |-> Mine("aggregates")]
    BY <1>2, <2>1
  <2>3. QED
    BY <1>2, <1>3, <2>1, <2>2 DEF Aggregating, Partly, EmptyTree
<1>10. Following
  BY <1>2 DEF Following, FromCandidates, At
<1>11. QED
  BY <1>5, <1>6, <1>7, <1>8, <1>9, <1>10 DEF RInv

THEOREM ResumeInvariant == ResumeSpec => []RInv
<1>1. RInv /\ [ResumeNext]_resumeVars => RInv'
  BY ShapesStep, BegunStep, ProgressStep, SealedStep, AggregatingStep, FollowingStep, SealingStep
  DEF RInv
<1>2. QED
  BY ResumeStarts, <1>1, PTL DEF ResumeSpec

\* The variables of LexicalResume keep their shapes.
THEOREM ResumeTypes == ResumeSpec => []ResumeShapes
<1>1. RInv => ResumeShapes
  BY DEF RInv
<1>2. QED
  BY ResumeInvariant, <1>1, PTL

\* Whatever editions made the attempts and wherever they broke off, the
\* candidates of a sealed tree follow from its rankings.
THEOREM ResumeFollowsRankings == ResumeSpec => []CandidatesFollowRankings
<1>1. RInv => CandidatesFollowRankings
  BY DEF RInv
<1>2. QED
  BY ResumeInvariant, <1>1, PTL

\* Of a sealed tree only the last comparison may lack leaves.
THEOREM ResumeLacksLittle == ResumeSpec => []OnlyTheLastComparisonMayLack
<1>1. ASSUME RInv, hashed # Nobody, NEW t \in Table
      PROVE  Len(leaf[t]) > 0 /\ (t # "hebrew_qere_ketiv" => Len(leaf[t]) = Leaves[t])
  <2>1. t # "hebrew_qere_ketiv" => Full(t)
    BY <1>1 DEF RInv, Sealed, Counted, Table, Ranking, Comparison
  <2>2. leaf["hebrew_qere_ketiv"] # <<>>
    BY <1>1 DEF RInv, Sealed, Counted
  <2>3. QED
    BY <1>1, <2>1, <2>2, Lengths DEF RInv, Full
<1>2. RInv => OnlyTheLastComparisonMayLack
  BY <1>1 DEF OnlyTheLastComparisonMayLack
<1>3. QED
  BY ResumeInvariant, <1>2, PTL

\* A complete checkpoint and the batches made outlast every attempt: only a
\* rebuild empties the checkpoint, and none runs beside a complete one.
THEOREM ResumeKeepsCheckpoint == ResumeSpec => CheckpointSurvives
<1> DEFINE Stays == checkpoint.complete =>
                      checkpoint'.complete /\ checkpoint'.parts = checkpoint.parts
           Grows == SubSeq(batch', 1, Len(batch)) = batch
<1>1. ASSUME RInv, [ResumeNext]_resumeVars PROVE Stays /\ Grows
  <2>1. batch \in Seq(Value) /\ SubSeq(batch, 1, Len(batch)) = batch
    BY <1>1 DEF RInv, ResumeShapes
  <2>2. ASSUME NEW t \in Table, WriteLeaf(t) PROVE Stays /\ Grows
    BY <2>1, <2>2 DEF WriteLeaf, private
  <2>3. CASE Rebuild
    BY <1>1, <2>1, <2>3 DEF Rebuild, RInv, Aggregating, At
  <2>4. CASE Complete
    BY <1>1, <2>1, <2>4 DEF Complete, RInv, ResumeShapes
  <2>5. CASE WriteBatch
    <3>1. Mine("batch") \in Value
      BY <1>1, <2>5, Computing DEF WriteBatch, RInv, At, Output
    <3>2. SubSeq(Append(batch, Mine("batch")), 1, Len(batch)) = batch
      BY <2>1, <3>1
    <3>3. QED
      BY <2>5, <3>2 DEF WriteBatch
  <2>6. Assemble \/ SetAside \/ Describe \/ Hash => Stays /\ Grows
    BY <1>1, <2>1 DEF Assemble, SetAside, Describe, Hash, private, RInv, ResumeShapes
  <2>7. ASSUME NEW e \in Edition, Resume(e) PROVE Stays /\ Grows
    BY <1>1, <2>1, <2>7 DEF Resume, Loadable, RInv, ResumeShapes
  <2>8. Ends \/ Rests => Stays /\ Grows
    BY <1>1, <2>1 DEF Ends, Rests, RInv, ResumeShapes
  <2>9. QED
    BY <1>1, <2>2, <2>3, <2>4, <2>5, <2>6, <2>7, <2>8, Steps
<1>2. RInv /\ [ResumeNext]_resumeVars => [Stays /\ Grows]_resumeVars
  BY <1>1
<1>3. QED
  BY ResumeInvariant, <1>2, PTL DEF ResumeSpec, CheckpointSurvives
=============================================================================
