---------------------------- MODULE MCLexicalRun ----------------------------
(***************************************************************************)
(* Small instances for TLC of a lexical run: the build of its staging tree *)
(* (LexicalResume) and the promotion of what it built (LexicalPromotion).  *)
(* What the first seals is what the second calls a sealed tree, and        *)
(* neither reads other state of the other; so a behaviour is of one of     *)
(* them, and the variables of the other rest.  Three runs of a promotion   *)
(* are enough for a sealed result, a replacement cut off, and one after    *)
(* that.                                                                   *)
(***************************************************************************)
EXTENDS LexicalPromotion, MCLexicalResume

VARIABLE part

MCInit ==
  /\ part \in {"resume", "promotion"}
  /\ Init
  /\ IF part = "resume" THEN ResumeInit ELSE EmptyTree /\ worker = Idle

\* Nothing is left to do with a tree that is sealed or lost.
Rest == (hashed # Nobody \/ Lost) /\ UNCHANGED resumeVars

MCNext ==
  /\ UNCHANGED part
  /\ \/ part = "promotion" /\ Next /\ UNCHANGED resumeVars
     \/ part = "resume" /\ (ResumeNext \/ Rest) /\ UNCHANGED vars

\* The fairness of the two specifications.
MCFairSpec ==
  /\ MCInit /\ [][MCNext]_<<part, vars, resumeVars>>
  /\ WF_vars(Work) /\ SF_vars(journal # None /\ Command("finalization"))
  /\ WF_resumeVars(part = "resume" /\ Build)
  /\ \A e \in Edition : SF_resumeVars(part = "resume" /\ Resume(e))
  /\ SF_resumeVars(part = "resume" /\ CleanSpill)

\* What LexicalPromotion and LexicalResume say, of the behaviours of each.
PromotionResolves == part = "promotion" => JournalResolves
AttemptsReachSeal == part = "resume" => ResumeFinishes
=============================================================================
