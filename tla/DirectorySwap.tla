--------------------------- MODULE DirectorySwap ----------------------------
(***************************************************************************)
(* How a build replaces a directory of artifacts.  The tree is written     *)
(* into a hidden staging directory next to the output; the standing output *)
(* is renamed to a hidden backup, the staging tree is renamed into place,  *)
(* the backup is removed, and a failure on the way puts the backup back.   *)
(* Nine writers of the repository do this, in five styles:                 *)
(*                                                                         *)
(*   "corpus"     corpus/storage.py, corpus/greek_storage.py,              *)
(*                corpus/kq_supplement.py, acquire/sources.py and, but for *)
(*                the exceptions it catches, lexical/sparse.py             *)
(*   "segment"    segment/storage.py: the writer is a context manager,     *)
(*                whose abort() runs in finalize and again in __exit__     *)
(*   "benchmark"  benchmarks/storage.py: the backup is removed in a        *)
(*                finally clause                                           *)
(*   "review"     final_discovery/review.py: the backup is put back by the *)
(*                handler around the second rename only                    *)
(*   "demo"       reports/build_week_demo.py: the same without the second  *)
(*                test for --force                                         *)
(*                                                                         *)
(* A build is one run of such a writer.  Staging and backup carry a uuid   *)
(* of the build, so a second run never sees those of a first, and nothing  *)
(* keeps two builds of one output from running at the same time.           *)
(***************************************************************************)
EXTENDS Naturals

CONSTANTS
  Build,          \* runs of the writers of one output directory
  Style,          \* the styles under study
  PriorTree,      \* the tree an earlier program left at the output
  NoTree,         \* the path does not exist
  MaxMishaps      \* bound on failed calls, interrupts and deaths

Tree == Build \cup {PriorTree}

ASSUME SwapAssumption ==
  /\ Style \subseteq {"corpus", "segment", "benchmark", "review", "demo"}
  /\ PriorTree \notin Build
  /\ NoTree \notin Tree
  /\ MaxMishaps \in Nat

VARIABLES
  style,          \* which program the builds of this behaviour are runs of
  force,          \* the builds that were given --force
  output,         \* the tree at the output path; a tree has its build's name
  backup,         \* the tree at the backup path of a build
  staging,        \* what is at its staging path
  step,           \* where a build is
  again,          \* it is in the second of its two abort() calls
  cut,            \* history: trees of which a removal deleted a part
  shown,          \* history: there has been a tree at the output
  overlapped,     \* history: two builds have run at the same time
  mishaps         \* mishaps so far

place == <<output, backup, cut, shown>>
control == <<style, force, overlapped>>
swapVars == <<place, staging, step, again, control, mishaps>>

Resting == {"idle", "published", "failed", "dead"}
Step == Resting \cup {"write", "recheck", "look", "displace", "place", "restore",
                      "discard", "abort", "putback"}
Active(b) == step[b] \notin Resting

Goto(b, s) == step' = [step EXCEPT ![b] = s]
Calm == UNCHANGED mishaps
Mishap == mishaps < MaxMishaps /\ mishaps' = mishaps + 1

SwapInit ==
  /\ style \in Style
  /\ force \in SUBSET Build
  /\ output \in {NoTree, PriorTree}
  /\ backup = [b \in Build |-> NoTree]
  /\ staging = [b \in Build |-> "absent"]
  /\ step = [b \in Build |-> "idle"]
  /\ again = [b \in Build |-> FALSE]
  /\ cut = {}
  /\ shown = (output # NoTree)
  /\ overlapped = FALSE
  /\ mishaps = 0

(***************************************************************************)
(* Up to the promotion                                                     *)
(***************************************************************************)

\* An output that stands is refused without --force; otherwise the build has
\* the staging directory to itself.
Start(b) ==
  /\ step[b] = "idle"
  /\ IF output # NoTree /\ b \notin force
       THEN Goto(b, "failed") /\ UNCHANGED <<staging, overlapped>>
       ELSE /\ Goto(b, "write")
            /\ staging' = [staging EXCEPT ![b] = "partial"]
            /\ overlapped' = (overlapped \/ \E c \in Build \ {b} : Active(c))
  /\ UNCHANGED <<place, again, style, force>> /\ Calm

\* The tables, their hashes and the manifest are in the staging directory.
Write(b) ==
  /\ step[b] = "write"
  /\ staging' = [staging EXCEPT ![b] = "whole"]
  /\ Goto(b, IF style \in {"benchmark", "review"} THEN "recheck" ELSE "look")
  /\ UNCHANGED <<place, again, control>> /\ Calm

WriteFails(b) ==
  /\ step[b] = "write"
  /\ Goto(b, "abort")
  /\ UNCHANGED <<place, staging, again, control>> /\ Mishap

\* _promote of benchmarks and _publish_directory of reviews ask for --force
\* once more.
Recheck(b) ==
  /\ step[b] = "recheck"
  /\ Goto(b, IF output # NoTree /\ b \notin force THEN "abort" ELSE "look")
  /\ UNCHANGED <<place, staging, again, control>> /\ Calm

(***************************************************************************)
(* The promotion.  A test for a path and the rename it guards are two      *)
(* steps; a rename is one, and fails when its source is gone or a tree     *)
(* stands at its target.                                                   *)
(***************************************************************************)
Look(b) ==
  /\ step[b] = "look"
  /\ Goto(b, IF output # NoTree THEN "displace" ELSE "place")
  /\ UNCHANGED <<place, staging, again, control>> /\ Calm

\* Where an exception of the first rename is caught.
NotDisplaced(b) == Goto(b, IF style = "benchmark" THEN "restore" ELSE "abort")

\* Mutant: the standing output is removed instead of moved aside.
DisplaceByRemoval(b) ==
  /\ step[b] = "displace"
  /\ output' = NoTree
  /\ Goto(b, "place")
  /\ UNCHANGED <<backup, cut, shown, staging, again, control>> /\ Calm

Displace(b) ==
  /\ step[b] = "displace"
  /\ IF output = NoTree
       THEN NotDisplaced(b) /\ UNCHANGED place
       ELSE /\ backup' = [backup EXCEPT ![b] = output]
            /\ output' = NoTree
            /\ Goto(b, "place")
            /\ UNCHANGED <<cut, shown>>
  /\ UNCHANGED <<staging, again, control>> /\ Calm

DisplaceFails(b) ==
  /\ step[b] = "displace"
  /\ NotDisplaced(b)
  /\ UNCHANGED <<place, staging, again, control>> /\ Mishap

Place(b) ==
  /\ step[b] = "place"
  /\ IF output = NoTree
       THEN /\ output' = b
            /\ shown' = TRUE
            /\ staging' = [staging EXCEPT ![b] = "absent"]
            /\ Goto(b, "discard")
            /\ UNCHANGED <<backup, cut>>
       ELSE Goto(b, "restore") /\ UNCHANGED <<place, staging>>
  /\ UNCHANGED <<again, control>> /\ Calm

PlaceFails(b) ==
  /\ step[b] = "place"
  /\ Goto(b, "restore")
  /\ UNCHANGED <<place, staging, again, control>> /\ Mishap

\* Mutant: the test asks for an output that is there.
ReturnableInverted(b) == backup[b] # NoTree /\ output # NoTree

\* The backup exists, the output does not: rename the one to the other.
Returnable(b) == backup[b] # NoTree /\ output = NoTree

MoveBack(b) ==
  IF Returnable(b)
    THEN /\ output' = backup[b]
         /\ backup' = [backup EXCEPT ![b] = NoTree]
         /\ UNCHANGED <<cut, shown>>
    ELSE UNCHANGED place

\* The handler around the second rename.
AfterRestore == IF style = "benchmark" THEN "discard" ELSE "abort"

Restore(b) ==
  /\ step[b] = "restore"
  /\ MoveBack(b)
  /\ Goto(b, AfterRestore)
  /\ UNCHANGED <<staging, again, control>> /\ Calm

RestoreFails(b) ==
  /\ step[b] = "restore" /\ Returnable(b)
  /\ Goto(b, AfterRestore)
  /\ UNCHANGED <<place, staging, again, control>> /\ Mishap

\* The backup is removed: after the new tree is in place or, in benchmarks,
\* on every way out of the try statement.
AfterDiscard(b) == IF staging[b] = "absent" THEN "published" ELSE "abort"

Discard(b) ==
  /\ step[b] = "discard"
  /\ backup' = [backup EXCEPT ![b] = NoTree]
  /\ Goto(b, AfterDiscard(b))
  /\ UNCHANGED <<output, cut, shown, staging, again, control>> /\ Calm

\* Removing a tree goes file by file: one that fails has removed a part.
DiscardFails(b) ==
  /\ step[b] = "discard" /\ backup[b] # NoTree
  /\ cut' = cut \cup {backup[b]}
  /\ Goto(b, "abort")
  /\ UNCHANGED <<output, backup, shown, staging, again, control>> /\ Mishap

(***************************************************************************)
(* After an exception: the staging tree goes and in corpus and segment the *)
(* backup is put back once more.  In segment all of it happens twice.      *)
(***************************************************************************)

\* The styles whose handler removes the staging tree and does no more.
NoPutBack == {"benchmark", "review", "demo"}

EndOfPass(b) ==
  IF style = "segment" /\ ~again[b]
    THEN Goto(b, "abort") /\ again' = [again EXCEPT ![b] = TRUE]
    ELSE Goto(b, "failed") /\ UNCHANGED again

Abort(b) ==
  /\ step[b] = "abort"
  /\ staging' = [staging EXCEPT ![b] = "absent"]
  /\ IF style \in NoPutBack THEN EndOfPass(b)
       ELSE Goto(b, "putback") /\ UNCHANGED again
  /\ UNCHANGED <<place, control>> /\ Calm

AbortFails(b) ==
  /\ step[b] = "abort" /\ staging[b] # "absent"
  /\ staging' = [staging EXCEPT ![b] = "partial"]
  /\ EndOfPass(b)
  /\ UNCHANGED <<place, control>> /\ Mishap

PutBack(b) ==
  /\ step[b] = "putback"
  /\ MoveBack(b)
  /\ EndOfPass(b)
  /\ UNCHANGED <<staging, control>> /\ Calm

PutBackFails(b) ==
  /\ step[b] = "putback" /\ Returnable(b)
  /\ EndOfPass(b)
  /\ UNCHANGED <<place, staging, control>> /\ Mishap

\* A removal that stops with its build may have removed a part.
MayCut(b) ==
  \/ UNCHANGED cut
  \/ step[b] = "discard" /\ backup[b] # NoTree /\ cut' = cut \cup {backup[b]}

\* Inside the try statement of benchmarks' _promote.
Guarded == {"look", "displace", "place", "restore"}

\* KeyboardInterrupt is no Exception: no handler of corpus, review and demo
\* sees it, which is Die; in segment __exit__ aborts; in benchmarks the
\* finally clause and __exit__ run.
Interrupt(b) ==
  /\ Active(b) /\ style \in {"segment", "benchmark"}
  /\ \/ /\ style = "benchmark"
        /\ Goto(b, CASE step[b] \in Guarded -> "discard"
                     [] step[b] = "abort" -> "failed"
                     [] OTHER -> "abort")
        /\ UNCHANGED again
     \/ /\ style = "segment"
        /\ Goto(b, IF again[b] THEN "failed" ELSE "abort")
        /\ again' = [again EXCEPT ![b] = TRUE]
  /\ MayCut(b)
  /\ UNCHANGED <<output, backup, shown, staging, control>> /\ Mishap

\* The process is gone; what it left on disk stays.
Die(b) ==
  /\ Active(b)
  /\ Goto(b, "dead")
  /\ MayCut(b)
  /\ UNCHANGED <<output, backup, shown, staging, again, control>> /\ Mishap

Work(b) ==
  \/ Start(b) \/ Write(b) \/ Recheck(b) \/ Look(b) \/ Displace(b) \/ Place(b)
  \/ Restore(b) \/ Discard(b) \/ Abort(b) \/ PutBack(b)

Trouble(b) ==
  \/ WriteFails(b) \/ DisplaceFails(b) \/ PlaceFails(b) \/ RestoreFails(b)
  \/ DiscardFails(b) \/ AbortFails(b) \/ PutBackFails(b) \/ Interrupt(b) \/ Die(b)

SwapNext == \E b \in Build : Work(b) \/ Trouble(b)

SwapSpec == SwapInit /\ [][SwapNext]_swapVars

(***************************************************************************)
(* Properties                                                              *)
(***************************************************************************)

SwapTypeOK ==
  /\ style \in Style /\ force \subseteq Build
  /\ output \in Tree \cup {NoTree}
  /\ backup \in [Build -> Tree \cup {NoTree}]
  /\ staging \in [Build -> {"absent", "partial", "whole"}]
  /\ step \in [Build -> Step]
  /\ again \in [Build -> BOOLEAN]
  /\ cut \subseteq Tree
  /\ shown \in BOOLEAN /\ overlapped \in BOOLEAN
  /\ mishaps \in 0 .. MaxMishaps

\* A whole tree is at the output or in a backup.
Kept == \/ output \notin cut \cup {NoTree}
        \/ \E b \in Build : backup[b] \notin cut \cup {NoTree}

\* Once there has been a tree at the output, a whole one is there or in a
\* backup: whatever fails, is interrupted or dies between the renames, and
\* however the renames of several builds are interleaved, the artifacts of
\* hours are not lost.
TreeSurvives == shown /\ style # "benchmark" => Kept

\* The same of the benchmark artifacts, whose replacement the documents call
\* atomic (docs/decisions/0014-known-link-benchmark-identity-tiering-mapping-
\* and-leakage-control.md:115).  The finally clause removes the backup also
\* when an interrupt came between the renames.
BenchmarkTreeSurvives == shown /\ style = "benchmark" => Kept

\* When no build is running and none has died, the output is there again
\* after any one failed call or interrupt, with any number of builds getting
\* in each other's way.  Two can leave the path empty: abort() removes the
\* staging directory first, and when that fails after an interrupt it does
\* not come to put the backup back.
OutputComesBack ==
  /\ shown /\ style # "benchmark" /\ mishaps < 2
  /\ \A b \in Build : step[b] \in Resting \ {"dead"}
  => output # NoTree

\* Builds that run one after the other never show a tree of which a part was
\* removed, whatever fails: the backup that could not be removed is put back
\* only where no tree stands, and then the new one does.
OutputIsWhole == output \in cut => overlapped
=============================================================================
