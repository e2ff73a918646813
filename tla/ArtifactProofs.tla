--------------------------- MODULE ArtifactProofs ---------------------------
(***************************************************************************)
(* Proofs about the three modules of artifacts on disk: DirectorySwap,     *)
(* BenchmarkLeakage and RecoveryImport.  They share nothing; each part     *)
(* has an inductive invariant and theorems of its own.                     *)
(***************************************************************************)
EXTENDS DirectorySwap, BenchmarkLeakage, RecoveryImport, TLAPS

(***************************************************************************)
(* Replacing a directory loses no tree, for any number of builds and of    *)
(* mishaps.  The invariant follows each tree to the one place it is at,    *)
(* and the argument is about who holds the last whole one: a build that is *)
(* removing its backup has put its own tree in the place before.           *)
(***************************************************************************)

\* Before its second rename the tree of a build is nowhere but in staging,
\* and before its first one the build holds no backup.
Early == {"idle", "write", "recheck", "look", "displace", "place"}

Fresh ==
  \A b \in Build :
    /\ step[b] \in Early => output # b /\ b \notin cut /\ \A c \in Build : backup[c] # b
    /\ step[b] \in Early \ {"place"} => backup[b] = NoTree

\* A tree is at one path only.
OnePlace ==
  \A c \in Build :
    backup[c] # NoTree =>
      backup[c] # output /\ \A d \in Build : d # c => backup[d] # backup[c]

\* The whole tree that survives is not in a backup that is being removed.
Survivor ==
  shown /\ style # "benchmark" =>
    \/ output \notin cut \cup {NoTree}
    \/ \E b \in Build : backup[b] \notin cut \cup {NoTree} /\ step[b] # "discard"

Alone == ~overlapped => \A b, c \in Build : Active(b) /\ Active(c) => b = c

\* Without another build, a backup of which a part is gone is no longer put
\* back, or only by abort() and while an output stands.
CutIsHidden ==
  /\ \A b \in Build : style \in NoPutBack => step[b] # "putback"
  /\ ~overlapped =>
       /\ output \notin cut
       /\ \A b \in Build : backup[b] \in cut => step[b] \notin {"place", "restore"}
       /\ style # "benchmark" =>
            \A b \in Build : Active(b) /\ (backup[b] \in cut \/ step[b] = "discard") =>
              output # NoTree

\* Nobody is in the second abort() before it has failed in the first.
FirstPass == \A b \in Build : step[b] \in {"displace", "place", "restore"} \cup Early => ~again[b]

\* While the output is away, somebody with a backup will still put a tree
\* there, if at most one mishap happens and nobody dies.
SomeoneReturnsIt ==
  /\ shown /\ style # "benchmark" /\ mishaps < 2 /\ output = NoTree
  /\ \A b \in Build : step[b] # "dead"
  => \E b \in Build : /\ backup[b] # NoTree
                      /\ \/ step[b] = "place"
                         \/ step[b] = "restore" /\ mishaps >= 1
                         \/ /\ step[b] \in {"abort", "putback"} /\ mishaps >= 1
                            /\ style \notin NoPutBack

SwapInv == /\ SwapTypeOK /\ Fresh /\ OnePlace /\ Survivor /\ Alone /\ CutIsHidden
        /\ FirstPass /\ SomeoneReturnsIt
-----------------------------------------------------------------------------
(* The invariant *)

LEMMA SwapInitEstablishes == SwapInit => SwapInv
<1> SUFFICES ASSUME SwapInit PROVE SwapInv
  OBVIOUS
<1>1. shown \in BOOLEAN /\ (shown <=> output # NoTree)
  BY DEF SwapInit
<1>2. SwapTypeOK
  <2>1. style \in Style /\ force \subseteq Build /\ output \in Tree \cup {NoTree}
        /\ cut \subseteq Tree
    BY DEF SwapInit, Tree
  <2>2. again \in [Build -> BOOLEAN] /\ overlapped \in BOOLEAN
    BY DEF SwapInit
  <2>3. backup \in [Build -> Tree \cup {NoTree}] /\ step \in [Build -> Step]
        /\ staging \in [Build -> {"absent", "partial", "whole"}]
    BY DEF SwapInit, Step, Resting
  <2>4. mishaps \in 0 .. MaxMishaps
    BY SwapAssumption DEF SwapInit
  <2> QED BY <1>1, <2>1, <2>2, <2>3, <2>4 DEF SwapTypeOK
<1>3. Fresh /\ OnePlace /\ FirstPass
  BY SwapAssumption DEF SwapInit, Fresh, OnePlace, FirstPass, Tree, Early
<1>4. Survivor /\ SomeoneReturnsIt
  BY <1>1 DEF SwapInit, Survivor, SomeoneReturnsIt
<1>5. Alone /\ CutIsHidden
  BY DEF SwapInit, Alone, CutIsHidden, Active, Resting, NoPutBack
<1> QED BY <1>2, <1>3, <1>4, <1>5 DEF SwapInv

\* Every step keeps the types.
LEMMA SwapTypeOKKept ==
  ASSUME SwapInv, NEW b \in Build, Work(b) \/ Trouble(b)
  PROVE  SwapTypeOK'
<1>0. SwapTypeOK
  BY DEF SwapInv
<1>1. CASE Start(b)
  BY <1>0, <1>1, SwapAssumption DEF Start, Goto, Calm, Mishap, place, control,
    SwapInv, SwapTypeOK, Tree, Step, Resting, Active
<1>2. CASE Write(b)
  BY <1>0, <1>2, SwapAssumption DEF Write, Goto, Calm, Mishap, place, control,
    SwapInv, SwapTypeOK, Tree, Step, Resting
<1>3. CASE Recheck(b)
  BY <1>0, <1>3, SwapAssumption DEF Recheck, Goto, Calm, Mishap, place,
    control, SwapInv, SwapTypeOK, Tree, Step, Resting
<1>4. CASE Look(b)
  BY <1>0, <1>4, SwapAssumption DEF Look, Goto, Calm, Mishap, place, control,
    SwapInv, SwapTypeOK, Tree, Step, Resting
<1>5. CASE Displace(b)
  BY <1>0, <1>5, SwapAssumption DEF Displace, Goto, Calm, Mishap, place,
    control, SwapInv, SwapTypeOK, Tree, Step, Resting, NotDisplaced
<1>6. CASE Place(b)
  BY <1>0, <1>6, SwapAssumption DEF Place, Goto, Calm, Mishap, place, control,
    SwapInv, SwapTypeOK, Tree, Step, Resting
<1>7. CASE Restore(b)
  BY <1>0, <1>7, SwapAssumption DEF Restore, Goto, Calm, Mishap, place,
    control, SwapInv, SwapTypeOK, Tree, Step, Resting, MoveBack, Returnable,
    AfterRestore
<1>8. CASE Discard(b)
  BY <1>0, <1>8, SwapAssumption DEF Discard, Goto, Calm, Mishap, place,
    control, SwapInv, SwapTypeOK, Tree, Step, Resting, AfterDiscard
<1>9. CASE Abort(b)
  BY <1>0, <1>9, SwapAssumption DEF Abort, Goto, Calm, Mishap, place, control,
    SwapInv, SwapTypeOK, Tree, Step, Resting, EndOfPass, NoPutBack
<1>10. CASE PutBack(b)
  <2>1. step' \in [Build -> Step] /\ again' \in [Build -> BOOLEAN]
    BY <1>0, <1>10 DEF PutBack, EndOfPass, Goto, SwapTypeOK, Step, Resting
  <2>2. /\ style' = style /\ force' = force /\ overlapped' = overlapped
        /\ output' \in Tree \cup {NoTree} /\ backup' \in [Build -> Tree \cup {NoTree}]
        /\ staging' \in [Build -> {"absent", "partial", "whole"}]
        /\ cut' \subseteq Tree /\ shown' \in BOOLEAN /\ mishaps' \in 0 .. MaxMishaps
    BY <1>0, <1>10, SwapAssumption DEF PutBack, MoveBack, Returnable, Calm, Mishap, place,
      control, SwapTypeOK, Tree
  <2> QED BY <1>0, <2>1, <2>2 DEF SwapTypeOK
<1>11. CASE WriteFails(b)
  BY <1>0, <1>11, SwapAssumption DEF WriteFails, Goto, Calm, Mishap, place,
    control, SwapInv, SwapTypeOK, Tree, Step, Resting
<1>12. CASE DisplaceFails(b)
  BY <1>0, <1>12, SwapAssumption DEF DisplaceFails, Goto, Calm, Mishap, place,
    control, SwapInv, SwapTypeOK, Tree, Step, Resting, NotDisplaced
<1>13. CASE PlaceFails(b)
  BY <1>0, <1>13, SwapAssumption DEF PlaceFails, Goto, Calm, Mishap, place,
    control, SwapInv, SwapTypeOK, Tree, Step, Resting
<1>14. CASE RestoreFails(b)
  BY <1>0, <1>14, SwapAssumption DEF RestoreFails, Goto, Calm, Mishap, place,
    control, SwapInv, SwapTypeOK, Tree, Step, Resting, Returnable, AfterRestore
<1>15. CASE DiscardFails(b)
  BY <1>0, <1>15, SwapAssumption DEF DiscardFails, Goto, Calm, Mishap, place,
    control, SwapInv, SwapTypeOK, Tree, Step, Resting
<1>16. CASE AbortFails(b)
  <2>1. step' \in [Build -> Step] /\ again' \in [Build -> BOOLEAN]
    BY <1>0, <1>16 DEF AbortFails, EndOfPass, Goto, SwapTypeOK, Step, Resting
  <2>2. /\ style' = style /\ force' = force /\ overlapped' = overlapped
        /\ output' \in Tree \cup {NoTree} /\ backup' \in [Build -> Tree \cup {NoTree}]
        /\ staging' \in [Build -> {"absent", "partial", "whole"}]
        /\ cut' \subseteq Tree /\ shown' \in BOOLEAN /\ mishaps' \in 0 .. MaxMishaps
    BY <1>0, <1>16, SwapAssumption DEF AbortFails, EndOfPass, Calm, Mishap, place,
      control, SwapTypeOK, Tree
  <2> QED BY <1>0, <2>1, <2>2 DEF SwapTypeOK
<1>17. CASE PutBackFails(b)
  <2>1. step' \in [Build -> Step] /\ again' \in [Build -> BOOLEAN]
    BY <1>0, <1>17 DEF PutBackFails, EndOfPass, Goto, SwapTypeOK, Step, Resting
  <2>2. /\ style' = style /\ force' = force /\ overlapped' = overlapped
        /\ output' \in Tree \cup {NoTree} /\ backup' \in [Build -> Tree \cup {NoTree}]
        /\ staging' \in [Build -> {"absent", "partial", "whole"}]
        /\ cut' \subseteq Tree /\ shown' \in BOOLEAN /\ mishaps' \in 0 .. MaxMishaps
    BY <1>0, <1>17, SwapAssumption DEF PutBackFails, Returnable, Calm, Mishap, place,
      control, SwapTypeOK, Tree
  <2> QED BY <1>0, <2>1, <2>2 DEF SwapTypeOK
<1>18. CASE Interrupt(b)
  <2>1. step' \in [Build -> Step] /\ again' \in [Build -> BOOLEAN]
    BY <1>0, <1>18 DEF Interrupt, Guarded, Goto, SwapTypeOK, Step, Resting
  <2>2. /\ style' = style /\ force' = force /\ overlapped' = overlapped
        /\ output' \in Tree \cup {NoTree} /\ backup' \in [Build -> Tree \cup {NoTree}]
        /\ staging' \in [Build -> {"absent", "partial", "whole"}]
        /\ cut' \subseteq Tree /\ shown' \in BOOLEAN /\ mishaps' \in 0 .. MaxMishaps
    BY <1>0, <1>18, SwapAssumption DEF Interrupt, MayCut, Calm, Mishap, place,
      control, SwapTypeOK, Tree
  <2> QED BY <1>0, <2>1, <2>2 DEF SwapTypeOK
<1>19. CASE Die(b)
  BY <1>0, <1>19, SwapAssumption DEF Die, Goto, Calm, Mishap, place, control,
    SwapInv, SwapTypeOK, Tree, Step, Resting, MayCut, Active
<1> QED BY <1>1, <1>2, <1>3, <1>4, <1>5, <1>6, <1>7, <1>8, <1>9, <1>10, <1>11,
  <1>12, <1>13, <1>14, <1>15, <1>16, <1>17, <1>18, <1>19 DEF Work, Trouble

\* A tree leaves its staging directory by the rename into place only.
LEMMA FreshKept ==
  ASSUME SwapInv, NEW b \in Build, Work(b) \/ Trouble(b)
  PROVE  Fresh'
<1>0. SwapTypeOK
  BY DEF SwapInv
<1>1. CASE Start(b)
  BY <1>0, <1>1, SwapAssumption DEF Start, Goto, Calm, Mishap, place, control,
    SwapInv, SwapTypeOK, Tree, Fresh, Early, Active, Resting
<1>2. CASE Write(b)
  BY <1>0, <1>2, SwapAssumption DEF Write, Goto, Calm, Mishap, place, control,
    SwapInv, SwapTypeOK, Tree, Fresh, Early
<1>3. CASE Recheck(b)
  BY <1>0, <1>3, SwapAssumption DEF Recheck, Goto, Calm, Mishap, place,
    control, SwapInv, SwapTypeOK, Tree, Fresh, Early
<1>4. CASE Look(b)
  BY <1>0, <1>4, SwapAssumption DEF Look, Goto, Calm, Mishap, place, control,
    SwapInv, SwapTypeOK, Tree, Fresh, Early
<1>5. CASE Displace(b)
  BY <1>0, <1>5, SwapAssumption DEF Displace, Goto, Calm, Mishap, place,
    control, SwapInv, SwapTypeOK, Tree, Fresh, Early, NotDisplaced
<1>6. CASE Place(b)
  BY <1>0, <1>6, SwapAssumption DEF Place, Goto, Calm, Mishap, place, control,
    SwapInv, SwapTypeOK, Tree, Fresh, Early
<1>7. CASE Restore(b)
  BY <1>0, <1>7, SwapAssumption DEF Restore, Goto, Calm, Mishap, place,
    control, SwapInv, SwapTypeOK, Tree, Fresh, Early, MoveBack, Returnable,
    AfterRestore
<1>8. CASE Discard(b)
  BY <1>0, <1>8, SwapAssumption DEF Discard, Goto, Calm, Mishap, place,
    control, SwapInv, SwapTypeOK, Tree, Fresh, Early, AfterDiscard
<1>9. CASE Abort(b)
  BY <1>0, <1>9, SwapAssumption DEF Abort, Goto, Calm, Mishap, place, control,
    SwapInv, SwapTypeOK, Tree, Fresh, Early, EndOfPass, NoPutBack
<1>10. CASE PutBack(b)
  BY <1>0, <1>10, SwapAssumption DEF PutBack, Goto, Calm, Mishap, place,
    control, SwapInv, SwapTypeOK, Tree, Fresh, Early, MoveBack, Returnable,
    EndOfPass
<1>11. CASE WriteFails(b)
  BY <1>0, <1>11, SwapAssumption DEF WriteFails, Goto, Calm, Mishap, place,
    control, SwapInv, SwapTypeOK, Tree, Fresh, Early
<1>12. CASE DisplaceFails(b)
  BY <1>0, <1>12, SwapAssumption DEF DisplaceFails, Goto, Calm, Mishap, place,
    control, SwapInv, SwapTypeOK, Tree, Fresh, Early, NotDisplaced
<1>13. CASE PlaceFails(b)
  BY <1>0, <1>13, SwapAssumption DEF PlaceFails, Goto, Calm, Mishap, place,
    control, SwapInv, SwapTypeOK, Tree, Fresh, Early
<1>14. CASE RestoreFails(b)
  BY <1>0, <1>14, SwapAssumption DEF RestoreFails, Goto, Calm, Mishap, place,
    control, SwapInv, SwapTypeOK, Tree, Fresh, Early, Returnable, AfterRestore
<1>15. CASE DiscardFails(b)
  BY <1>0, <1>15, SwapAssumption DEF DiscardFails, Goto, Calm, Mishap, place,
    control, SwapInv, SwapTypeOK, Tree, Fresh, Early
<1>16. CASE AbortFails(b)
  BY <1>0, <1>16, SwapAssumption DEF AbortFails, Goto, Calm, Mishap, place,
    control, SwapInv, SwapTypeOK, Tree, Fresh, Early, EndOfPass
<1>17. CASE PutBackFails(b)
  BY <1>0, <1>17, SwapAssumption DEF PutBackFails, Goto, Calm, Mishap, place,
    control, SwapInv, SwapTypeOK, Tree, Fresh, Early, Returnable, EndOfPass
<1>18. CASE Interrupt(b)
  BY <1>0, <1>18, SwapAssumption DEF Interrupt, Goto, Calm, Mishap, place,
    control, SwapInv, SwapTypeOK, Tree, Fresh, Early, Guarded, MayCut, Active,
    Resting
<1>19. CASE Die(b)
  BY <1>0, <1>19, SwapAssumption DEF Die, Goto, Calm, Mishap, place, control,
    SwapInv, SwapTypeOK, Tree, Fresh, Early, MayCut, Active, Resting
<1> QED BY <1>1, <1>2, <1>3, <1>4, <1>5, <1>6, <1>7, <1>8, <1>9, <1>10, <1>11,
  <1>12, <1>13, <1>14, <1>15, <1>16, <1>17, <1>18, <1>19 DEF Work, Trouble

\* A rename moves a tree, it does not copy it.
LEMMA OnePlaceKept ==
  ASSUME SwapInv, NEW b \in Build, Work(b) \/ Trouble(b)
  PROVE  OnePlace'
<1>0. SwapTypeOK
  BY DEF SwapInv
<1>1. CASE Start(b)
  BY <1>0, <1>1, SwapAssumption DEF Start, Goto, Calm, Mishap, place, control,
    SwapInv, SwapTypeOK, Tree, OnePlace, Fresh, Early, Active, Resting
<1>2. CASE Write(b)
  BY <1>0, <1>2, SwapAssumption DEF Write, Goto, Calm, Mishap, place, control,
    SwapInv, SwapTypeOK, Tree, OnePlace, Fresh, Early
<1>3. CASE Recheck(b)
  BY <1>0, <1>3, SwapAssumption DEF Recheck, Goto, Calm, Mishap, place,
    control, SwapInv, SwapTypeOK, Tree, OnePlace, Fresh, Early
<1>4. CASE Look(b)
  BY <1>0, <1>4, SwapAssumption DEF Look, Goto, Calm, Mishap, place, control,
    SwapInv, SwapTypeOK, Tree, OnePlace, Fresh, Early
<1>5. CASE Displace(b)
  BY <1>0, <1>5, SwapAssumption DEF Displace, Goto, Calm, Mishap, place,
    control, SwapInv, SwapTypeOK, Tree, OnePlace, Fresh, Early, NotDisplaced
<1>6. CASE Place(b)
  BY <1>0, <1>6, SwapAssumption DEF Place, Goto, Calm, Mishap, place, control,
    SwapInv, SwapTypeOK, Tree, OnePlace, Fresh, Early
<1>7. CASE Restore(b)
  BY <1>0, <1>7, SwapAssumption DEF Restore, Goto, Calm, Mishap, place,
    control, SwapInv, SwapTypeOK, Tree, OnePlace, Fresh, Early, MoveBack,
    Returnable, AfterRestore
<1>8. CASE Discard(b)
  BY <1>0, <1>8, SwapAssumption DEF Discard, Goto, Calm, Mishap, place,
    control, SwapInv, SwapTypeOK, Tree, OnePlace, Fresh, Early, AfterDiscard
<1>9. CASE Abort(b)
  BY <1>0, <1>9, SwapAssumption DEF Abort, Goto, Calm, Mishap, place, control,
    SwapInv, SwapTypeOK, Tree, OnePlace, Fresh, Early, EndOfPass, NoPutBack
<1>10. CASE PutBack(b)
  BY <1>0, <1>10, SwapAssumption DEF PutBack, Goto, Calm, Mishap, place,
    control, SwapInv, SwapTypeOK, Tree, OnePlace, Fresh, Early, MoveBack,
    Returnable, EndOfPass
<1>11. CASE WriteFails(b)
  BY <1>0, <1>11, SwapAssumption DEF WriteFails, Goto, Calm, Mishap, place,
    control, SwapInv, SwapTypeOK, Tree, OnePlace, Fresh, Early
<1>12. CASE DisplaceFails(b)
  BY <1>0, <1>12, SwapAssumption DEF DisplaceFails, Goto, Calm, Mishap, place,
    control, SwapInv, SwapTypeOK, Tree, OnePlace, Fresh, Early, NotDisplaced
<1>13. CASE PlaceFails(b)
  BY <1>0, <1>13, SwapAssumption DEF PlaceFails, Goto, Calm, Mishap, place,
    control, SwapInv, SwapTypeOK, Tree, OnePlace, Fresh, Early
<1>14. CASE RestoreFails(b)
  BY <1>0, <1>14, SwapAssumption DEF RestoreFails, Goto, Calm, Mishap, place,
    control, SwapInv, SwapTypeOK, Tree, OnePlace, Fresh, Early, Returnable,
    AfterRestore
<1>15. CASE DiscardFails(b)
  BY <1>0, <1>15, SwapAssumption DEF DiscardFails, Goto, Calm, Mishap, place,
    control, SwapInv, SwapTypeOK, Tree, OnePlace, Fresh, Early
<1>16. CASE AbortFails(b)
  BY <1>0, <1>16, SwapAssumption DEF AbortFails, Goto, Calm, Mishap, place,
    control, SwapInv, SwapTypeOK, Tree, OnePlace, Fresh, Early, EndOfPass
<1>17. CASE PutBackFails(b)
  BY <1>0, <1>17, SwapAssumption DEF PutBackFails, Goto, Calm, Mishap, place,
    control, SwapInv, SwapTypeOK, Tree, OnePlace, Fresh, Early, Returnable,
    EndOfPass
<1>18. CASE Interrupt(b)
  BY <1>0, <1>18, SwapAssumption DEF Interrupt, Goto, Calm, Mishap, place,
    control, SwapInv, SwapTypeOK, Tree, OnePlace, Fresh, Early, Guarded, MayCut,
    Active, Resting
<1>19. CASE Die(b)
  BY <1>0, <1>19, SwapAssumption DEF Die, Goto, Calm, Mishap, place, control,
    SwapInv, SwapTypeOK, Tree, OnePlace, Fresh, Early, MayCut, Active, Resting
<1> QED BY <1>1, <1>2, <1>3, <1>4, <1>5, <1>6, <1>7, <1>8, <1>9, <1>10, <1>11,
  <1>12, <1>13, <1>14, <1>15, <1>16, <1>17, <1>18, <1>19 DEF Work, Trouble

\* A whole tree passes from output to backup and back, or a newer one
\* stands in its place.
LEMMA SurvivorKept ==
  ASSUME SwapInv, NEW b \in Build, Work(b) \/ Trouble(b)
  PROVE  Survivor'
<1>0. SwapTypeOK
  BY DEF SwapInv
<1>1. CASE Start(b)
  BY <1>0, <1>1, SwapAssumption DEF Start, Goto, Calm, Mishap, place, control,
    SwapInv, SwapTypeOK, Tree, Survivor, Fresh, OnePlace, Early, Active, Resting
<1>2. CASE Write(b)
  BY <1>0, <1>2, SwapAssumption DEF Write, Goto, Calm, Mishap, place, control,
    SwapInv, SwapTypeOK, Tree, Survivor, Fresh, OnePlace, Early
<1>3. CASE Recheck(b)
  BY <1>0, <1>3, SwapAssumption DEF Recheck, Goto, Calm, Mishap, place,
    control, SwapInv, SwapTypeOK, Tree, Survivor, Fresh, OnePlace, Early
<1>4. CASE Look(b)
  BY <1>0, <1>4, SwapAssumption DEF Look, Goto, Calm, Mishap, place, control,
    SwapInv, SwapTypeOK, Tree, Survivor, Fresh, OnePlace, Early
<1>5. CASE Displace(b)
  <2>1. /\ UNCHANGED <<cut, shown, style>>
        /\ backup[b] = NoTree
        /\ style # "benchmark" => step'[b] # "discard"
        /\ \A c \in Build \ {b} : step'[c] = step[c]
    BY <1>0, <1>5 DEF Displace, NotDisplaced, Goto, place, control, SwapTypeOK, SwapInv,
      Fresh, Early
  <2>2. CASE output = NoTree
    <3>1. UNCHANGED <<output, backup>>
      BY <1>5, <2>2 DEF Displace, place
    <3> QED BY <2>1, <2>2, <3>1 DEF SwapInv, Survivor
  <2>3. CASE output # NoTree
    <3>1. backup'[b] = output /\ \A c \in Build \ {b} : backup'[c] = backup[c]
      BY <1>0, <1>5, <2>3 DEF Displace, SwapTypeOK
    <3> QED BY <2>1, <2>3, <3>1 DEF SwapInv, Survivor
  <2> QED BY <2>2, <2>3
<1>6. CASE Place(b)
  <2>1. CASE output = NoTree
    <3>1. output' = b /\ cut' = cut
      BY <1>6, <2>1 DEF Place
    <3>2. b \notin cut /\ b # NoTree
      BY <1>6, SwapAssumption DEF Place, SwapInv, Fresh, Early, Tree
    <3> QED BY <3>1, <3>2 DEF Survivor
  <2>2. CASE output # NoTree
    <3>1. UNCHANGED <<output, backup, cut, shown, style>> /\ step'[b] = "restore"
          /\ \A c \in Build \ {b} : step'[c] = step[c]
      BY <1>0, <1>6, <2>2 DEF Place, Goto, place, control, SwapTypeOK
    <3> QED BY <3>1 DEF SwapInv, Survivor
  <2> QED BY <2>1, <2>2
<1>7. CASE Restore(b)
  <2> SUFFICES ASSUME shown', style' # "benchmark"
               PROVE  \/ output' \notin cut' \cup {NoTree}
                      \/ \E c \in Build : /\ backup'[c] \notin cut' \cup {NoTree}
                                          /\ step'[c] # "discard"
    BY DEF Survivor
  <2>1. style # "benchmark" /\ shown /\ cut' = cut /\ step'[b] # "discard"
        /\ \A c \in Build \ {b} : step'[c] = step[c]
    BY <1>0, <1>7 DEF Restore, MoveBack, AfterRestore, Goto, place, control, SwapTypeOK
  <2>2. CASE ~Returnable(b)
    <3>1. output' = output /\ backup' = backup
      BY <1>7, <2>2 DEF Restore, MoveBack, place
    <3> QED BY <1>0, <1>7, <2>1, <3>1 DEF Restore, SwapInv, Survivor, SwapTypeOK
  <2>3. CASE Returnable(b)
    <3>1. output' = backup[b] /\ backup[b] # NoTree /\ output = NoTree
          /\ \A c \in Build \ {b} : backup'[c] = backup[c]
      BY <1>0, <1>7, <2>3 DEF Restore, MoveBack, Returnable, SwapTypeOK
    <3>2. PICK c \in Build : backup[c] \notin cut \cup {NoTree} /\ step[c] # "discard"
      BY <2>1, <3>1 DEF SwapInv, Survivor
    <3> QED BY <2>1, <3>1, <3>2
  <2> QED BY <2>2, <2>3
<1>8. CASE Discard(b)
  BY <1>0, <1>8, SwapAssumption DEF Discard, Goto, Calm, Mishap, place,
    control, SwapInv, SwapTypeOK, Tree, Survivor, Fresh, OnePlace, Early,
    AfterDiscard
<1>9. CASE Abort(b)
  BY <1>0, <1>9, SwapAssumption DEF Abort, Goto, Calm, Mishap, place, control,
    SwapInv, SwapTypeOK, Tree, Survivor, Fresh, OnePlace, Early, EndOfPass,
    NoPutBack
<1>10. CASE PutBack(b)
  <2> SUFFICES ASSUME shown', style' # "benchmark"
               PROVE  \/ output' \notin cut' \cup {NoTree}
                      \/ \E c \in Build : /\ backup'[c] \notin cut' \cup {NoTree}
                                          /\ step'[c] # "discard"
    BY DEF Survivor
  <2>1. style # "benchmark" /\ shown /\ cut' = cut /\ step'[b] # "discard"
        /\ \A c \in Build \ {b} : step'[c] = step[c]
    BY <1>0, <1>10 DEF PutBack, MoveBack, EndOfPass, Goto, place, control, SwapTypeOK
  <2>2. CASE ~Returnable(b)
    <3>1. output' = output /\ backup' = backup
      BY <1>10, <2>2 DEF PutBack, MoveBack, place
    <3> QED BY <1>0, <1>10, <2>1, <3>1 DEF PutBack, SwapInv, Survivor, SwapTypeOK
  <2>3. CASE Returnable(b)
    <3>1. output' = backup[b] /\ backup[b] # NoTree /\ output = NoTree
          /\ \A c \in Build \ {b} : backup'[c] = backup[c]
      BY <1>0, <1>10, <2>3 DEF PutBack, MoveBack, Returnable, SwapTypeOK
    <3>2. PICK c \in Build : backup[c] \notin cut \cup {NoTree} /\ step[c] # "discard"
      BY <2>1, <3>1 DEF SwapInv, Survivor
    <3> QED BY <2>1, <3>1, <3>2
  <2> QED BY <2>2, <2>3
<1>11. CASE WriteFails(b)
  BY <1>0, <1>11, SwapAssumption DEF WriteFails, Goto, Calm, Mishap, place,
    control, SwapInv, SwapTypeOK, Tree, Survivor, Fresh, OnePlace, Early
<1>12. CASE DisplaceFails(b)
  BY <1>0, <1>12, SwapAssumption DEF DisplaceFails, Goto, Calm, Mishap, place,
    control, SwapInv, SwapTypeOK, Tree, Survivor, Fresh, OnePlace, Early,
    NotDisplaced
<1>13. CASE PlaceFails(b)
  BY <1>0, <1>13, SwapAssumption DEF PlaceFails, Goto, Calm, Mishap, place,
    control, SwapInv, SwapTypeOK, Tree, Survivor, Fresh, OnePlace, Early
<1>14. CASE RestoreFails(b)
  BY <1>0, <1>14, SwapAssumption DEF RestoreFails, Goto, Calm, Mishap, place,
    control, SwapInv, SwapTypeOK, Tree, Survivor, Fresh, OnePlace, Early,
    Returnable, AfterRestore
<1>15. CASE DiscardFails(b)
  BY <1>0, <1>15, SwapAssumption DEF DiscardFails, Goto, Calm, Mishap, place,
    control, SwapInv, SwapTypeOK, Tree, Survivor, Fresh, OnePlace, Early
<1>16. CASE AbortFails(b)
  BY <1>0, <1>16, SwapAssumption DEF AbortFails, Goto, Calm, Mishap, place,
    control, SwapInv, SwapTypeOK, Tree, Survivor, Fresh, OnePlace, Early,
    EndOfPass
<1>17. CASE PutBackFails(b)
  BY <1>0, <1>17, SwapAssumption DEF PutBackFails, Goto, Calm, Mishap, place,
    control, SwapInv, SwapTypeOK, Tree, Survivor, Fresh, OnePlace, Early,
    Returnable, EndOfPass
<1>18. CASE Interrupt(b)
  BY <1>0, <1>18, SwapAssumption DEF Interrupt, Goto, Calm, Mishap, place,
    control, SwapInv, SwapTypeOK, Tree, Survivor, Fresh, OnePlace, Early,
    Guarded, MayCut, Active, Resting
<1>19. CASE Die(b)
  BY <1>0, <1>19, SwapAssumption DEF Die, Goto, Calm, Mishap, place, control,
    SwapInv, SwapTypeOK, Tree, Survivor, Fresh, OnePlace, Early, MayCut, Active,
    Resting
<1> QED BY <1>1, <1>2, <1>3, <1>4, <1>5, <1>6, <1>7, <1>8, <1>9, <1>10, <1>11,
  <1>12, <1>13, <1>14, <1>15, <1>16, <1>17, <1>18, <1>19 DEF Work, Trouble

\* A build that starts next to another one is noted.
LEMMA AloneKept ==
  ASSUME SwapInv, NEW b \in Build, Work(b) \/ Trouble(b)
  PROVE  Alone'
<1>0. SwapTypeOK
  BY DEF SwapInv
<1>1. CASE Start(b)
  <2>1. CASE step' = [step EXCEPT ![b] = "failed"] /\ UNCHANGED overlapped
    <3>1. \A c \in Build : Active(c)' => Active(c)
      BY <1>0, <2>1 DEF Active, Resting, SwapTypeOK
    <3> QED BY <2>1, <3>1 DEF SwapInv, Alone
  <2>2. CASE /\ step' = [step EXCEPT ![b] = "write"]
             /\ overlapped' = (overlapped \/ \E c \in Build \ {b} : Active(c))
    <3>1. \A c \in Build \ {b} : Active(c)' <=> Active(c)
      BY <1>0, <2>2 DEF Active, SwapTypeOK
    <3>2. ~overlapped' => ~overlapped /\ \A c \in Build \ {b} : ~Active(c)
      BY <2>2
    <3> QED BY <3>1, <3>2 DEF Alone
  <2> QED BY <1>1, <2>1, <2>2 DEF Start, Goto
<1>2. CASE Write(b)
  BY <1>0, <1>2, SwapAssumption DEF Write, Goto, Calm, Mishap, place, control,
    SwapInv, SwapTypeOK, Tree, Alone, Active, Resting
<1>3. CASE Recheck(b)
  BY <1>0, <1>3, SwapAssumption DEF Recheck, Goto, Calm, Mishap, place,
    control, SwapInv, SwapTypeOK, Tree, Alone, Active, Resting
<1>4. CASE Look(b)
  BY <1>0, <1>4, SwapAssumption DEF Look, Goto, Calm, Mishap, place, control,
    SwapInv, SwapTypeOK, Tree, Alone, Active, Resting
<1>5. CASE Displace(b)
  BY <1>0, <1>5, SwapAssumption DEF Displace, Goto, Calm, Mishap, place,
    control, SwapInv, SwapTypeOK, Tree, Alone, Active, Resting, NotDisplaced
<1>6. CASE Place(b)
  BY <1>0, <1>6, SwapAssumption DEF Place, Goto, Calm, Mishap, place, control,
    SwapInv, SwapTypeOK, Tree, Alone, Active, Resting
<1>7. CASE Restore(b)
  BY <1>0, <1>7, SwapAssumption DEF Restore, Goto, Calm, Mishap, place,
    control, SwapInv, SwapTypeOK, Tree, Alone, Active, Resting, MoveBack,
    Returnable, AfterRestore
<1>8. CASE Discard(b)
  BY <1>0, <1>8, SwapAssumption DEF Discard, Goto, Calm, Mishap, place,
    control, SwapInv, SwapTypeOK, Tree, Alone, Active, Resting, AfterDiscard
<1>9. CASE Abort(b)
  BY <1>0, <1>9, SwapAssumption DEF Abort, Goto, Calm, Mishap, place, control,
    SwapInv, SwapTypeOK, Tree, Alone, Active, Resting, EndOfPass, NoPutBack
<1>10. CASE PutBack(b)
  BY <1>0, <1>10, SwapAssumption DEF PutBack, Goto, Calm, Mishap, place,
    control, SwapInv, SwapTypeOK, Tree, Alone, Active, Resting, MoveBack,
    Returnable, EndOfPass
<1>11. CASE WriteFails(b)
  BY <1>0, <1>11, SwapAssumption DEF WriteFails, Goto, Calm, Mishap, place,
    control, SwapInv, SwapTypeOK, Tree, Alone, Active, Resting
<1>12. CASE DisplaceFails(b)
  BY <1>0, <1>12, SwapAssumption DEF DisplaceFails, Goto, Calm, Mishap, place,
    control, SwapInv, SwapTypeOK, Tree, Alone, Active, Resting, NotDisplaced
<1>13. CASE PlaceFails(b)
  BY <1>0, <1>13, SwapAssumption DEF PlaceFails, Goto, Calm, Mishap, place,
    control, SwapInv, SwapTypeOK, Tree, Alone, Active, Resting
<1>14. CASE RestoreFails(b)
  BY <1>0, <1>14, SwapAssumption DEF RestoreFails, Goto, Calm, Mishap, place,
    control, SwapInv, SwapTypeOK, Tree, Alone, Active, Resting, Returnable,
    AfterRestore
<1>15. CASE DiscardFails(b)
  BY <1>0, <1>15, SwapAssumption DEF DiscardFails, Goto, Calm, Mishap, place,
    control, SwapInv, SwapTypeOK, Tree, Alone, Active, Resting
<1>16. CASE AbortFails(b)
  BY <1>0, <1>16, SwapAssumption DEF AbortFails, Goto, Calm, Mishap, place,
    control, SwapInv, SwapTypeOK, Tree, Alone, Active, Resting, EndOfPass
<1>17. CASE PutBackFails(b)
  BY <1>0, <1>17, SwapAssumption DEF PutBackFails, Goto, Calm, Mishap, place,
    control, SwapInv, SwapTypeOK, Tree, Alone, Active, Resting, Returnable,
    EndOfPass
<1>18. CASE Interrupt(b)
  BY <1>0, <1>18, SwapAssumption DEF Interrupt, Goto, Calm, Mishap, place,
    control, SwapInv, SwapTypeOK, Tree, Alone, Active, Resting, Guarded, MayCut
<1>19. CASE Die(b)
  BY <1>0, <1>19, SwapAssumption DEF Die, Goto, Calm, Mishap, place, control,
    SwapInv, SwapTypeOK, Tree, Alone, Active, Resting, MayCut
<1> QED BY <1>1, <1>2, <1>3, <1>4, <1>5, <1>6, <1>7, <1>8, <1>9, <1>10, <1>11,
  <1>12, <1>13, <1>14, <1>15, <1>16, <1>17, <1>18, <1>19 DEF Work, Trouble

\* Without another build nothing takes the new output away.
LEMMA CutIsHiddenKept ==
  ASSUME SwapInv, NEW b \in Build, Work(b) \/ Trouble(b)
  PROVE  CutIsHidden'
<1>0. SwapTypeOK
  BY DEF SwapInv
<1>1. CASE Start(b)
  BY <1>0, <1>1, SwapAssumption DEF Start, Goto, Calm, Mishap, place, control,
    SwapInv, SwapTypeOK, Tree, CutIsHidden, NoPutBack, Fresh, OnePlace, Alone,
    Active, Resting, Early
<1>2. CASE Write(b)
  BY <1>0, <1>2, SwapAssumption DEF Write, Goto, Calm, Mishap, place, control,
    SwapInv, SwapTypeOK, Tree, CutIsHidden, NoPutBack, Fresh, OnePlace, Alone,
    Active, Resting, Early
<1>3. CASE Recheck(b)
  BY <1>0, <1>3, SwapAssumption DEF Recheck, Goto, Calm, Mishap, place,
    control, SwapInv, SwapTypeOK, Tree, CutIsHidden, NoPutBack, Fresh, OnePlace,
    Alone, Active, Resting, Early
<1>4. CASE Look(b)
  BY <1>0, <1>4, SwapAssumption DEF Look, Goto, Calm, Mishap, place, control,
    SwapInv, SwapTypeOK, Tree, CutIsHidden, NoPutBack, Fresh, OnePlace, Alone,
    Active, Resting, Early
<1>5. CASE Displace(b)
  BY <1>0, <1>5, SwapAssumption DEF Displace, Goto, Calm, Mishap, place,
    control, SwapInv, SwapTypeOK, Tree, CutIsHidden, NoPutBack, Fresh, OnePlace,
    Alone, Active, Resting, Early, NotDisplaced
<1>6. CASE Place(b)
  BY <1>0, <1>6, SwapAssumption DEF Place, Goto, Calm, Mishap, place, control,
    SwapInv, SwapTypeOK, Tree, CutIsHidden, NoPutBack, Fresh, OnePlace, Alone,
    Active, Resting, Early
<1>7. CASE Restore(b)
  BY <1>0, <1>7, SwapAssumption DEF Restore, Goto, Calm, Mishap, place,
    control, SwapInv, SwapTypeOK, Tree, CutIsHidden, NoPutBack, Fresh, OnePlace,
    Alone, Active, Resting, Early, MoveBack, Returnable, AfterRestore
<1>8. CASE Discard(b)
  BY <1>0, <1>8, SwapAssumption DEF Discard, Goto, Calm, Mishap, place,
    control, SwapInv, SwapTypeOK, Tree, CutIsHidden, NoPutBack, Fresh, OnePlace,
    Alone, Active, Resting, Early, AfterDiscard
<1>9. CASE Abort(b)
  BY <1>0, <1>9, SwapAssumption DEF Abort, Goto, Calm, Mishap, place, control,
    SwapInv, SwapTypeOK, Tree, CutIsHidden, NoPutBack, Fresh, OnePlace, Alone,
    Active, Resting, Early, EndOfPass
<1>10. CASE PutBack(b)
  BY <1>0, <1>10, SwapAssumption DEF PutBack, Goto, Calm, Mishap, place,
    control, SwapInv, SwapTypeOK, Tree, CutIsHidden, NoPutBack, Fresh, OnePlace,
    Alone, Active, Resting, Early, MoveBack, Returnable, EndOfPass
<1>11. CASE WriteFails(b)
  BY <1>0, <1>11, SwapAssumption DEF WriteFails, Goto, Calm, Mishap, place,
    control, SwapInv, SwapTypeOK, Tree, CutIsHidden, NoPutBack, Fresh, OnePlace,
    Alone, Active, Resting, Early
<1>12. CASE DisplaceFails(b)
  BY <1>0, <1>12, SwapAssumption DEF DisplaceFails, Goto, Calm, Mishap, place,
    control, SwapInv, SwapTypeOK, Tree, CutIsHidden, NoPutBack, Fresh, OnePlace,
    Alone, Active, Resting, Early, NotDisplaced
<1>13. CASE PlaceFails(b)
  BY <1>0, <1>13, SwapAssumption DEF PlaceFails, Goto, Calm, Mishap, place,
    control, SwapInv, SwapTypeOK, Tree, CutIsHidden, NoPutBack, Fresh, OnePlace,
    Alone, Active, Resting, Early
<1>14. CASE RestoreFails(b)
  BY <1>0, <1>14, SwapAssumption DEF RestoreFails, Goto, Calm, Mishap, place,
    control, SwapInv, SwapTypeOK, Tree, CutIsHidden, NoPutBack, Fresh, OnePlace,
    Alone, Active, Resting, Early, Returnable, AfterRestore
<1>15. CASE DiscardFails(b)
  BY <1>0, <1>15, SwapAssumption DEF DiscardFails, Goto, Calm, Mishap, place,
    control, SwapInv, SwapTypeOK, Tree, CutIsHidden, NoPutBack, Fresh, OnePlace,
    Alone, Active, Resting, Early
<1>16. CASE AbortFails(b)
  BY <1>0, <1>16, SwapAssumption DEF AbortFails, Goto, Calm, Mishap, place,
    control, SwapInv, SwapTypeOK, Tree, CutIsHidden, NoPutBack, Fresh, OnePlace,
    Alone, Active, Resting, Early, EndOfPass
<1>17. CASE PutBackFails(b)
  BY <1>0, <1>17, SwapAssumption DEF PutBackFails, Goto, Calm, Mishap, place,
    control, SwapInv, SwapTypeOK, Tree, CutIsHidden, NoPutBack, Fresh, OnePlace,
    Alone, Active, Resting, Early, Returnable, EndOfPass
<1>18. CASE Interrupt(b)
  BY <1>0, <1>18, SwapAssumption DEF Interrupt, Goto, Calm, Mishap, place,
    control, SwapInv, SwapTypeOK, Tree, CutIsHidden, NoPutBack, Fresh, OnePlace,
    Alone, Active, Resting, Early, Guarded, MayCut
<1>19. CASE Die(b)
  BY <1>0, <1>19, SwapAssumption DEF Die, Goto, Calm, Mishap, place, control,
    SwapInv, SwapTypeOK, Tree, CutIsHidden, NoPutBack, Fresh, OnePlace, Alone,
    Active, Resting, Early, MayCut
<1> QED BY <1>1, <1>2, <1>3, <1>4, <1>5, <1>6, <1>7, <1>8, <1>9, <1>10, <1>11,
  <1>12, <1>13, <1>14, <1>15, <1>16, <1>17, <1>18, <1>19 DEF Work, Trouble

\* The second pass follows the first.
LEMMA FirstPassKept ==
  ASSUME SwapInv, NEW b \in Build, Work(b) \/ Trouble(b)
  PROVE  FirstPass'
<1>0. SwapTypeOK
  BY DEF SwapInv
<1>1. CASE Start(b)
  BY <1>0, <1>1, SwapAssumption DEF Start, Goto, Calm, Mishap, place, control,
    SwapInv, SwapTypeOK, Tree, FirstPass, Early, Active, Resting
<1>2. CASE Write(b)
  BY <1>0, <1>2, SwapAssumption DEF Write, Goto, Calm, Mishap, place, control,
    SwapInv, SwapTypeOK, Tree, FirstPass, Early
<1>3. CASE Recheck(b)
  BY <1>0, <1>3, SwapAssumption DEF Recheck, Goto, Calm, Mishap, place,
    control, SwapInv, SwapTypeOK, Tree, FirstPass, Early
<1>4. CASE Look(b)
  BY <1>0, <1>4, SwapAssumption DEF Look, Goto, Calm, Mishap, place, control,
    SwapInv, SwapTypeOK, Tree, FirstPass, Early
<1>5. CASE Displace(b)
  BY <1>0, <1>5, SwapAssumption DEF Displace, Goto, Calm, Mishap, place,
    control, SwapInv, SwapTypeOK, Tree, FirstPass, Early, NotDisplaced
<1>6. CASE Place(b)
  BY <1>0, <1>6, SwapAssumption DEF Place, Goto, Calm, Mishap, place, control,
    SwapInv, SwapTypeOK, Tree, FirstPass, Early
<1>7. CASE Restore(b)
  BY <1>0, <1>7, SwapAssumption DEF Restore, Goto, Calm, Mishap, place,
    control, SwapInv, SwapTypeOK, Tree, FirstPass, Early, MoveBack, Returnable,
    AfterRestore
<1>8. CASE Discard(b)
  BY <1>0, <1>8, SwapAssumption DEF Discard, Goto, Calm, Mishap, place,
    control, SwapInv, SwapTypeOK, Tree, FirstPass, Early, AfterDiscard
<1>9. CASE Abort(b)
  BY <1>0, <1>9, SwapAssumption DEF Abort, Goto, Calm, Mishap, place, control,
    SwapInv, SwapTypeOK, Tree, FirstPass, Early, EndOfPass, NoPutBack
<1>10. CASE PutBack(b)
  BY <1>0, <1>10, SwapAssumption DEF PutBack, Goto, Calm, Mishap, place,
    control, SwapInv, SwapTypeOK, Tree, FirstPass, Early, MoveBack, Returnable,
    EndOfPass
<1>11. CASE WriteFails(b)
  BY <1>0, <1>11, SwapAssumption DEF WriteFails, Goto, Calm, Mishap, place,
    control, SwapInv, SwapTypeOK, Tree, FirstPass, Early
<1>12. CASE DisplaceFails(b)
  BY <1>0, <1>12, SwapAssumption DEF DisplaceFails, Goto, Calm, Mishap, place,
    control, SwapInv, SwapTypeOK, Tree, FirstPass, Early, NotDisplaced
<1>13. CASE PlaceFails(b)
  BY <1>0, <1>13, SwapAssumption DEF PlaceFails, Goto, Calm, Mishap, place,
    control, SwapInv, SwapTypeOK, Tree, FirstPass, Early
<1>14. CASE RestoreFails(b)
  BY <1>0, <1>14, SwapAssumption DEF RestoreFails, Goto, Calm, Mishap, place,
    control, SwapInv, SwapTypeOK, Tree, FirstPass, Early, Returnable,
    AfterRestore
<1>15. CASE DiscardFails(b)
  BY <1>0, <1>15, SwapAssumption DEF DiscardFails, Goto, Calm, Mishap, place,
    control, SwapInv, SwapTypeOK, Tree, FirstPass, Early
<1>16. CASE AbortFails(b)
  BY <1>0, <1>16, SwapAssumption DEF AbortFails, Goto, Calm, Mishap, place,
    control, SwapInv, SwapTypeOK, Tree, FirstPass, Early, EndOfPass
<1>17. CASE PutBackFails(b)
  BY <1>0, <1>17, SwapAssumption DEF PutBackFails, Goto, Calm, Mishap, place,
    control, SwapInv, SwapTypeOK, Tree, FirstPass, Early, Returnable, EndOfPass
<1>18. CASE Interrupt(b)
  BY <1>0, <1>18, SwapAssumption DEF Interrupt, Goto, Calm, Mishap, place,
    control, SwapInv, SwapTypeOK, Tree, FirstPass, Early, Guarded, MayCut,
    Active, Resting
<1>19. CASE Die(b)
  BY <1>0, <1>19, SwapAssumption DEF Die, Goto, Calm, Mishap, place, control,
    SwapInv, SwapTypeOK, Tree, FirstPass, Early, MayCut, Active, Resting
<1> QED BY <1>1, <1>2, <1>3, <1>4, <1>5, <1>6, <1>7, <1>8, <1>9, <1>10, <1>11,
  <1>12, <1>13, <1>14, <1>15, <1>16, <1>17, <1>18, <1>19 DEF Work, Trouble

\* Whoever took the output away returns it or puts its own tree there.
LEMMA SomeoneReturnsItKept ==
  ASSUME SwapInv, NEW b \in Build, Work(b) \/ Trouble(b)
  PROVE  SomeoneReturnsIt'
<1>0. SwapTypeOK
  BY DEF SwapInv
<1>1. CASE Start(b)
  BY <1>0, <1>1, SwapAssumption DEF Start, Goto, Calm, Mishap, place, control,
    SwapInv, SwapTypeOK, Tree, SomeoneReturnsIt, NoPutBack, FirstPass, Early,
    Active, Resting
<1>2. CASE Write(b)
  BY <1>0, <1>2, SwapAssumption DEF Write, Goto, Calm, Mishap, place, control,
    SwapInv, SwapTypeOK, Tree, SomeoneReturnsIt, NoPutBack, FirstPass, Early
<1>3. CASE Recheck(b)
  BY <1>0, <1>3, SwapAssumption DEF Recheck, Goto, Calm, Mishap, place,
    control, SwapInv, SwapTypeOK, Tree, SomeoneReturnsIt, NoPutBack, FirstPass,
    Early
<1>4. CASE Look(b)
  BY <1>0, <1>4, SwapAssumption DEF Look, Goto, Calm, Mishap, place, control,
    SwapInv, SwapTypeOK, Tree, SomeoneReturnsIt, NoPutBack, FirstPass, Early
<1>5. CASE Displace(b)
  BY <1>0, <1>5, SwapAssumption DEF Displace, Goto, Calm, Mishap, place,
    control, SwapInv, SwapTypeOK, Tree, SomeoneReturnsIt, NoPutBack, FirstPass,
    Early, NotDisplaced
<1>6. CASE Place(b)
  BY <1>0, <1>6, SwapAssumption DEF Place, Goto, Calm, Mishap, place, control,
    SwapInv, SwapTypeOK, Tree, SomeoneReturnsIt, NoPutBack, FirstPass, Early
<1>7. CASE Restore(b)
  BY <1>0, <1>7, SwapAssumption DEF Restore, Goto, Calm, Mishap, place,
    control, SwapInv, SwapTypeOK, Tree, SomeoneReturnsIt, NoPutBack, FirstPass,
    Early, MoveBack, Returnable, AfterRestore
<1>8. CASE Discard(b)
  BY <1>0, <1>8, SwapAssumption DEF Discard, Goto, Calm, Mishap, place,
    control, SwapInv, SwapTypeOK, Tree, SomeoneReturnsIt, NoPutBack, FirstPass,
    Early, AfterDiscard
<1>9. CASE Abort(b)
  BY <1>0, <1>9, SwapAssumption DEF Abort, Goto, Calm, Mishap, place, control,
    SwapInv, SwapTypeOK, Tree, SomeoneReturnsIt, NoPutBack, FirstPass, Early,
    EndOfPass
<1>10. CASE PutBack(b)
  BY <1>0, <1>10, SwapAssumption DEF PutBack, Goto, Calm, Mishap, place,
    control, SwapInv, SwapTypeOK, Tree, SomeoneReturnsIt, NoPutBack, FirstPass,
    Early, MoveBack, Returnable, EndOfPass
<1>11. CASE WriteFails(b)
  BY <1>0, <1>11, SwapAssumption DEF WriteFails, Goto, Calm, Mishap, place,
    control, SwapInv, SwapTypeOK, Tree, SomeoneReturnsIt, NoPutBack, FirstPass,
    Early
<1>12. CASE DisplaceFails(b)
  BY <1>0, <1>12, SwapAssumption DEF DisplaceFails, Goto, Calm, Mishap, place,
    control, SwapInv, SwapTypeOK, Tree, SomeoneReturnsIt, NoPutBack, FirstPass,
    Early, NotDisplaced
<1>13. CASE PlaceFails(b)
  BY <1>0, <1>13, SwapAssumption DEF PlaceFails, Goto, Calm, Mishap, place,
    control, SwapInv, SwapTypeOK, Tree, SomeoneReturnsIt, NoPutBack, FirstPass,
    Early
<1>14. CASE RestoreFails(b)
  BY <1>0, <1>14, SwapAssumption DEF RestoreFails, Goto, Calm, Mishap, place,
    control, SwapInv, SwapTypeOK, Tree, SomeoneReturnsIt, NoPutBack, FirstPass,
    Early, Returnable, AfterRestore
<1>15. CASE DiscardFails(b)
  BY <1>0, <1>15, SwapAssumption DEF DiscardFails, Goto, Calm, Mishap, place,
    control, SwapInv, SwapTypeOK, Tree, SomeoneReturnsIt, NoPutBack, FirstPass,
    Early
<1>16. CASE AbortFails(b)
  BY <1>0, <1>16, SwapAssumption DEF AbortFails, Goto, Calm, Mishap, place,
    control, SwapInv, SwapTypeOK, Tree, SomeoneReturnsIt, NoPutBack, FirstPass,
    Early, EndOfPass
<1>17. CASE PutBackFails(b)
  BY <1>0, <1>17, SwapAssumption DEF PutBackFails, Goto, Calm, Mishap, place,
    control, SwapInv, SwapTypeOK, Tree, SomeoneReturnsIt, NoPutBack, FirstPass,
    Early, Returnable, EndOfPass
<1>18. CASE Interrupt(b)
  BY <1>0, <1>18, SwapAssumption DEF Interrupt, Goto, Calm, Mishap, place,
    control, SwapInv, SwapTypeOK, Tree, SomeoneReturnsIt, NoPutBack, FirstPass,
    Early, Guarded, MayCut, Active, Resting
<1>19. CASE Die(b)
  BY <1>0, <1>19, SwapAssumption DEF Die, Goto, Calm, Mishap, place, control,
    SwapInv, SwapTypeOK, Tree, SomeoneReturnsIt, NoPutBack, FirstPass, Early,
    MayCut, Active, Resting
<1> QED BY <1>1, <1>2, <1>3, <1>4, <1>5, <1>6, <1>7, <1>8, <1>9, <1>10, <1>11,
  <1>12, <1>13, <1>14, <1>15, <1>16, <1>17, <1>18, <1>19 DEF Work, Trouble

LEMMA SwapStepKeeps == SwapInv /\ [SwapNext]_swapVars => SwapInv'
<1> SUFFICES ASSUME SwapInv, [SwapNext]_swapVars PROVE SwapInv'
  OBVIOUS
<1>1. ASSUME NEW b \in Build, Work(b) \/ Trouble(b) PROVE SwapInv'
  BY <1>1, SwapTypeOKKept, FreshKept, OnePlaceKept, SurvivorKept, AloneKept,
    CutIsHiddenKept, FirstPassKept, SomeoneReturnsItKept DEF SwapInv
<1>2. CASE UNCHANGED swapVars
  BY <1>2 DEF swapVars, place, control, SwapInv, SwapTypeOK, Fresh, OnePlace, Survivor,
    Alone, CutIsHidden, FirstPass, SomeoneReturnsIt, Active, NoPutBack
<1> QED BY <1>1, <1>2 DEF SwapNext

LEMMA SwapInvariant == SwapSpec => []SwapInv
BY SwapInitEstablishes, SwapStepKeeps, PTL DEF SwapSpec

-----------------------------------------------------------------------------
(* The results *)

\* Paths hold trees there are, and builds are at steps of the program.
THEOREM SwapTypes == SwapSpec => []SwapTypeOK
<1>1. SwapInv => SwapTypeOK
  BY DEF SwapInv
<1> QED BY <1>1, SwapInvariant, PTL

\* For any number of concurrent builds, failed renames and removals,
\* interrupts and deaths, a whole tree survives at the output or in a backup
\* (all writers but that of the benchmark artifacts).
THEOREM SwapTreeSurvives == SwapSpec => []TreeSurvives
<1>1. SwapInv => TreeSurvives
  BY DEF SwapInv, Survivor, TreeSurvives, Kept
<1> QED BY <1>1, SwapInvariant, PTL

\* For any number of concurrent builds, one mishap that is no death leaves
\* an output, once every build has come to its end.
THEOREM SwapOutputComesBack == SwapSpec => []OutputComesBack
<1>1. SwapInv => OutputComesBack
  BY DEF SwapInv, SomeoneReturnsIt, OutputComesBack, Resting
<1> QED BY <1>1, SwapInvariant, PTL

\* Builds that run one after the other never show a tree with a part
\* missing, in any of the five styles.
THEOREM SwapOutputIsWhole == SwapSpec => []OutputIsWhole
<1>1. SwapInv => OutputIsWhole
  BY DEF SwapInv, CutIsHidden, OutputIsWhole
<1> QED BY <1>1, SwapInvariant, PTL

(***************************************************************************)
(* The sweep finds exactly the overlaps and the splits do not leak, for    *)
(* any relationships and any ranges.  The invariant says what the heap is  *)
(* worth: an endpoint that has left it cannot overlap any range the sweep  *)
(* has still to come to.                                                   *)
(***************************************************************************)

Done == Endpoint \ pending
Shared(r, s) == \E g \in groups : r \in g.members /\ s \in g.members

\* The sweep is ordered: what is done starts before what is pending.
InOrder ==
  /\ \A d \in Done : RangeOf(d).book <= book
  /\ \A d \in Done, p \in pending :
       \/ RangeOf(d).book < RangeOf(p).book
       \/ RangeOf(d).book = RangeOf(p).book /\ RangeOf(d).start < RangeOf(p).start

HeapIsCurrent ==
  /\ active \subseteq Done
  /\ \A a \in active : RangeOf(a).book = book
  /\ \A d \in Done \ active, p \in pending : ~Overlap(RangeOf(d), RangeOf(p))

\* Every member of a group has a range over the start that names it.
GroupsAreSound ==
  \A g \in groups : \A r \in g.members :
    \E s \in Side : /\ ends[r][s].book = g.book
                    /\ ends[r][s].start <= g.start /\ g.start <= ends[r][s].end

GroupsAreComplete ==
  \A c, d \in Done :
    c[1] # d[1] /\ Overlap(RangeOf(c), RangeOf(d)) => Shared(c[1], d[1])

SplitIsEnforced ==
  split => pending = {} /\ partition = Enforced(base)

LeakageInv == /\ LeakageTypeOK /\ InOrder /\ HeapIsCurrent /\ GroupsAreSound
        /\ GroupsAreComplete /\ SplitIsEnforced

-----------------------------------------------------------------------------
(* Ranges *)

LEMMA RangeFacts ==
  ASSUME ends \in [Relationship -> EndpointPairs]
  PROVE  \A e \in Endpoint :
           /\ RangeOf(e) \in Range
           /\ RangeOf(e).book \in Nat /\ RangeOf(e).book # 0
           /\ RangeOf(e).start \in Nat /\ RangeOf(e).end \in Nat
           /\ RangeOf(e).start <= RangeOf(e).end
           /\ e[1] \in Relationship /\ e[2] \in Side
           /\ e = <<e[1], e[2]>>
<1>1. SUFFICES ASSUME NEW e \in Endpoint
              PROVE /\ RangeOf(e) \in Range
                    /\ e[1] \in Relationship /\ e[2] \in Side
                    /\ e = <<e[1], e[2]>>
  BY LeakageAssumption
<1>2. e[1] \in Relationship /\ e[2] \in Side /\ e = <<e[1], e[2]>>
  BY DEF Endpoint
<1>3. ends[e[1]] \in [Side -> Range]
  BY <1>2, LeakageAssumption
<1> QED BY <1>2, <1>3 DEF RangeOf

LEMMA OverlapIsSymmetric ==
  ASSUME NEW i, NEW j, Overlap(i, j) PROVE Overlap(j, i)
BY DEF Overlap

\* Related relationships are those with overlapping endpoints.
LEMMA RelatedFacts ==
  ASSUME NEW r \in Relationship, NEW s \in Relationship
  PROVE  Related(r, s) <=> \E c, d \in Endpoint :
           c[1] = r /\ d[1] = s /\ Overlap(RangeOf(c), RangeOf(d))
<1>1. ASSUME NEW a \in Side, NEW b \in Side, Overlap(ends[r][a], ends[s][b])
      PROVE \E c, d \in Endpoint : c[1] = r /\ d[1] = s /\ Overlap(RangeOf(c), RangeOf(d))
  <2>1. <<r, a>> \in Endpoint /\ <<s, b>> \in Endpoint
    BY DEF Endpoint
  <2>2. RangeOf(<<r, a>>) = ends[r][a] /\ RangeOf(<<s, b>>) = ends[s][b]
    BY DEF RangeOf
  <2>3. Overlap(RangeOf(<<r, a>>), RangeOf(<<s, b>>))
    BY <1>1, <2>2
  <2> QED BY <2>1, <2>3
<1>2. ASSUME NEW c \in Endpoint, NEW d \in Endpoint,
             c[1] = r, d[1] = s, Overlap(RangeOf(c), RangeOf(d))
      PROVE Related(r, s)
  <2>1. c[2] \in Side /\ d[2] \in Side
    BY DEF Endpoint
  <2>2. Overlap(ends[r][c[2]], ends[s][d[2]])
    BY <1>2 DEF RangeOf
  <2> QED BY <2>1, <2>2 DEF Related
<1> QED BY <1>1, <1>2 DEF Related

-----------------------------------------------------------------------------
(* The invariant *)

LEMMA LeakageInitEstablishes == LeakageInit => LeakageInv
<1> SUFFICES ASSUME LeakageInit PROVE LeakageInv
  OBVIOUS
<1>1. LeakageTypeOK
  BY DEF LeakageInit, LeakageTypeOK, Partition, Endpoint
<1>2. Done = {}
  BY DEF LeakageInit, Done
<1> QED
  BY <1>1, <1>2 DEF LeakageInit, LeakageInv, InOrder, HeapIsCurrent, GroupsAreSound,
    GroupsAreComplete, SplitIsEnforced

\* A pass of the sweep takes endpoints from pending; ranges stay.
LEMMA SweepFacts ==
  ASSUME LeakageInv, NEW e \in Endpoint, Sweep(e)
  PROVE  /\ ends' = ends /\ (\A f : RangeOf(f)' = RangeOf(f))
         /\ pending' \subseteq pending
         /\ Done' = Done \cup StartingWith(e)
         /\ StartingWith(e) \subseteq pending /\ e \in StartingWith(e)
         /\ active' = StillActive(e) \cup StartingWith(e)
         /\ book' = RangeOf(e).book
         /\ e \in pending
         /\ StillActive(e) \subseteq active
<1>1. ends' = ends /\ (\A f : RangeOf(f)' = RangeOf(f))
  BY DEF Sweep, RangeOf
<1>2. e \in pending /\ pending \subseteq Endpoint
  BY DEF Sweep, IsNext, LeakageInv, LeakageTypeOK
<1>3. StartingWith(e) \subseteq pending /\ e \in StartingWith(e)
  BY <1>2 DEF StartingWith
<1>4. pending' = pending \ StartingWith(e) /\ book' = RangeOf(e).book
      /\ active' = StillActive(e) \cup StartingWith(e)
  BY DEF Sweep
<1>5. StillActive(e) \subseteq active
  BY DEF StillActive
<1> QED BY <1>1, <1>2, <1>3, <1>4, <1>5 DEF Done

LEMMA SweepInOrder ==
  ASSUME LeakageInv, NEW e \in Endpoint, Sweep(e)
  PROVE  InOrder'
<1>1. ends \in [Relationship -> EndpointPairs] /\ pending \subseteq Endpoint /\ book \in Nat
  BY DEF LeakageInv, LeakageTypeOK
<1>2. \A p \in pending : Precedes(RangeOf(e), RangeOf(p))
  BY DEF Sweep, IsNext
<1>3. \A d \in Done : d \in Endpoint
  BY DEF Done
<1>4. ASSUME NEW d \in Done' PROVE RangeOf(d).book <= RangeOf(e).book
  <2>1. CASE d \in Done
    BY <2>1, <1>1, <1>3, SweepFacts, RangeFacts DEF LeakageInv, InOrder
  <2>2. CASE d \in StartingWith(e)
    BY <2>2, <1>1, SweepFacts, RangeFacts DEF StartingWith
  <2> QED BY <1>4, <2>1, <2>2, SweepFacts
<1>5. ASSUME NEW d \in Done', NEW p \in pending'
      PROVE \/ RangeOf(d).book < RangeOf(p).book
            \/ RangeOf(d).book = RangeOf(p).book /\ RangeOf(d).start < RangeOf(p).start
  <2>1. p \in pending /\ p \notin StartingWith(e)
    BY <1>5 DEF Sweep
  <2>2. CASE d \in Done
    BY <2>1, <2>2 DEF LeakageInv, InOrder
  <2>3. CASE d \in StartingWith(e)
    <3>1. RangeOf(d).book = RangeOf(e).book /\ RangeOf(d).start = RangeOf(e).start
      BY <2>3 DEF StartingWith
    <3>2. ~(RangeOf(p).book = RangeOf(e).book /\ RangeOf(p).start = RangeOf(e).start)
      BY <2>1 DEF StartingWith
    <3>3. Precedes(RangeOf(e), RangeOf(p))
      BY <1>2, <2>1
    <3>4. p \in Endpoint
      BY <1>1, <2>1
    <3> QED BY <3>1, <3>2, <3>3, <3>4, <1>1, RangeFacts DEF Precedes
  <2> QED BY <1>5, <2>2, <2>3, SweepFacts
<1>6. book' = RangeOf(e).book /\ (\A f : RangeOf(f)' = RangeOf(f))
  BY SweepFacts
<1> QED BY <1>4, <1>5, <1>6 DEF InOrder

LEMMA SweepHeapIsCurrent ==
  ASSUME LeakageInv, NEW e \in Endpoint, Sweep(e)
  PROVE  HeapIsCurrent'
<1>1. ends \in [Relationship -> EndpointPairs] /\ pending \subseteq Endpoint
      /\ active \subseteq Done /\ (\A d \in Done : d \in Endpoint) /\ book \in Nat
  BY DEF LeakageInv, LeakageTypeOK, HeapIsCurrent, Done
<1>2. active' \subseteq Done'
  BY <1>1, SweepFacts
<1>3. ASSUME NEW a \in active' PROVE RangeOf(a).book = RangeOf(e).book
  <2>1. CASE a \in StillActive(e)
    BY <2>1 DEF StillActive, LeakageInv, HeapIsCurrent
  <2>2. CASE a \in StartingWith(e)
    BY <2>2 DEF StartingWith
  <2> QED BY <1>3, <2>1, <2>2, SweepFacts
<1>4. ASSUME NEW d \in Done' \ active', NEW p \in pending'
      PROVE ~Overlap(RangeOf(d), RangeOf(p))
  <2>1. d \in Done /\ p \in pending /\ d \notin StillActive(e)
    BY <1>4, SweepFacts
  <2>2. CASE d \notin active
    BY <2>1, <2>2 DEF LeakageInv, HeapIsCurrent
  <2>3. CASE d \in active
    <3>1. RangeOf(e).book # book \/ RangeOf(d).end < RangeOf(e).start
      BY <2>1, <2>3, <1>1, RangeFacts DEF StillActive
    <3>2. RangeOf(d).book = book
      BY <2>3 DEF LeakageInv, HeapIsCurrent
    <3>3. Precedes(RangeOf(e), RangeOf(p))
      BY <2>1 DEF Sweep, IsNext
    <3>4. RangeOf(d).book <= RangeOf(e).book
      BY <2>1, <1>1, SweepFacts, RangeFacts DEF LeakageInv, InOrder
    <3>5. p \in Endpoint /\ d \in Endpoint
      BY <1>1, <2>1
    <3> QED BY <3>1, <3>2, <3>3, <3>4, <3>5, <1>1, RangeFacts DEF Precedes, Overlap
  <2> QED BY <2>2, <2>3
<1>5. book' = RangeOf(e).book /\ (\A f : RangeOf(f)' = RangeOf(f))
  BY SweepFacts
<1>6. \A i, j : Overlap(i, j)' <=> Overlap(i, j)
  BY DEF Overlap
<1> QED BY <1>2, <1>3, <1>4, <1>5 DEF HeapIsCurrent, Overlap

\* What is in the heap after a pass lies over the start of the pass.
LEMMA HeapCoversStart ==
  ASSUME LeakageInv, NEW e \in Endpoint, Sweep(e),
         NEW a \in StillActive(e) \cup StartingWith(e)
  PROVE  /\ a \in Endpoint
         /\ RangeOf(a).book = RangeOf(e).book
         /\ RangeOf(a).start <= RangeOf(e).start /\ RangeOf(e).start <= RangeOf(a).end
<1>1. ends \in [Relationship -> EndpointPairs] /\ pending \subseteq Endpoint
      /\ active \subseteq Done /\ (\A d \in Done : d \in Endpoint)
  BY DEF LeakageInv, LeakageTypeOK, HeapIsCurrent, Done
<1>2. CASE a \in StartingWith(e)
  BY <1>1, <1>2, RangeFacts, SweepFacts DEF StartingWith
<1>3. CASE a \in StillActive(e)
  <2>1. a \in active /\ RangeOf(e).book = book /\ RangeOf(a).end >= RangeOf(e).start
    BY <1>3 DEF StillActive
  <2>2. RangeOf(a).book = book /\ a \in Done /\ a \in Endpoint
    BY <2>1, <1>1 DEF LeakageInv, HeapIsCurrent
  <2>3. \/ RangeOf(a).book < RangeOf(e).book
        \/ RangeOf(a).book = RangeOf(e).book /\ RangeOf(a).start < RangeOf(e).start
    BY <2>2, SweepFacts DEF LeakageInv, InOrder
  <2> QED BY <2>1, <2>2, <2>3, <1>1, RangeFacts
<1> QED BY <1>2, <1>3

LEMMA SweepGroups ==
  ASSUME NEW e \in Endpoint, Sweep(e)
  PROVE  LET now == StillActive(e) \cup StartingWith(e)
             g == [book |-> RangeOf(e).book, start |-> RangeOf(e).start,
                   members |-> Members(now)]
         IN /\ groups \subseteq groups' /\ groups' \subseteq groups \cup {g}
            /\ (\E r, s \in Members(now) : r # s) => g \in groups'
BY DEF Sweep

LEMMA SweepGroupsAreSound ==
  ASSUME LeakageInv, NEW e \in Endpoint, Sweep(e)
  PROVE  GroupsAreSound'
<1> DEFINE now == StillActive(e) \cup StartingWith(e)
<1> DEFINE new == [book |-> RangeOf(e).book, start |-> RangeOf(e).start,
                   members |-> Members(now)]
<1>1. ends' = ends
  BY SweepFacts
<1>2. ASSUME NEW r \in Members(now)
      PROVE \E s \in Side : /\ ends[r][s].book = new.book
                            /\ ends[r][s].start <= new.start
                            /\ new.start <= ends[r][s].end
  <2>1. PICK a \in now : a[1] = r
    BY <1>2 DEF Members
  <2>2. /\ a \in Endpoint
        /\ RangeOf(a).book = RangeOf(e).book
        /\ RangeOf(a).start <= RangeOf(e).start /\ RangeOf(e).start <= RangeOf(a).end
    BY <2>1, HeapCoversStart
  <2>3. a[2] \in Side
    BY <2>2 DEF Endpoint
  <2>4. RangeOf(a) = ends[r][a[2]]
    BY <2>1 DEF RangeOf
  <2>5. new.book = RangeOf(e).book /\ new.start = RangeOf(e).start
    OBVIOUS
  <2> HIDE DEF now, new
  <2> QED BY <2>2, <2>3, <2>4, <2>5
<1>3. ASSUME NEW g \in groups', NEW r \in g.members
      PROVE \E s \in Side : /\ ends[r][s].book = g.book
                            /\ ends[r][s].start <= g.start /\ g.start <= ends[r][s].end
  <2>1. CASE g \in groups
    BY <1>3, <2>1 DEF LeakageInv, GroupsAreSound
  <2>2. CASE g = new
    <3>1. r \in Members(now)
      BY <1>3, <2>2
    <3> HIDE DEF now, new
    <3> QED BY <1>2, <2>2, <3>1
  <2>3. g \in groups \/ g = new
    BY <1>3, SweepGroups
  <2> QED BY <2>1, <2>2, <2>3
<1> HIDE DEF now, new
<1> QED BY <1>1, <1>3 DEF GroupsAreSound

LEMMA SweepGroupsAreComplete ==
  ASSUME LeakageInv, NEW e \in Endpoint, Sweep(e)
  PROVE  GroupsAreComplete'
<1> DEFINE now == StillActive(e) \cup StartingWith(e)
<1> DEFINE new == [book |-> RangeOf(e).book, start |-> RangeOf(e).start,
                   members |-> Members(now)]
<1>1. ends \in [Relationship -> EndpointPairs] /\ pending \subseteq Endpoint
      /\ active \subseteq Done /\ (\A d \in Done : d \in Endpoint)
  BY DEF LeakageInv, LeakageTypeOK, HeapIsCurrent, Done
<1>2. ASSUME NEW c \in now, NEW d \in now, c[1] # d[1]
      PROVE Shared(c[1], d[1])'
  <2>1. c[1] \in Members(now) /\ d[1] \in Members(now)
    BY <1>2 DEF Members
  <2>2. new \in groups'
    BY <1>2, <2>1, SweepGroups
  <2>3. c[1] \in new.members /\ d[1] \in new.members
    BY <2>1
  <2> HIDE DEF now, new
  <2> QED BY <2>2, <2>3 DEF Shared
<1>3. ASSUME NEW c \in Done', NEW d \in StartingWith(e),
             c[1] # d[1], Overlap(RangeOf(c), RangeOf(d))
      PROVE c \in now
  <2>1. CASE c \in StartingWith(e)
    BY <2>1
  <2>2. CASE c \in Done
    <3>1. d \in pending /\ RangeOf(d).book = RangeOf(e).book
          /\ RangeOf(d).start = RangeOf(e).start
      BY <1>3 DEF StartingWith
    <3>2. c \in active
      BY <1>3, <2>2, <3>1 DEF LeakageInv, HeapIsCurrent
    <3>3. RangeOf(c).book = book
      BY <3>2 DEF LeakageInv, HeapIsCurrent
    <3>4. c \in StillActive(e)
      BY <1>1, <1>3, <2>2, <3>1, <3>2, <3>3, RangeFacts DEF StillActive, Overlap
    <3> QED BY <3>4
  <2> QED BY <1>3, <2>1, <2>2, SweepFacts
<1>4. ASSUME NEW c \in Done', NEW d \in Done',
             c[1] # d[1], Overlap(RangeOf(c), RangeOf(d))
      PROVE Shared(c[1], d[1])'
  <2>1. CASE d \in StartingWith(e)
    <3>1. c \in now /\ d \in now
      BY <1>3, <1>4, <2>1
    <3> HIDE DEF now
    <3> QED BY <1>2, <1>4, <3>1
  <2>2. CASE c \in StartingWith(e)
    <3>1. Overlap(RangeOf(d), RangeOf(c))
      BY <1>4, OverlapIsSymmetric
    <3>2. c \in now /\ d \in now
      BY <1>3, <1>4, <2>2, <3>1
    <3> HIDE DEF now
    <3> QED BY <1>2, <1>4, <3>2
  <2>3. CASE c \in Done /\ d \in Done
    <3>1. Shared(c[1], d[1])
      BY <1>4, <2>3 DEF LeakageInv, GroupsAreComplete
    <3>2. groups \subseteq groups'
      BY SweepGroups
    <3> QED BY <3>1, <3>2 DEF Shared
  <2> QED BY <1>4, <2>1, <2>2, <2>3, SweepFacts
<1>5. \A f : RangeOf(f)' = RangeOf(f)
  BY SweepFacts
<1> HIDE DEF now, new
<1> QED BY <1>4, <1>5 DEF GroupsAreComplete, Overlap

LEMMA SweepTypeOK ==
  ASSUME LeakageInv, NEW e \in Endpoint, Sweep(e)
  PROVE  LeakageTypeOK'
<1> DEFINE now == StillActive(e) \cup StartingWith(e)
<1> DEFINE new == [book |-> RangeOf(e).book, start |-> RangeOf(e).start,
                   members |-> Members(now)]
<1>1. LeakageTypeOK
  BY DEF LeakageInv
<1>2. now \subseteq Endpoint
  BY HeapCoversStart
<1>3. new \in Group
  <2>1. RangeOf(e).book \in Nat /\ RangeOf(e).start \in Nat
    BY <1>1, RangeFacts DEF LeakageTypeOK
  <2>2. Members(now) \subseteq Relationship
    BY <1>2 DEF Members, Endpoint
  <2> HIDE DEF now
  <2> QED BY <2>1, <2>2 DEF Group
<1>4. groups' \subseteq Group
  BY <1>1, <1>3, SweepGroups DEF LeakageTypeOK
<1>5. active' \subseteq Endpoint
  BY <1>2, SweepFacts
<1>6. book' \in Nat /\ pending' \subseteq Endpoint
  BY <1>1, SweepFacts, RangeFacts DEF LeakageTypeOK
<1>7. UNCHANGED <<ends, split, base, partition>>
  BY DEF Sweep
<1> HIDE DEF now, new
<1> QED BY <1>1, <1>4, <1>5, <1>6, <1>7 DEF LeakageTypeOK

LEMMA SweepSplit ==
  ASSUME LeakageInv, NEW e \in Endpoint, Sweep(e)
  PROVE  SplitIsEnforced'
<1>1. pending # {}
  BY SweepFacts
<1>2. split' = split /\ ~split
  BY <1>1 DEF Sweep, LeakageInv, SplitIsEnforced
<1> QED BY <1>2 DEF SplitIsEnforced

\* What a hash may say is a partition.
LEMMA PriorityIsPartition ==
  ASSUME NEW P \in SUBSET HeldOut PROVE Priority(P) \in Partition
BY DEF Priority, Partition

LEMMA SplitTypes ==
  ASSUME LeakageInv, Split
  PROVE  base' \in [Relationship -> Partition] /\ partition' \in [Relationship -> Partition]
<1>1. ends \in [Relationship -> EndpointPairs]
  BY DEF LeakageInv, LeakageTypeOK
<1>2. ASSUME NEW r \in Relationship, NEW hash \in [Books -> HeldOut]
      PROVE ByBook(r, hash) \in Partition
  <2>1. \A s \in Side : ends[r][s].book \in Books
    BY <1>1, LeakageAssumption DEF Books
  <2>2. {hash[ends[r][s].book] : s \in Side} \in SUBSET HeldOut
    BY <2>1
  <2> QED BY <2>2, PriorityIsPartition DEF ByBook
<1>3. ASSUME NEW r \in Relationship, NEW hash \in [Passages -> HeldOut]
      PROVE ByPassage(r, hash) \in Partition
  <2>1. CASE \E s \in Side : ends[r][s].start # ends[r][s].end
    BY <2>1 DEF ByPassage, Partition
  <2>2. CASE \A s \in Side : ends[r][s].start = ends[r][s].end
    <3>1. ends[r] \in [Side -> Range] /\ 1 \in Side
      BY <1>1, LeakageAssumption DEF Side
    <3>2. ends[r][1] \in Passages
      BY <2>2, <3>1 DEF Passages
    <3>3. hash[ends[r][1]] \in Partition
      BY <3>2, LeakageAssumption DEF Partition
    <3> QED BY <3>3 DEF ByPassage, Partition
  <2> QED BY <2>1, <2>2
<1>4. PICK eligible \in SUBSET Relationship :
        \/ \E hash \in [Books -> HeldOut] :
             base' = [r \in Relationship |->
                        IF r \in eligible THEN ByBook(r, hash) ELSE "excluded"]
        \/ \E hash \in [Passages -> HeldOut] :
             base' = [r \in Relationship |->
                        IF r \in eligible THEN ByPassage(r, hash) ELSE "excluded"]
  BY DEF Split
<1>5. "excluded" \in Partition
  BY DEF Partition
<1>6. base' \in [Relationship -> Partition]
  BY <1>2, <1>3, <1>4, <1>5
<1>7. partition' = Enforced(base')
  BY DEF Split
<1> QED BY <1>5, <1>6, <1>7 DEF Enforced

LEMMA SplitKeeps ==
  ASSUME LeakageInv, Split
  PROVE  LeakageInv'
<1>1. UNCHANGED sweepVars /\ split' = TRUE /\ pending = {} /\ partition' = Enforced(base')
  BY DEF Split
<1>2. UNCHANGED <<ends, pending, book, active, groups>>
  BY <1>1 DEF sweepVars
<1>3. LeakageTypeOK'
  BY <1>1, <1>2, SplitTypes DEF LeakageInv, LeakageTypeOK
<1>4. InOrder' /\ HeapIsCurrent' /\ GroupsAreSound' /\ GroupsAreComplete'
  BY <1>2 DEF LeakageInv, InOrder, HeapIsCurrent, GroupsAreSound, GroupsAreComplete,
    Done, RangeOf, Shared, Overlap
<1>5. SplitIsEnforced'
  BY <1>1, <1>2 DEF SplitIsEnforced, Enforced, Crosses
<1> QED BY <1>3, <1>4, <1>5 DEF LeakageInv

LEMMA LeakageStepKeeps == LeakageInv /\ [LeakageNext]_leakageVars => LeakageInv'
<1> SUFFICES ASSUME LeakageInv, [LeakageNext]_leakageVars PROVE LeakageInv'
  OBVIOUS
<1>1. ASSUME NEW e \in Endpoint, Sweep(e) PROVE LeakageInv'
  BY <1>1, SweepTypeOK, SweepInOrder, SweepHeapIsCurrent, SweepGroupsAreSound,
    SweepGroupsAreComplete, SweepSplit DEF LeakageInv
<1>2. CASE Split
  BY <1>2, SplitKeeps
<1>3. CASE UNCHANGED leakageVars
  BY <1>3 DEF leakageVars, sweepVars, LeakageInv, LeakageTypeOK, InOrder, HeapIsCurrent,
    GroupsAreSound, GroupsAreComplete, SplitIsEnforced, Done, RangeOf, Shared,
    Overlap, Enforced, Crosses
<1> QED BY <1>1, <1>2, <1>3 DEF LeakageNext

LEMMA LeakageInvariant == LeakageSpec => []LeakageInv
BY LeakageInitEstablishes, LeakageStepKeeps, PTL DEF LeakageSpec

-----------------------------------------------------------------------------
(* The results *)

\* In any instance the variables of the sweep and of the split keep their
\* types: heap and groups speak of endpoints and relationships there are.
THEOREM LeakageTypes == LeakageSpec => []LeakageTypeOK
<1>1. LeakageInv => LeakageTypeOK
  BY DEF LeakageInv
<1> QED BY <1>1, LeakageInvariant, PTL

\* Whoever shares a group overlaps: both lie over the start that names it.
LEMMA SharedAreRelated ==
  ASSUME LeakageInv, NEW r \in Relationship, NEW s \in Relationship, Shared(r, s)
  PROVE  Related(r, s)
<1>1. PICK g \in groups : r \in g.members /\ s \in g.members
  BY DEF Shared
<1>2. PICK a \in Side : /\ ends[r][a].book = g.book
                        /\ ends[r][a].start <= g.start /\ g.start <= ends[r][a].end
  BY <1>1 DEF LeakageInv, GroupsAreSound
<1>3. PICK b \in Side : /\ ends[s][b].book = g.book
                        /\ ends[s][b].start <= g.start /\ g.start <= ends[s][b].end
  BY <1>1 DEF LeakageInv, GroupsAreSound
<1>4. ends[r][a] \in Range /\ ends[s][b] \in Range
  BY LeakageAssumption DEF LeakageInv, LeakageTypeOK
<1>5. g.start \in Nat
  BY <1>1 DEF LeakageInv, LeakageTypeOK, Group
<1>6. Overlap(ends[r][a], ends[s][b])
  BY <1>2, <1>3, <1>4, <1>5, LeakageAssumption DEF Overlap
<1> QED BY <1>6 DEF Related

LEMMA RelatedAreShared ==
  ASSUME LeakageInv, pending = {}, NEW r \in Relationship, NEW s \in Relationship,
         r # s, Related(r, s)
  PROVE  Shared(r, s)
<1>1. PICK c \in Endpoint, d \in Endpoint :
        c[1] = r /\ d[1] = s /\ Overlap(RangeOf(c), RangeOf(d))
  BY RelatedFacts
<1>2. c \in Done /\ d \in Done
  BY DEF Done
<1> QED BY <1>1, <1>2 DEF LeakageInv, GroupsAreComplete

\* For any relationships and ranges, two relationships are in a common
\* leakage group of the finished sweep exactly if their ranges overlap.
THEOREM LeakageGroupsAreExact == LeakageSpec => []GroupsAreExact
<1>1. ASSUME LeakageInv PROVE GroupsAreExact
  <2> SUFFICES ASSUME pending = {}, NEW r \in Relationship, NEW s \in Relationship, r # s
               PROVE Related(r, s) <=> \E g \in groups : {r, s} \subseteq g.members
    BY DEF GroupsAreExact
  <2>1. Related(r, s) <=> Shared(r, s)
    BY <1>1, SharedAreRelated, RelatedAreShared
  <2> QED BY <2>1 DEF Shared
<1> QED BY <1>1, LeakageInvariant, PTL

\* For any relationships, ranges, hashes and eligibility, overlapping
\* relationships are never in different partitions of a split, and only a
\* crossing of partitions excludes.
THEOREM LeakageSplitsDoNotLeak == LeakageSpec => []SplitsDoNotLeak
<1>1. ASSUME LeakageInv PROVE SplitsDoNotLeak
  <2> SUFFICES ASSUME split, NEW r \in Relationship
               PROVE /\ \A s \in Relationship :
                          Related(r, s) => \/ "excluded" \in {partition[r], partition[s]}
                                           \/ partition[r] = partition[s]
                     /\ partition[r] # base[r] =>
                          \E s, t \in Relationship :
                            /\ Related(r, s) /\ Related(r, t) /\ base[s] # base[t]
                            /\ "excluded" \notin {base[s], base[t]}
    BY DEF SplitsDoNotLeak
  <2>1. pending = {} /\ partition = Enforced(base)
    BY <1>1 DEF LeakageInv, SplitIsEnforced
  <2>2. \A s \in Relationship :
          partition[s] = IF \E g \in groups : s \in g.members /\ Crosses(g, base)
                           THEN "excluded" ELSE base[s]
    BY <2>1 DEF Enforced
  <2>3. ASSUME NEW s \in Relationship, Related(r, s),
               partition[r] # "excluded", partition[s] # "excluded",
               partition[r] # partition[s]
        PROVE FALSE
    <3>1. r # s
      BY <2>3
    <3>2. PICK g \in groups : r \in g.members /\ s \in g.members
      BY <1>1, <2>1, <2>3, <3>1, RelatedAreShared DEF Shared
    <3>3. partition[r] = base[r] /\ partition[s] = base[s]
      BY <2>2, <2>3
    <3>4. Crosses(g, base)
      BY <2>3, <3>2, <3>3 DEF Crosses
    <3> QED BY <2>2, <2>3, <3>2, <3>4
  <2>4. ASSUME partition[r] # base[r]
        PROVE \E s, t \in Relationship :
                /\ Related(r, s) /\ Related(r, t) /\ base[s] # base[t]
                /\ "excluded" \notin {base[s], base[t]}
    <3>1. PICK g \in groups : r \in g.members /\ Crosses(g, base)
      BY <2>2, <2>4
    <3>2. PICK s \in g.members, t \in g.members :
            base[s] # "excluded" /\ base[t] # "excluded" /\ base[s] # base[t]
      BY <3>1 DEF Crosses
    <3>3. s \in Relationship /\ t \in Relationship
      BY <1>1, <3>1, <3>2 DEF LeakageInv, LeakageTypeOK, Group
    <3>4. Shared(r, s) /\ Shared(r, t)
      BY <3>1, <3>2 DEF Shared
    <3>5. Related(r, s) /\ Related(r, t)
      BY <1>1, <3>3, <3>4, SharedAreRelated
    <3> QED BY <3>2, <3>3, <3>5
  <2> QED BY <2>3, <2>4
<1> QED BY <1>1, LeakageInvariant, PTL

(***************************************************************************)
(* Imports are genuine and agree, for any number of imports and versions.  *)
(* No single check of the source shows that its two completions are of one *)
(* run: the invariant follows what is known of them from the first         *)
(* authentication to the moment the bytes are found equal to it.           *)
(***************************************************************************)

Checked == {"run", "copy", "evidence", "publish", "verify", "imported"}

\* The source changes at most once, from Original, so what was authenticated
\* of stage 1 is still there or was Original.
FirstIsKnown ==
  \A i \in Importer : phase[i] = "authenticate" /\ at[i] = 2 =>
    held[i][1] \in Version /\ held[i][1] \in {source[1], Original}

\* Stage 2 was computed from another stage 1 only if stage 1 was replaced
\* after its authentication, and then the bytes read of it tell.
PairIsKnown ==
  \A i \in Importer : phase[i] = "read" =>
    /\ held[i] \in [InputStage -> Version]
    /\ \/ held[i][1] = held[i][2]
       \/ at[i] = 1 /\ source[1] \notin {Original, held[i][1]}
       \/ at[i] = 2 /\ bytes[i][1] # held[i][1]

OneRunIsHeld ==
  \A i \in Importer : phase[i] \in Checked =>
    /\ bytes[i] = held[i]
    /\ held[i] \in [InputStage -> Version]
    /\ held[i][1] = held[i][2]

VerifiedIsThere ==
  \A i \in Importer : phase[i] = "verify" => target[at[i]] # Unset

\* An import at stage 2 has found its own stage 1 in the target.
FirstIsMine ==
  \A i \in Importer : phase[i] \in Checked /\ at[i] = 2 =>
    IsImport(1) /\ target[1].evidence = bytes[i]

BothAreMine ==
  \A i \in Importer : phase[i] = "imported" =>
    at[i] = 2 /\ IsImport(2) /\ target[2].evidence = bytes[i]

SecondFollowsFirst ==
  IsImport(2) => IsImport(1) /\ target[1].evidence = target[2].evidence

ImportInv == /\ ImportTypeOK /\ FirstIsKnown /\ PairIsKnown /\ OneRunIsHeld
        /\ VerifiedIsThere /\ FirstIsMine /\ BothAreMine
        /\ SecondFollowsFirst /\ ImportIsGenuine

-----------------------------------------------------------------------------

\* What an import is about to publish is of the one run it holds.
LEMMA NewIsGenuine ==
  ASSUME ImportInv, NEW i \in Importer, phase[i] = "publish"
  PROVE  /\ \E v \in Version :
              Imported(i, at[i]) = [art |-> Produced[v][at[i]],
                                    evidence |-> [t \in InputStage |-> v]]
         /\ Imported(i, at[i]) \in [art : Content, evidence : [InputStage -> Version]]
<1>1. bytes[i] = held[i] /\ held[i] \in [InputStage -> Version] /\ held[i][1] = held[i][2]
  BY DEF ImportInv, OneRunIsHeld, Checked
<1>2. at[i] \in InputStage
  BY DEF ImportInv, ImportTypeOK
<1>3. bytes[i] = [t \in InputStage |-> held[i][1]] /\ held[i][at[i]] = held[i][1]
  BY <1>1, <1>2 DEF InputStage
<1>4. held[i][1] \in Version
  BY <1>1 DEF InputStage
<1>5. Produced[held[i][1]][at[i]] \in Content
  BY <1>2, <1>4, ImportAssumption
<1> QED BY <1>1, <1>3, <1>4, <1>5 DEF Imported

\* The two outcomes of a publication.
LEMMA Publishing ==
  ASSUME ImportInv, NEW i \in Importer, PublishImport(i)
  PROVE  /\ phase[i] = "publish" /\ at' = at /\ held' = held /\ bytes' = bytes
         /\ source' = source
         /\ \/ target' = target /\ phase' = [phase EXCEPT ![i] = "raised"]
            \/ /\ target[at[i]] = Unset /\ phase' = [phase EXCEPT ![i] = "verify"]
               /\ target'[at[i]] = Imported(i, at[i])
               /\ \A s \in InputStage : s # at[i] => target'[s] = target[s]
               /\ target' \in [InputStage -> Completion \cup {Unset}]
<1>1. /\ phase[i] = "publish" /\ held' = held /\ bytes' = bytes /\ source' = source
      /\ at' = [at EXCEPT ![i] = at[i]]
  BY DEF PublishImport, Move, Raise
<1>2. at' = at
  BY <1>1 DEF ImportInv, ImportTypeOK
<1>3. CASE target[at[i]] # Unset
  BY <1>1, <1>2, <1>3 DEF PublishImport, Move, Raise
<1>4. CASE target[at[i]] = Unset
  <2>1. Imported(i, at[i]) \in Completion
    BY <1>1, NewIsGenuine DEF Completion
  <2>2. target' = [target EXCEPT ![at[i]] = Imported(i, at[i])] /\ at[i] \in InputStage
        /\ phase' = [phase EXCEPT ![i] = "verify"]
    BY <1>4 DEF PublishImport, Move, ImportInv, ImportTypeOK
  <2>3. target \in [InputStage -> Completion \cup {Unset}]
    BY DEF ImportInv, ImportTypeOK
  <2> QED BY <1>1, <1>2, <1>4, <2>1, <2>2, <2>3
<1> QED BY <1>3, <1>4

\* An import goes on only over a stage that is its own.
LEMMA Verifying ==
  ASSUME ImportInv, NEW i \in Importer, VerifyTarget(i), phase'[i] # "raised"
  PROVE  IsImport(at[i]) /\ target[at[i]].evidence = bytes[i]
<1>1. phase[i] = "verify" /\ Accepts(i, at[i])
  BY DEF VerifyTarget, Raise, Move, ImportInv, ImportTypeOK
<1>2. bytes[i] \in [InputStage -> Version]
  BY <1>1 DEF ImportInv, OneRunIsHeld, Checked
<1>3. target[at[i]] # Unset
  BY <1>1 DEF ImportInv, VerifiedIsThere
<1> QED BY <1>1, <1>2, <1>3, ImportAssumption DEF Accepts, IsImport

LEMMA TypesStep ==
  ASSUME ImportInv, [ImportNext]_importVars
  PROVE  ImportTypeOK'
<1>1. ASSUME NEW i \in Importer, BeginImport(i) PROVE ImportTypeOK'
  BY <1>1, ImportAssumption DEF BeginImport, Move, files, ImportInv, ImportTypeOK, Phase,
    Completion, InputStage, Imported
<1>2. ASSUME NEW i \in Importer, AuthenticateSource(i) PROVE ImportTypeOK'
  <2>1. source[at[i]] \in Version
    BY <1>2 DEF ImportInv, ImportTypeOK
  <2>2. held' \in [Importer -> [InputStage -> Version \cup {Unset}]]
    <3>1. held' = held \/ held' = [held EXCEPT ![i][at[i]] = source[at[i]]]
      BY <1>2 DEF AuthenticateSource
    <3>2. held \in [Importer -> [InputStage -> Version \cup {Unset}]] /\ at[i] \in InputStage
      BY DEF ImportInv, ImportTypeOK
    <3> QED BY <2>1, <3>1, <3>2
  <2>3. phase' \in [Importer -> Phase] /\ at' \in [Importer -> InputStage]
    BY <1>2 DEF AuthenticateSource, Move, Raise, ImportInv, ImportTypeOK, Phase, InputStage
  <2> QED BY <1>2, <2>2, <2>3 DEF AuthenticateSource, files, ImportInv, ImportTypeOK
<1>3. ASSUME NEW i \in Importer, ReadBytes(i) PROVE ImportTypeOK'
  BY <1>3, ImportAssumption DEF ReadBytes, Move, Raise, files, ImportInv, ImportTypeOK,
    Phase, Completion, InputStage, Imported
<1>4. ASSUME NEW i \in Importer, RunStage(i) PROVE ImportTypeOK'
  BY <1>4, ImportAssumption DEF RunStage, Move, files, ImportInv, ImportTypeOK, Phase,
    Completion, InputStage, Imported
<1>5. ASSUME NEW i \in Importer, CopyArtifacts(i) PROVE ImportTypeOK'
  BY <1>5, ImportAssumption DEF CopyArtifacts, Move, Raise, files, ImportInv, ImportTypeOK,
    Phase, Completion, InputStage, Imported
<1>6. ASSUME NEW i \in Importer, WriteEvidence(i) PROVE ImportTypeOK'
  BY <1>6, ImportAssumption DEF WriteEvidence, Move, Raise, files, ImportInv, ImportTypeOK,
    Phase, Completion, InputStage, Imported
<1>7. ASSUME NEW i \in Importer, PublishImport(i) PROVE ImportTypeOK'
  BY <1>7, Publishing DEF PublishImport, ImportInv, ImportTypeOK, Phase
<1>8. ASSUME NEW i \in Importer, VerifyTarget(i) PROVE ImportTypeOK'
  BY <1>8, ImportAssumption DEF VerifyTarget, Move, Raise, files, ImportInv, ImportTypeOK,
    Phase, Completion, InputStage, Imported
<1>9. ASSUME NEW i \in Importer, ImporterDies(i) PROVE ImportTypeOK'
  BY <1>9, ImportAssumption DEF ImporterDies, Move, files, ImportInv, ImportTypeOK, Phase,
    Completion, InputStage, Imported
<1>10. ASSUME NEW s \in InputStage, WorkerCompletes(s) PROVE ImportTypeOK'
  BY <1>10, ImportAssumption DEF WorkerCompletes, files, ImportInv, ImportTypeOK, Phase,
    Completion, InputStage, Imported
<1>11. ASSUME NEW s \in InputStage, SourceReplaced(s) PROVE ImportTypeOK'
  BY <1>11, ImportAssumption DEF SourceReplaced, files, ImportInv, ImportTypeOK, Phase,
    Completion, InputStage, Imported
<1>12. CASE SourceDamaged
  BY <1>12, ImportAssumption DEF SourceDamaged, files, ImportInv, ImportTypeOK, Phase,
    Completion, InputStage, Imported
<1>13. CASE UNCHANGED importVars
  BY <1>13 DEF importVars, files, ImportInv, ImportTypeOK, Phase, Completion, InputStage,
    Imported
<1> QED BY <1>1, <1>2, <1>3, <1>4, <1>5, <1>6, <1>7, <1>8, <1>9, <1>10, <1>11, <1>12,
  <1>13
  DEF ImportNext, Import

LEMMA FirstIsKnownStep ==
  ASSUME ImportInv, [ImportNext]_importVars
  PROVE  FirstIsKnown'
<1>1. ASSUME NEW i \in Importer, BeginImport(i) PROVE FirstIsKnown'
  BY <1>1, ImportAssumption DEF BeginImport, Move, files, ImportInv, ImportTypeOK,
    FirstIsKnown, Checked, InputStage
<1>2. ASSUME NEW i \in Importer, AuthenticateSource(i) PROVE FirstIsKnown'
  BY <1>2, ImportAssumption DEF AuthenticateSource, Move, Raise, files, ImportInv,
    ImportTypeOK, FirstIsKnown, Checked, InputStage
<1>3. ASSUME NEW i \in Importer, ReadBytes(i) PROVE FirstIsKnown'
  BY <1>3, ImportAssumption DEF ReadBytes, Move, Raise, files, ImportInv, ImportTypeOK,
    FirstIsKnown, Checked, InputStage
<1>4. ASSUME NEW i \in Importer, RunStage(i) PROVE FirstIsKnown'
  BY <1>4, ImportAssumption DEF RunStage, Move, files, ImportInv, ImportTypeOK,
    FirstIsKnown, Checked, InputStage
<1>5. ASSUME NEW i \in Importer, CopyArtifacts(i) PROVE FirstIsKnown'
  BY <1>5, ImportAssumption DEF CopyArtifacts, Move, Raise, files, ImportInv, ImportTypeOK,
    FirstIsKnown, Checked, InputStage
<1>6. ASSUME NEW i \in Importer, WriteEvidence(i) PROVE FirstIsKnown'
  BY <1>6, ImportAssumption DEF WriteEvidence, Move, Raise, files, ImportInv, ImportTypeOK,
    FirstIsKnown, Checked, InputStage
<1>7. ASSUME NEW i \in Importer, PublishImport(i) PROVE FirstIsKnown'
  BY <1>7, ImportAssumption DEF PublishImport, Move, Raise, files, ImportInv, ImportTypeOK,
    FirstIsKnown, Checked, InputStage
<1>8. ASSUME NEW i \in Importer, VerifyTarget(i) PROVE FirstIsKnown'
  BY <1>8, ImportAssumption DEF VerifyTarget, Move, Raise, files, ImportInv, ImportTypeOK,
    FirstIsKnown, Checked, InputStage
<1>9. ASSUME NEW i \in Importer, ImporterDies(i) PROVE FirstIsKnown'
  BY <1>9, ImportAssumption DEF ImporterDies, Move, files, ImportInv, ImportTypeOK,
    FirstIsKnown, Checked, InputStage
<1>10. ASSUME NEW s \in InputStage, WorkerCompletes(s) PROVE FirstIsKnown'
  BY <1>10, ImportAssumption DEF WorkerCompletes, files, ImportInv, ImportTypeOK,
    FirstIsKnown, Checked, InputStage
<1>11. ASSUME NEW s \in InputStage, SourceReplaced(s) PROVE FirstIsKnown'
  BY <1>11, ImportAssumption DEF SourceReplaced, files, ImportInv, ImportTypeOK,
    FirstIsKnown, Checked, InputStage
<1>12. CASE SourceDamaged
  BY <1>12, ImportAssumption DEF SourceDamaged, files, ImportInv, ImportTypeOK,
    FirstIsKnown, Checked, InputStage
<1>13. CASE UNCHANGED importVars
  BY <1>13 DEF importVars, files, ImportInv, ImportTypeOK, FirstIsKnown, Checked, InputStage
<1> QED BY <1>1, <1>2, <1>3, <1>4, <1>5, <1>6, <1>7, <1>8, <1>9, <1>10, <1>11, <1>12,
  <1>13
  DEF ImportNext, Import

LEMMA PairIsKnownStep ==
  ASSUME ImportInv, [ImportNext]_importVars
  PROVE  PairIsKnown'
<1>1. ASSUME NEW i \in Importer, BeginImport(i) PROVE PairIsKnown'
  BY <1>1, ImportAssumption DEF BeginImport, Move, files, ImportInv, ImportTypeOK,
    PairIsKnown, Checked, InputStage
<1>2. ASSUME NEW i \in Importer, AuthenticateSource(i) PROVE PairIsKnown'
  <2> SUFFICES ASSUME NEW j \in Importer, phase'[j] = "read"
               PROVE  /\ held'[j] \in [InputStage -> Version]
                      /\ \/ held'[j][1] = held'[j][2]
                         \/ at'[j] = 1 /\ source'[1] \notin {Original, held'[j][1]}
                         \/ at'[j] = 2 /\ bytes'[j][1] # held'[j][1]
    BY DEF PairIsKnown
  <2>1. CASE j # i
    BY <1>2, <2>1 DEF AuthenticateSource, Move, Raise, files, ImportInv, ImportTypeOK,
      PairIsKnown
  <2>2. CASE j = i
    <3>1. /\ at[i] = 2 /\ phase[i] = "authenticate" /\ source[1] = source[2]
          /\ held' = [held EXCEPT ![i][2] = source[2]]
          /\ at'[i] = 1 /\ source' = source
      BY <1>2, <2>2 DEF AuthenticateSource, Move, Raise, files, ImportInv, ImportTypeOK,
        InputStage
    <3>2. held[i][1] \in Version /\ held[i][1] \in {source[1], Original}
      BY <3>1 DEF ImportInv, FirstIsKnown
    <3>3. held'[i][1] = held[i][1] /\ held'[i][2] = source[2]
          /\ held'[i] \in [InputStage -> Version]
      BY <3>1, <3>2 DEF ImportInv, ImportTypeOK, InputStage
    <3> QED BY <2>2, <3>1, <3>2, <3>3
  <2> QED BY <2>1, <2>2
<1>3. ASSUME NEW i \in Importer, ReadBytes(i) PROVE PairIsKnown'
  BY <1>3, ImportAssumption DEF ReadBytes, Move, Raise, files, ImportInv, ImportTypeOK,
    PairIsKnown, Checked, InputStage
<1>4. ASSUME NEW i \in Importer, RunStage(i) PROVE PairIsKnown'
  BY <1>4, ImportAssumption DEF RunStage, Move, files, ImportInv, ImportTypeOK, PairIsKnown,
    Checked, InputStage
<1>5. ASSUME NEW i \in Importer, CopyArtifacts(i) PROVE PairIsKnown'
  BY <1>5, ImportAssumption DEF CopyArtifacts, Move, Raise, files, ImportInv, ImportTypeOK,
    PairIsKnown, Checked, InputStage
<1>6. ASSUME NEW i \in Importer, WriteEvidence(i) PROVE PairIsKnown'
  BY <1>6, ImportAssumption DEF WriteEvidence, Move, Raise, files, ImportInv, ImportTypeOK,
    PairIsKnown, Checked, InputStage
<1>7. ASSUME NEW i \in Importer, PublishImport(i) PROVE PairIsKnown'
  BY <1>7, ImportAssumption DEF PublishImport, Move, Raise, files, ImportInv, ImportTypeOK,
    PairIsKnown, Checked, InputStage
<1>8. ASSUME NEW i \in Importer, VerifyTarget(i) PROVE PairIsKnown'
  BY <1>8, ImportAssumption DEF VerifyTarget, Move, Raise, files, ImportInv, ImportTypeOK,
    PairIsKnown, Checked, InputStage
<1>9. ASSUME NEW i \in Importer, ImporterDies(i) PROVE PairIsKnown'
  BY <1>9, ImportAssumption DEF ImporterDies, Move, files, ImportInv, ImportTypeOK,
    PairIsKnown, Checked, InputStage
<1>10. ASSUME NEW s \in InputStage, WorkerCompletes(s) PROVE PairIsKnown'
  BY <1>10, ImportAssumption DEF WorkerCompletes, files, ImportInv, ImportTypeOK,
    PairIsKnown, Checked, InputStage
<1>11. ASSUME NEW s \in InputStage, SourceReplaced(s) PROVE PairIsKnown'
  BY <1>11, ImportAssumption DEF SourceReplaced, files, ImportInv, ImportTypeOK,
    PairIsKnown, Checked, InputStage
<1>12. CASE SourceDamaged
  BY <1>12, ImportAssumption DEF SourceDamaged, files, ImportInv, ImportTypeOK, PairIsKnown,
    Checked, InputStage
<1>13. CASE UNCHANGED importVars
  BY <1>13 DEF importVars, files, ImportInv, ImportTypeOK, PairIsKnown, Checked, InputStage
<1> QED BY <1>1, <1>2, <1>3, <1>4, <1>5, <1>6, <1>7, <1>8, <1>9, <1>10, <1>11, <1>12,
  <1>13
  DEF ImportNext, Import

LEMMA OneRunIsHeldStep ==
  ASSUME ImportInv, [ImportNext]_importVars
  PROVE  OneRunIsHeld'
<1>1. ASSUME NEW i \in Importer, BeginImport(i) PROVE OneRunIsHeld'
  BY <1>1, ImportAssumption DEF BeginImport, Move, files, ImportInv, ImportTypeOK,
    OneRunIsHeld, Checked, InputStage
<1>2. ASSUME NEW i \in Importer, AuthenticateSource(i) PROVE OneRunIsHeld'
  BY <1>2, ImportAssumption DEF AuthenticateSource, Move, Raise, files, ImportInv,
    ImportTypeOK, OneRunIsHeld, Checked, InputStage
<1>3. ASSUME NEW i \in Importer, ReadBytes(i) PROVE OneRunIsHeld'
  <2> SUFFICES ASSUME NEW j \in Importer, phase'[j] \in Checked
               PROVE  /\ bytes'[j] = held'[j]
                      /\ held'[j] \in [InputStage -> Version]
                      /\ held'[j][1] = held'[j][2]
    BY DEF OneRunIsHeld
  <2>1. CASE j # i
    BY <1>3, <2>1 DEF ReadBytes, Move, Raise, files, ImportInv, ImportTypeOK, OneRunIsHeld
  <2>2. CASE j = i
    <3>1. at[i] = 2 /\ phase[i] = "read" /\ bytes'[i] = held[i] /\ held' = held
      BY <1>3, <2>2 DEF ReadBytes, Move, Raise, ImportInv, ImportTypeOK, Checked, InputStage
    <3>2. bytes'[i][1] = bytes[i][1]
      BY <1>3, <3>1 DEF ReadBytes, ImportInv, ImportTypeOK, InputStage
    <3> QED BY <2>2, <3>1, <3>2 DEF ImportInv, PairIsKnown
  <2> QED BY <2>1, <2>2
<1>4. ASSUME NEW i \in Importer, RunStage(i) PROVE OneRunIsHeld'
  BY <1>4, ImportAssumption DEF RunStage, Move, files, ImportInv, ImportTypeOK,
    OneRunIsHeld, Checked, InputStage
<1>5. ASSUME NEW i \in Importer, CopyArtifacts(i) PROVE OneRunIsHeld'
  BY <1>5, ImportAssumption DEF CopyArtifacts, Move, Raise, files, ImportInv, ImportTypeOK,
    OneRunIsHeld, Checked, InputStage
<1>6. ASSUME NEW i \in Importer, WriteEvidence(i) PROVE OneRunIsHeld'
  BY <1>6, ImportAssumption DEF WriteEvidence, Move, Raise, files, ImportInv, ImportTypeOK,
    OneRunIsHeld, Checked, InputStage
<1>7. ASSUME NEW i \in Importer, PublishImport(i) PROVE OneRunIsHeld'
  BY <1>7, ImportAssumption DEF PublishImport, Move, Raise, files, ImportInv, ImportTypeOK,
    OneRunIsHeld, Checked, InputStage
<1>8. ASSUME NEW i \in Importer, VerifyTarget(i) PROVE OneRunIsHeld'
  BY <1>8, ImportAssumption DEF VerifyTarget, Move, Raise, files, ImportInv, ImportTypeOK,
    OneRunIsHeld, Checked, InputStage
<1>9. ASSUME NEW i \in Importer, ImporterDies(i) PROVE OneRunIsHeld'
  BY <1>9, ImportAssumption DEF ImporterDies, Move, files, ImportInv, ImportTypeOK,
    OneRunIsHeld, Checked, InputStage
<1>10. ASSUME NEW s \in InputStage, WorkerCompletes(s) PROVE OneRunIsHeld'
  BY <1>10, ImportAssumption DEF WorkerCompletes, files, ImportInv, ImportTypeOK,
    OneRunIsHeld, Checked, InputStage
<1>11. ASSUME NEW s \in InputStage, SourceReplaced(s) PROVE OneRunIsHeld'
  BY <1>11, ImportAssumption DEF SourceReplaced, files, ImportInv, ImportTypeOK,
    OneRunIsHeld, Checked, InputStage
<1>12. CASE SourceDamaged
  BY <1>12, ImportAssumption DEF SourceDamaged, files, ImportInv, ImportTypeOK,
    OneRunIsHeld, Checked, InputStage
<1>13. CASE UNCHANGED importVars
  BY <1>13 DEF importVars, files, ImportInv, ImportTypeOK, OneRunIsHeld, Checked, InputStage
<1> QED BY <1>1, <1>2, <1>3, <1>4, <1>5, <1>6, <1>7, <1>8, <1>9, <1>10, <1>11, <1>12,
  <1>13
  DEF ImportNext, Import

LEMMA VerifiedIsThereStep ==
  ASSUME ImportInv, [ImportNext]_importVars
  PROVE  VerifiedIsThere'
<1>1. ASSUME NEW i \in Importer, BeginImport(i) PROVE VerifiedIsThere'
  BY <1>1, ImportAssumption DEF BeginImport, Move, files, ImportInv, ImportTypeOK,
    VerifiedIsThere, Imported, Completion, InputStage
<1>2. ASSUME NEW i \in Importer, AuthenticateSource(i) PROVE VerifiedIsThere'
  BY <1>2, ImportAssumption DEF AuthenticateSource, Move, Raise, files, ImportInv,
    ImportTypeOK, VerifiedIsThere, Imported, Completion, InputStage
<1>3. ASSUME NEW i \in Importer, ReadBytes(i) PROVE VerifiedIsThere'
  BY <1>3, ImportAssumption DEF ReadBytes, Move, Raise, files, ImportInv, ImportTypeOK,
    VerifiedIsThere, Imported, Completion, InputStage
<1>4. ASSUME NEW i \in Importer, RunStage(i) PROVE VerifiedIsThere'
  BY <1>4, ImportAssumption DEF RunStage, Move, files, ImportInv, ImportTypeOK,
    VerifiedIsThere, Imported, Completion, InputStage
<1>5. ASSUME NEW i \in Importer, CopyArtifacts(i) PROVE VerifiedIsThere'
  BY <1>5, ImportAssumption DEF CopyArtifacts, Move, Raise, files, ImportInv, ImportTypeOK,
    VerifiedIsThere, Imported, Completion, InputStage
<1>6. ASSUME NEW i \in Importer, WriteEvidence(i) PROVE VerifiedIsThere'
  BY <1>6, ImportAssumption DEF WriteEvidence, Move, Raise, files, ImportInv, ImportTypeOK,
    VerifiedIsThere, Imported, Completion, InputStage
<1>7. ASSUME NEW i \in Importer, PublishImport(i) PROVE VerifiedIsThere'
  <2>1. Imported(i, at[i]) # Unset
    BY <1>7, NewIsGenuine, ImportAssumption DEF PublishImport, Completion
  <2> QED BY <1>7, <2>1, Publishing DEF ImportInv, ImportTypeOK, VerifiedIsThere
<1>8. ASSUME NEW i \in Importer, VerifyTarget(i) PROVE VerifiedIsThere'
  BY <1>8, ImportAssumption DEF VerifyTarget, Move, Raise, files, ImportInv, ImportTypeOK,
    VerifiedIsThere, Imported, Completion, InputStage
<1>9. ASSUME NEW i \in Importer, ImporterDies(i) PROVE VerifiedIsThere'
  BY <1>9, ImportAssumption DEF ImporterDies, Move, files, ImportInv, ImportTypeOK,
    VerifiedIsThere, Imported, Completion, InputStage
<1>10. ASSUME NEW s \in InputStage, WorkerCompletes(s) PROVE VerifiedIsThere'
  BY <1>10, ImportAssumption DEF WorkerCompletes, files, ImportInv, ImportTypeOK,
    VerifiedIsThere, Imported, Completion, InputStage
<1>11. ASSUME NEW s \in InputStage, SourceReplaced(s) PROVE VerifiedIsThere'
  BY <1>11, ImportAssumption DEF SourceReplaced, files, ImportInv, ImportTypeOK,
    VerifiedIsThere, Imported, Completion, InputStage
<1>12. CASE SourceDamaged
  BY <1>12, ImportAssumption DEF SourceDamaged, files, ImportInv, ImportTypeOK,
    VerifiedIsThere, Imported, Completion, InputStage
<1>13. CASE UNCHANGED importVars
  BY <1>13 DEF importVars, files, ImportInv, ImportTypeOK, VerifiedIsThere, Imported,
    Completion, InputStage
<1> QED BY <1>1, <1>2, <1>3, <1>4, <1>5, <1>6, <1>7, <1>8, <1>9, <1>10, <1>11, <1>12,
  <1>13
  DEF ImportNext, Import

LEMMA FirstIsMineStep ==
  ASSUME ImportInv, [ImportNext]_importVars
  PROVE  FirstIsMine'
<1>1. ASSUME NEW i \in Importer, BeginImport(i) PROVE FirstIsMine'
  BY <1>1, ImportAssumption DEF BeginImport, Move, files, ImportInv, ImportTypeOK,
    FirstIsMine, IsImport, InputStage, Checked
<1>2. ASSUME NEW i \in Importer, AuthenticateSource(i) PROVE FirstIsMine'
  BY <1>2, ImportAssumption DEF AuthenticateSource, Move, Raise, files, ImportInv,
    ImportTypeOK, FirstIsMine, IsImport, InputStage, Checked
<1>3. ASSUME NEW i \in Importer, ReadBytes(i) PROVE FirstIsMine'
  BY <1>3, ImportAssumption DEF ReadBytes, Move, Raise, files, ImportInv, ImportTypeOK,
    FirstIsMine, IsImport, InputStage, Checked
<1>4. ASSUME NEW i \in Importer, RunStage(i) PROVE FirstIsMine'
  BY <1>4, ImportAssumption DEF RunStage, Move, files, ImportInv, ImportTypeOK, FirstIsMine,
    IsImport, InputStage, Checked
<1>5. ASSUME NEW i \in Importer, CopyArtifacts(i) PROVE FirstIsMine'
  BY <1>5, ImportAssumption DEF CopyArtifacts, Move, Raise, files, ImportInv, ImportTypeOK,
    FirstIsMine, IsImport, InputStage, Checked
<1>6. ASSUME NEW i \in Importer, WriteEvidence(i) PROVE FirstIsMine'
  BY <1>6, ImportAssumption DEF WriteEvidence, Move, Raise, files, ImportInv, ImportTypeOK,
    FirstIsMine, IsImport, InputStage, Checked
<1>7. ASSUME NEW i \in Importer, PublishImport(i) PROVE FirstIsMine'
  BY <1>7, ImportAssumption DEF PublishImport, Move, Raise, files, ImportInv, ImportTypeOK,
    FirstIsMine, IsImport, InputStage, Checked
<1>8. ASSUME NEW i \in Importer, VerifyTarget(i) PROVE FirstIsMine'
  <2>1. UNCHANGED <<files, held, bytes>> /\ \A j \in Importer \ {i} :
          phase'[j] = phase[j] /\ at'[j] = at[j]
    BY <1>8 DEF VerifyTarget, Move, Raise, files, ImportInv, ImportTypeOK
  <2>2. CASE phase'[i] = "raised"
    BY <2>1, <2>2 DEF files, ImportInv, FirstIsMine, Checked, IsImport
  <2>3. CASE phase'[i] # "raised" /\ at[i] = 1
    BY <1>8, <2>1, <2>3, Verifying DEF files, ImportInv, FirstIsMine, Checked, IsImport
  <2>4. CASE phase'[i] # "raised" /\ at[i] = 2
    <3>1. phase[i] = "verify"
      BY <1>8 DEF VerifyTarget
    <3> QED BY <2>1, <2>4, <3>1 DEF files, ImportInv, FirstIsMine, Checked, IsImport
  <2> QED BY <2>2, <2>3, <2>4 DEF ImportInv, ImportTypeOK, InputStage
<1>9. ASSUME NEW i \in Importer, ImporterDies(i) PROVE FirstIsMine'
  BY <1>9, ImportAssumption DEF ImporterDies, Move, files, ImportInv, ImportTypeOK,
    FirstIsMine, IsImport, InputStage, Checked
<1>10. ASSUME NEW s \in InputStage, WorkerCompletes(s) PROVE FirstIsMine'
  BY <1>10, ImportAssumption DEF WorkerCompletes, files, ImportInv, ImportTypeOK,
    FirstIsMine, IsImport, InputStage, Checked
<1>11. ASSUME NEW s \in InputStage, SourceReplaced(s) PROVE FirstIsMine'
  BY <1>11, ImportAssumption DEF SourceReplaced, files, ImportInv, ImportTypeOK,
    FirstIsMine, IsImport, InputStage, Checked
<1>12. CASE SourceDamaged
  BY <1>12, ImportAssumption DEF SourceDamaged, files, ImportInv, ImportTypeOK, FirstIsMine,
    IsImport, InputStage, Checked
<1>13. CASE UNCHANGED importVars
  BY <1>13 DEF importVars, files, ImportInv, ImportTypeOK, FirstIsMine, IsImport,
    InputStage, Checked
<1> QED BY <1>1, <1>2, <1>3, <1>4, <1>5, <1>6, <1>7, <1>8, <1>9, <1>10, <1>11, <1>12,
  <1>13
  DEF ImportNext, Import

LEMMA BothAreMineStep ==
  ASSUME ImportInv, [ImportNext]_importVars
  PROVE  BothAreMine'
<1>1. ASSUME NEW i \in Importer, BeginImport(i) PROVE BothAreMine'
  BY <1>1, ImportAssumption DEF BeginImport, Move, files, ImportInv, ImportTypeOK,
    BothAreMine, IsImport, InputStage, Checked
<1>2. ASSUME NEW i \in Importer, AuthenticateSource(i) PROVE BothAreMine'
  BY <1>2, ImportAssumption DEF AuthenticateSource, Move, Raise, files, ImportInv,
    ImportTypeOK, BothAreMine, IsImport, InputStage, Checked
<1>3. ASSUME NEW i \in Importer, ReadBytes(i) PROVE BothAreMine'
  BY <1>3, ImportAssumption DEF ReadBytes, Move, Raise, files, ImportInv, ImportTypeOK,
    BothAreMine, IsImport, InputStage, Checked
<1>4. ASSUME NEW i \in Importer, RunStage(i) PROVE BothAreMine'
  BY <1>4, ImportAssumption DEF RunStage, Move, files, ImportInv, ImportTypeOK, BothAreMine,
    IsImport, InputStage, Checked
<1>5. ASSUME NEW i \in Importer, CopyArtifacts(i) PROVE BothAreMine'
  BY <1>5, ImportAssumption DEF CopyArtifacts, Move, Raise, files, ImportInv, ImportTypeOK,
    BothAreMine, IsImport, InputStage, Checked
<1>6. ASSUME NEW i \in Importer, WriteEvidence(i) PROVE BothAreMine'
  BY <1>6, ImportAssumption DEF WriteEvidence, Move, Raise, files, ImportInv, ImportTypeOK,
    BothAreMine, IsImport, InputStage, Checked
<1>7. ASSUME NEW i \in Importer, PublishImport(i) PROVE BothAreMine'
  BY <1>7, ImportAssumption DEF PublishImport, Move, Raise, files, ImportInv, ImportTypeOK,
    BothAreMine, IsImport, InputStage, Checked
<1>8. ASSUME NEW i \in Importer, VerifyTarget(i) PROVE BothAreMine'
  <2>1. UNCHANGED <<files, held, bytes>> /\ \A j \in Importer \ {i} :
          phase'[j] = phase[j] /\ at'[j] = at[j]
    BY <1>8 DEF VerifyTarget, Move, Raise, files, ImportInv, ImportTypeOK
  <2>2. CASE phase'[i] # "imported"
    BY <2>1, <2>2 DEF files, ImportInv, BothAreMine, IsImport
  <2>3. CASE phase'[i] = "imported"
    <3>1. at[i] = 2 /\ at'[i] = 2
      BY <1>8, <2>3 DEF VerifyTarget, Move, Raise, ImportInv, ImportTypeOK, InputStage
    <3>2. IsImport(2) /\ target[2].evidence = bytes[i]
      BY <1>8, <2>3, <3>1, Verifying
    <3> QED BY <2>1, <3>1, <3>2 DEF files, ImportInv, BothAreMine, IsImport
  <2> QED BY <2>2, <2>3
<1>9. ASSUME NEW i \in Importer, ImporterDies(i) PROVE BothAreMine'
  BY <1>9, ImportAssumption DEF ImporterDies, Move, files, ImportInv, ImportTypeOK,
    BothAreMine, IsImport, InputStage, Checked
<1>10. ASSUME NEW s \in InputStage, WorkerCompletes(s) PROVE BothAreMine'
  BY <1>10, ImportAssumption DEF WorkerCompletes, files, ImportInv, ImportTypeOK,
    BothAreMine, IsImport, InputStage, Checked
<1>11. ASSUME NEW s \in InputStage, SourceReplaced(s) PROVE BothAreMine'
  BY <1>11, ImportAssumption DEF SourceReplaced, files, ImportInv, ImportTypeOK,
    BothAreMine, IsImport, InputStage, Checked
<1>12. CASE SourceDamaged
  BY <1>12, ImportAssumption DEF SourceDamaged, files, ImportInv, ImportTypeOK, BothAreMine,
    IsImport, InputStage, Checked
<1>13. CASE UNCHANGED importVars
  BY <1>13 DEF importVars, files, ImportInv, ImportTypeOK, BothAreMine, IsImport,
    InputStage, Checked
<1> QED BY <1>1, <1>2, <1>3, <1>4, <1>5, <1>6, <1>7, <1>8, <1>9, <1>10, <1>11, <1>12,
  <1>13
  DEF ImportNext, Import

LEMMA SecondFollowsFirstStep ==
  ASSUME ImportInv, [ImportNext]_importVars
  PROVE  SecondFollowsFirst'
<1>1. ASSUME NEW i \in Importer, BeginImport(i) PROVE SecondFollowsFirst'
  BY <1>1, ImportAssumption DEF BeginImport, Move, files, ImportInv, ImportTypeOK,
    SecondFollowsFirst, IsImport, InputStage, Checked
<1>2. ASSUME NEW i \in Importer, AuthenticateSource(i) PROVE SecondFollowsFirst'
  BY <1>2, ImportAssumption DEF AuthenticateSource, Move, Raise, files, ImportInv,
    ImportTypeOK, SecondFollowsFirst, IsImport, InputStage, Checked
<1>3. ASSUME NEW i \in Importer, ReadBytes(i) PROVE SecondFollowsFirst'
  BY <1>3, ImportAssumption DEF ReadBytes, Move, Raise, files, ImportInv, ImportTypeOK,
    SecondFollowsFirst, IsImport, InputStage, Checked
<1>4. ASSUME NEW i \in Importer, RunStage(i) PROVE SecondFollowsFirst'
  BY <1>4, ImportAssumption DEF RunStage, Move, files, ImportInv, ImportTypeOK,
    SecondFollowsFirst, IsImport, InputStage, Checked
<1>5. ASSUME NEW i \in Importer, CopyArtifacts(i) PROVE SecondFollowsFirst'
  BY <1>5, ImportAssumption DEF CopyArtifacts, Move, Raise, files, ImportInv, ImportTypeOK,
    SecondFollowsFirst, IsImport, InputStage, Checked
<1>6. ASSUME NEW i \in Importer, WriteEvidence(i) PROVE SecondFollowsFirst'
  BY <1>6, ImportAssumption DEF WriteEvidence, Move, Raise, files, ImportInv, ImportTypeOK,
    SecondFollowsFirst, IsImport, InputStage, Checked
<1>7. ASSUME NEW i \in Importer, PublishImport(i) PROVE SecondFollowsFirst'
  <2>1. CASE target' = target
    BY <2>1 DEF ImportInv, SecondFollowsFirst, IsImport
  <2>2. CASE target' # target /\ at[i] = 1
    <3>1. target[1] = Unset /\ target'[2] = target[2]
      BY <1>7, <2>2, Publishing DEF InputStage
    <3> QED BY <3>1 DEF ImportInv, SecondFollowsFirst, IsImport
  <2>3. CASE target' # target /\ at[i] = 2
    <3>1. target'[1] = target[1] /\ target'[2] = Imported(i, 2) /\ phase[i] = "publish"
      BY <1>7, <2>3, Publishing DEF InputStage
    <3>2. IsImport(1) /\ target[1].evidence = bytes[i]
      BY <2>3, <3>1 DEF ImportInv, FirstIsMine, Checked
    <3> QED BY <3>1, <3>2 DEF SecondFollowsFirst, IsImport, Imported
  <2>4. at[i] \in {1, 2}
    BY DEF ImportInv, ImportTypeOK, InputStage
  <2> QED BY <2>1, <2>2, <2>3, <2>4
<1>8. ASSUME NEW i \in Importer, VerifyTarget(i) PROVE SecondFollowsFirst'
  BY <1>8, ImportAssumption DEF VerifyTarget, Move, Raise, files, ImportInv, ImportTypeOK,
    SecondFollowsFirst, IsImport, InputStage, Checked
<1>9. ASSUME NEW i \in Importer, ImporterDies(i) PROVE SecondFollowsFirst'
  BY <1>9, ImportAssumption DEF ImporterDies, Move, files, ImportInv, ImportTypeOK,
    SecondFollowsFirst, IsImport, InputStage, Checked
<1>10. ASSUME NEW s \in InputStage, WorkerCompletes(s) PROVE SecondFollowsFirst'
  BY <1>10, ImportAssumption DEF WorkerCompletes, files, ImportInv, ImportTypeOK,
    SecondFollowsFirst, IsImport, InputStage, Checked
<1>11. ASSUME NEW s \in InputStage, SourceReplaced(s) PROVE SecondFollowsFirst'
  BY <1>11, ImportAssumption DEF SourceReplaced, files, ImportInv, ImportTypeOK,
    SecondFollowsFirst, IsImport, InputStage, Checked
<1>12. CASE SourceDamaged
  BY <1>12, ImportAssumption DEF SourceDamaged, files, ImportInv, ImportTypeOK,
    SecondFollowsFirst, IsImport, InputStage, Checked
<1>13. CASE UNCHANGED importVars
  BY <1>13 DEF importVars, files, ImportInv, ImportTypeOK, SecondFollowsFirst, IsImport,
    InputStage, Checked
<1> QED BY <1>1, <1>2, <1>3, <1>4, <1>5, <1>6, <1>7, <1>8, <1>9, <1>10, <1>11, <1>12,
  <1>13
  DEF ImportNext, Import

LEMMA GenuineStep ==
  ASSUME ImportInv, [ImportNext]_importVars
  PROVE  ImportIsGenuine'
<1>1. ASSUME NEW i \in Importer, BeginImport(i) PROVE ImportIsGenuine'
  BY <1>1, ImportAssumption DEF BeginImport, Move, files, ImportInv, ImportTypeOK,
    ImportIsGenuine, IsImport
<1>2. ASSUME NEW i \in Importer, AuthenticateSource(i) PROVE ImportIsGenuine'
  BY <1>2, ImportAssumption DEF AuthenticateSource, Move, Raise, files, ImportInv,
    ImportTypeOK, ImportIsGenuine, IsImport
<1>3. ASSUME NEW i \in Importer, ReadBytes(i) PROVE ImportIsGenuine'
  BY <1>3, ImportAssumption DEF ReadBytes, Move, Raise, files, ImportInv, ImportTypeOK,
    ImportIsGenuine, IsImport
<1>4. ASSUME NEW i \in Importer, RunStage(i) PROVE ImportIsGenuine'
  BY <1>4, ImportAssumption DEF RunStage, Move, files, ImportInv, ImportTypeOK,
    ImportIsGenuine, IsImport
<1>5. ASSUME NEW i \in Importer, CopyArtifacts(i) PROVE ImportIsGenuine'
  BY <1>5, ImportAssumption DEF CopyArtifacts, Move, Raise, files, ImportInv, ImportTypeOK,
    ImportIsGenuine, IsImport
<1>6. ASSUME NEW i \in Importer, WriteEvidence(i) PROVE ImportIsGenuine'
  BY <1>6, ImportAssumption DEF WriteEvidence, Move, Raise, files, ImportInv, ImportTypeOK,
    ImportIsGenuine, IsImport
<1>7. ASSUME NEW i \in Importer, PublishImport(i) PROVE ImportIsGenuine'
  <2>1. CASE target' = target
    BY <2>1 DEF ImportInv, ImportIsGenuine, IsImport
  <2>2. CASE target' # target
    <3>1. PICK v \in Version : Imported(i, at[i]) =
            [art |-> Produced[v][at[i]], evidence |-> [t \in InputStage |-> v]]
      BY <1>7, NewIsGenuine DEF PublishImport
    <3>2. target'[at[i]] = Imported(i, at[i])
          /\ \A s \in InputStage : s # at[i] => target'[s] = target[s]
      BY <1>7, <2>2, Publishing
    <3>3. target'[at[i]].evidence = [t \in InputStage |-> v]
          /\ target'[at[i]].art = Produced[v][at[i]]
      BY <3>1, <3>2
    <3> SUFFICES ASSUME NEW s \in InputStage, target'[s] # Unset,
      target'[s].evidence # Unset
                 PROVE  \E w \in Version : /\ target'[s].evidence = [t \in InputStage |-> w]
                                            /\ target'[s].art = Produced[w][s]
      BY DEF ImportIsGenuine, IsImport
    <3>4. CASE s = at[i]
      BY <3>3, <3>4
    <3>5. CASE s # at[i]
      <4>1. target'[s] = target[s]
        BY <3>2, <3>5
      <4> QED BY <4>1 DEF ImportInv, ImportIsGenuine, IsImport
    <3> QED BY <3>4, <3>5
  <2> QED BY <2>1, <2>2
<1>8. ASSUME NEW i \in Importer, VerifyTarget(i) PROVE ImportIsGenuine'
  BY <1>8, ImportAssumption DEF VerifyTarget, Move, Raise, files, ImportInv, ImportTypeOK,
    ImportIsGenuine, IsImport
<1>9. ASSUME NEW i \in Importer, ImporterDies(i) PROVE ImportIsGenuine'
  BY <1>9, ImportAssumption DEF ImporterDies, Move, files, ImportInv, ImportTypeOK,
    ImportIsGenuine, IsImport
<1>10. ASSUME NEW s \in InputStage, WorkerCompletes(s) PROVE ImportIsGenuine'
  BY <1>10, ImportAssumption DEF WorkerCompletes, files, ImportInv, ImportTypeOK,
    ImportIsGenuine, IsImport
<1>11. ASSUME NEW s \in InputStage, SourceReplaced(s) PROVE ImportIsGenuine'
  BY <1>11, ImportAssumption DEF SourceReplaced, files, ImportInv, ImportTypeOK,
    ImportIsGenuine, IsImport
<1>12. CASE SourceDamaged
  BY <1>12, ImportAssumption DEF SourceDamaged, files, ImportInv, ImportTypeOK,
    ImportIsGenuine, IsImport
<1>13. CASE UNCHANGED importVars
  BY <1>13 DEF importVars, files, ImportInv, ImportTypeOK, ImportIsGenuine, IsImport
<1> QED BY <1>1, <1>2, <1>3, <1>4, <1>5, <1>6, <1>7, <1>8, <1>9, <1>10, <1>11, <1>12,
  <1>13
  DEF ImportNext, Import

-----------------------------------------------------------------------------

LEMMA ImportIsInductive == ImportSpec => []ImportInv
<1>1. ImportInit => ImportInv
  BY ImportAssumption DEF ImportInit, ImportInv, ImportTypeOK, FirstIsKnown, PairIsKnown,
    OneRunIsHeld, VerifiedIsThere, FirstIsMine, BothAreMine, SecondFollowsFirst,
    ImportIsGenuine, IsImport, Checked, Phase, InputStage
<1>2. ImportInv /\ [ImportNext]_importVars => ImportInv'
  BY TypesStep, FirstIsKnownStep, PairIsKnownStep, OneRunIsHeldStep, VerifiedIsThereStep,
    FirstIsMineStep, BothAreMineStep, SecondFollowsFirstStep, GenuineStep DEF ImportInv
<1> QED BY <1>1, <1>2, PTL DEF ImportSpec

\* The variables keep their types: a completion of the target is never half
\* there and an import is always in one of its phases.
THEOREM ImportTypes == ImportSpec => []ImportTypeOK
<1>1. ImportInv => ImportTypeOK
  BY DEF ImportInv
<1> QED BY <1>1, ImportIsInductive, PTL

\* An imported completion is of one run of the old campaign in its evidence
\* and its artifacts, whatever happens to the source while it is imported.
THEOREM ImportedIsGenuine == ImportSpec => []ImportIsGenuine
<1>1. ImportInv => ImportIsGenuine
  BY DEF ImportInv
<1> QED BY <1>1, ImportIsInductive, PTL

\* Imported stages carry the same evidence whoever imported them, and an
\* import that returns leaves both imported from what it authenticated.
THEOREM ImportedStagesAgree == ImportSpec => []ImportsAgree
<1>1. ASSUME ImportInv PROVE ImportsAgree
  <2>1. ASSUME NEW i \in Importer, phase[i] = "imported", NEW s \in InputStage
        PROVE  IsImport(s) /\ target[s].evidence = bytes[i]
    BY <1>1, <2>1 DEF ImportInv, FirstIsMine, BothAreMine, Checked, InputStage
  <2> QED BY <1>1, <2>1 DEF ImportInv, SecondFollowsFirst, ImportsAgree
<1> QED BY <1>1, ImportIsInductive, PTL

=============================================================================
