-------------------------- MODULE ObjectTreeProofs --------------------------
(***************************************************************************)
(* Proofs about ObjectTree, for any paths, contents, uploaders and trees.  *)
(*                                                                         *)
(* That objects are never replaced rests on Writers: a file being written  *)
(* is torn, and has one writer.  With it,                                  *)
(*   - receipts stay exact when all uploaders publish one tree, as the      *)
(*     attempts of a stage do (Partial: the prefix holds nothing else);    *)
(*   - when digests are compared and calls overlap only with calls of the  *)
(*     same tree, foreign objects block and receipts stay exact whatever   *)
(*     the other trees are (Matching: what a call adds to is part of its   *)
(*     tree);                                                              *)
(*   - a receipt tells what its call did (Honest).                         *)
(***************************************************************************)
EXTENDS ObjectTree, TLAPS, FiniteSetTheorems

\* All uploaders publish the same tree.
SameTrees == \A u, v \in Uploader : Tree[u] = Tree[v]

\* A file being written is torn, and nobody else writes it.
Writers ==
  \A u \in Uploader : point[u] = "write" =>
    /\ writing[u] \in Path /\ prefix[writing[u]] = Torn
    /\ \A v \in Uploader : (point[v] = "write" /\ v # u) => writing[v] # writing[u]

IInv == TreeShapes /\ Writers

\* Contents and markers are different things.
LEMMA Contents ==
  /\ Torn \notin Bytes /\ Missing \notin Bytes /\ Missing \notin Path /\ Missing # Torn
  /\ Missing \notin TreeReceipt
  /\ \A u \in Uploader, x \in Path : Tree[u][x] \in Bytes \cup {Missing}
  /\ \A u \in Uploader : Tree[u] \in [Path -> Bytes \cup {Missing}]
BY TreeAssumption

\* The empty prefix, before any call.
LEMMA InitInvariant == TreeInit => IInv
BY Contents, TreeAssumption DEF TreeInit, IInv, TreeShapes, Writers, Point, Action, Present

\* The call that a step belongs to; the others are where they were.
LEMMA OneCall ==
  ASSUME TreeShapes, NEW u \in Uploader, Look(u) \/ Transferring(u) \/ Fail(u)
  PROVE \A v \in Uploader : v # u =>
          /\ UNCHANGED <<point[v], action[v], queue[v], writing[v], put[v], receipt[v]>>
<1> USE DEF TreeShapes, Turn, Raise, Certify
<1>1. CASE Look(u)
  BY <1>1 DEF Look
<1>2. CASE Upload(u)
  BY <1>2 DEF Upload
<1>3. CASE Resume(u)
  BY <1>3 DEF Resume
<1>4. ASSUME NEW x \in Path, CreateFile(u, x)
      PROVE \A v \in Uploader : v # u =>
              UNCHANGED <<point[v], action[v], queue[v], writing[v], put[v], receipt[v]>>
  BY <1>4 DEF CreateFile
<1>5. ASSUME NEW x \in Path, Put(u, x)
      PROVE \A v \in Uploader : v # u =>
              UNCHANGED <<point[v], action[v], queue[v], writing[v], put[v], receipt[v]>>
  BY <1>5 DEF Put
<1>6. CASE Write(u) \/ Copied(u)
  BY <1>6 DEF Write, Copied
<1>7. CASE Compare(u)
  BY <1>7 DEF Compare
<1>8. CASE Download(u) \/ Fail(u)
  BY <1>8 DEF Download, Fail
<1>9. QED
  BY <1>1, <1>2, <1>3, <1>4, <1>5, <1>6, <1>7, <1>8 DEF Transferring

\* Every step keeps the shapes, and a file is held while it is written.
LEMMA TypeStep == IInv /\ [TreeNext]_treeVars => TreeShapes'
<1> SUFFICES ASSUME IInv, [TreeNext]_treeVars PROVE TreeShapes'
  OBVIOUS
<1> USE Contents DEF IInv, TreeShapes, Point, Action, Turn
<1>1. ASSUME NEW u \in Uploader, Raise(u), prefix' = prefix, failures' \in Nat PROVE TreeShapes'
  BY <1>1 DEF Raise
<1>2. ASSUME NEW u \in Uploader, Certify(u), UNCHANGED <<prefix, failures>>, point[u] # "write"
      PROVE TreeShapes'
  BY <1>2 DEF Certify, TreeReceipt
<1>3. ASSUME NEW u \in Uploader, Look(u) PROVE TreeShapes'
  BY <1>3 DEF Look
<1>4. ASSUME NEW u \in Uploader, Upload(u) PROVE TreeShapes'
  <2>1. CASE Raise(u)
    BY <1>1, <1>4, <2>1 DEF Upload
  <2>2. CASE ~Raise(u)
    <3>1. /\ queue' = [queue EXCEPT ![u] = Present(Tree[u])]
          /\ point' = [point EXCEPT ![u] = "copy"] /\ point[u] = "upload"
          /\ UNCHANGED <<prefix, failures, action, writing, put, receipt>>
      BY <1>4, <2>2 DEF Upload
    <3>2. Present(Tree[u]) \subseteq Path
      BY DEF Present
    <3>3. QED
      BY <3>1, <3>2
  <2>3. QED
    BY <2>1, <2>2
<1>5. ASSUME NEW u \in Uploader, Resume(u) PROVE TreeShapes'
  <2> DEFINE todo == IF Backend = "local" THEN Present(Tree[u]) \ Present(prefix)
                                          ELSE Present(Tree[u])
  <2>1. CASE Raise(u)
    BY <1>1, <1>5, <2>1 DEF Resume
  <2>2. CASE ~Raise(u)
    <3>1. /\ queue' = [queue EXCEPT ![u] = todo]
          /\ point' = [point EXCEPT ![u] = "copy"] /\ point[u] = "resume"
          /\ UNCHANGED <<prefix, failures, action, writing, put, receipt>>
      BY <1>5, <2>2 DEF Resume
    <3>2. todo \subseteq Present(Tree[u]) /\ todo \subseteq Path
      BY DEF Present
    <3>3. QED
      BY <3>1, <3>2
  <2>3. QED
    BY <2>1, <2>2
<1>6. ASSUME NEW u \in Uploader, NEW x \in Path, CreateFile(u, x) PROVE TreeShapes'
  <2>1. CASE prefix[x] # Missing
    BY <1>1, <1>6, <2>1 DEF CreateFile
  <2>2. CASE prefix[x] = Missing
    <3>1. /\ prefix' = [prefix EXCEPT ![x] = Torn]
          /\ put' = [put EXCEPT ![u] = put[u] \cup {x}]
          /\ writing' = [writing EXCEPT ![u] = x]
          /\ point' = [point EXCEPT ![u] = "write"]
          /\ UNCHANGED <<action, queue, receipt, failures>>
      BY <1>6, <2>2 DEF CreateFile
    <3>2. put[u] \cup {x} \subseteq Path
      OBVIOUS
    <3>3. put' \in [Uploader -> SUBSET Path] /\ prefix' \in [Path -> Bytes \cup {Torn, Missing}]
      BY <3>1, <3>2
    <3>4. QED
      BY <3>1, <3>3
  <2>3. QED
    BY <2>1, <2>2
<1>7. ASSUME NEW u \in Uploader, Write(u) PROVE TreeShapes'
  <2>1. writing[u] \in Path
    BY <1>7 DEF Write, Writers
  <2>2. QED
    BY <1>7, <2>1 DEF Write
<1>8. ASSUME NEW u \in Uploader, NEW x \in Path, Put(u, x) PROVE TreeShapes'
  <2>1. CASE prefix[x] \notin {Missing, Tree[u][x]}
    BY <1>1, <1>8, <2>1 DEF Put
  <2>2. CASE prefix[x] \in {Missing, Tree[u][x]}
    <3>1. /\ point[u] = "copy"
          /\ UNCHANGED <<point, action, writing, receipt, failures>>
          /\ queue' = [queue EXCEPT ![u] = queue[u] \ {x}]
          /\ UNCHANGED prefix \/ prefix' = [prefix EXCEPT ![x] = Tree[u][x]]
          /\ UNCHANGED put \/ put' = [put EXCEPT ![u] = put[u] \cup {x}]
      BY <1>8, <2>2 DEF Put
    <3>2. put[u] \cup {x} \subseteq Path /\ queue[u] \ {x} \subseteq Present(Tree[u])
      OBVIOUS
    <3>3. put' \in [Uploader -> SUBSET Path] /\ prefix' \in [Path -> Bytes \cup {Torn, Missing}]
      <4>1. put' \in [Uploader -> SUBSET Path]
        BY <3>1, <3>2
      <4>2. Tree[u][x] \in Bytes \cup {Torn, Missing}
        OBVIOUS
      <4>3. prefix' \in [Path -> Bytes \cup {Torn, Missing}]
        BY <3>1, <4>2
      <4>4. QED
        BY <4>1, <4>3
    <3>4. /\ queue' \in [Uploader -> SUBSET Path]
          /\ \A v \in Uploader : queue'[v] \subseteq Present(Tree[v])
      BY <3>1, <3>2
    <3>5. QED
      BY <3>1, <3>3, <3>4
  <2>3. QED
    BY <2>1, <2>2
<1>9. ASSUME NEW u \in Uploader, Copied(u) PROVE TreeShapes'
  BY <1>9 DEF Copied
<1>10. ASSUME NEW u \in Uploader, Compare(u) PROVE TreeShapes'
  <2> DEFINE equal == Present(prefix) = Present(Tree[u]) /\ Agree(prefix, Tree[u])
  <2>1. point[u] = "compare" /\ UNCHANGED <<prefix, failures>>
    BY <1>10 DEF Compare
  <2>2. CASE ~equal
    BY <1>1, <1>10, <2>1, <2>2 DEF Compare
  <2>3. CASE equal /\ Backend = "local"
    BY <1>2, <1>10, <2>1, <2>3, TreeAssumption DEF Compare
  <2>4. CASE equal /\ Backend = "b2"
    <3>1. point' = [point EXCEPT ![u] = "download"]
           /\ UNCHANGED <<action, queue, writing, put, receipt>>
      BY <1>10, <2>4 DEF Compare
    <3>2. QED
      BY <2>1, <3>1
  <2>5. QED
    BY <2>2, <2>3, <2>4, TreeAssumption
<1>11. ASSUME NEW u \in Uploader, Download(u) PROVE TreeShapes'
  BY <1>1, <1>2, <1>11 DEF Download
<1>12. ASSUME NEW u \in Uploader, Fail(u) PROVE TreeShapes'
  BY <1>1, <1>12, TreeAssumption DEF Fail
<1>13. CASE UNCHANGED treeVars
  BY <1>13 DEF treeVars
<1>14. QED
  BY <1>3, <1>4, <1>5, <1>6, <1>7, <1>8, <1>9, <1>10, <1>11, <1>12, <1>13 DEF TreeNext, Transferring

\* How a step changes the prefix, and who comes to write.
LEMMA PrefixMoves ==
  ASSUME IInv, NEW u \in Uploader, Look(u) \/ Transferring(u) \/ Fail(u)
  PROVE \/ /\ UNCHANGED prefix
           /\ point'[u] # "write"
        \/ \E x \in queue[u] :
             /\ prefix[x] = Missing /\ prefix' = [prefix EXCEPT ![x] = Torn]
             /\ Backend = "local" /\ point[u] = "copy" /\ point'[u] = "write" /\ writing'[u] = x
        \/ /\ point[u] = "write" /\ point'[u] = "copy"
           /\ prefix' = [prefix EXCEPT ![writing[u]] = Tree[u][writing[u]]]
        \/ \E x \in queue[u] :
             /\ prefix[x] = Missing /\ prefix' = [prefix EXCEPT ![x] = Tree[u][x]]
             /\ Backend = "b2" /\ point[u] = "copy" /\ point'[u] = "copy"
<1> USE DEF IInv, TreeShapes, Turn, Raise, Certify
<1>1. CASE Look(u)
  BY <1>1 DEF Look
<1>2. CASE Upload(u)
  BY <1>2 DEF Upload
<1>3. CASE Resume(u)
  BY <1>3 DEF Resume
<1>4. ASSUME NEW x \in Path, CreateFile(u, x)
      PROVE \/ UNCHANGED prefix /\ point'[u] # "write"
            \/ \E y \in queue[u] :
                 /\ prefix[y] = Missing /\ prefix' = [prefix EXCEPT ![y] = Torn]
                 /\ Backend = "local" /\ point[u] = "copy" /\ point'[u] = "write" /\ writing'[u] = y
  BY <1>4 DEF CreateFile
<1>5. ASSUME NEW x \in Path, Put(u, x)
      PROVE \/ UNCHANGED prefix /\ point'[u] # "write"
            \/ \E y \in queue[u] :
                 /\ prefix[y] = Missing /\ prefix' = [prefix EXCEPT ![y] = Tree[u][y]]
                 /\ Backend = "b2" /\ point[u] = "copy" /\ point'[u] = "copy"
  BY <1>5 DEF Put
<1>6. CASE Write(u)
  BY <1>6 DEF Write
<1>7. CASE Copied(u)
  BY <1>7 DEF Copied
<1>8. CASE Compare(u)
  BY <1>8 DEF Compare
<1>9. CASE Download(u) \/ Fail(u)
  BY <1>9 DEF Download, Fail
<1>10. QED
  BY <1>1, <1>2, <1>3, <1>4, <1>5, <1>6, <1>7, <1>8, <1>9 DEF Transferring

\* Every step keeps a file being written torn, in the hands of one writer.
LEMMA WritersStep == IInv /\ [TreeNext]_treeVars => Writers'
<1> SUFFICES ASSUME IInv, [TreeNext]_treeVars PROVE Writers'
  OBVIOUS
<1>1. CASE UNCHANGED treeVars
  BY <1>1 DEF treeVars, IInv, Writers
<1>2. ASSUME NEW u \in Uploader, Look(u) \/ Transferring(u) \/ Fail(u) PROVE Writers'
  <2>1. \A v \in Uploader : v # u => point'[v] = point[v] /\ writing'[v] = writing[v]
    BY <1>2, OneCall DEF IInv
  <2>2. CASE UNCHANGED prefix /\ point'[u] # "write"
    BY <2>1, <2>2 DEF IInv, Writers
  <2>3. ASSUME NEW x \in queue[u], prefix[x] = Missing, prefix' = [prefix EXCEPT ![x] = Torn],
               point'[u] = "write", writing'[u] = x
        PROVE Writers'
    <3>1. x \in Path
      BY DEF IInv, TreeShapes
    <3>2. \A v \in Uploader : point[v] = "write" => writing[v] # x
      BY <2>3, Contents DEF IInv, Writers
    <3>3. QED
      BY <2>1, <2>3, <3>1, <3>2 DEF IInv, TreeShapes, Writers
  <2>4. CASE /\ point[u] = "write" /\ point'[u] = "copy"
             /\ prefix' = [prefix EXCEPT ![writing[u]] = Tree[u][writing[u]]]
    <3>1. ASSUME NEW v \in Uploader, point'[v] = "write"
          PROVE writing'[v] \in Path /\ prefix'[writing'[v]] = Torn
      BY <2>1, <2>4, <3>1 DEF IInv, TreeShapes, Writers
    <3>2. \A v, w \in Uploader : (point'[v] = "write" /\ point'[w] = "write" /\ w # v)
           => writing'[w] # writing'[v]
      BY <2>1, <2>4 DEF IInv, Writers
    <3>3. QED
      BY <3>1, <3>2 DEF Writers
  <2>5. ASSUME NEW x \in queue[u], prefix[x] = Missing, prefix' = [prefix EXCEPT ![x] = Tree[u][x]],
               point'[u] = "copy"
        PROVE Writers'
    <3>1. \A v \in Uploader : point[v] = "write" => writing[v] # x
      BY <2>5, Contents DEF IInv, Writers
    <3>2. QED
      BY <2>1, <2>5, <3>1 DEF IInv, TreeShapes, Writers
  <2>6. QED
    BY <1>2, <2>2, <2>3, <2>4, <2>5, PrefixMoves
<1>3. QED
  BY <1>1, <1>2 DEF TreeNext

\* IInv is an invariant of the uploads.
THEOREM TreeInvariant == TreeSpec => []IInv
<1>1. IInv /\ [TreeNext]_treeVars => IInv'
  BY TypeStep, WritersStep DEF IInv
<1>2. QED
  BY <1>1, InitInvariant, PTL DEF TreeSpec

\* The prefix and every call are well formed.
THEOREM TreeTypeOK == TreeSpec => []TreeShapes
<1>1. IInv => TreeShapes
  BY DEF IInv
<1>2. QED
  BY <1>1, TreeInvariant, PTL

\* No uploader ever replaces or removes a whole object: _copy_file_new opens
\* its file with "xb", and rclone copies with --immutable.
THEOREM TreeObjectsImmutable == TreeSpec => ObjectsImmutable
<1>1. IInv /\ [TreeNext]_treeVars
       => [\A x \in Path : prefix[x] \in Bytes => prefix'[x] = prefix[x]]_treeVars
  <2> SUFFICES ASSUME IInv, [TreeNext]_treeVars
               PROVE \A x \in Path : prefix[x] \in Bytes => prefix'[x] = prefix[x]
    OBVIOUS
  <2>1. CASE UNCHANGED treeVars
    BY <2>1 DEF treeVars
  <2>2. ASSUME NEW u \in Uploader, Look(u) \/ Transferring(u) \/ Fail(u)
        PROVE \A x \in Path : prefix[x] \in Bytes => prefix'[x] = prefix[x]
    <3>1. point[u] = "write" => prefix[writing[u]] = Torn
      BY DEF IInv, Writers
    <3>2. QED
      BY <2>2, <3>1, PrefixMoves, Contents DEF IInv, TreeShapes
  <2>3. QED
    BY <2>1, <2>2 DEF TreeNext
<1>2. QED
  BY <1>1, TreeInvariant, PTL DEF TreeSpec, ObjectsImmutable

(***************************************************************************)
(* Receipts                                                                *)
(***************************************************************************)

\* A receipt is new only when the prefix is the uploader's tree.
LEMMA ReceiptMoves ==
  ASSUME IInv, NEW u \in Uploader, Look(u) \/ Transferring(u) \/ Fail(u)
  PROVE UNCHANGED receipt[u] \/ (UNCHANGED prefix /\ prefix = Tree[u])
<1> USE DEF IInv, TreeShapes, Turn, Raise
<1>1. CASE Look(u) \/ Upload(u)
  BY <1>1 DEF Look, Upload
<1>2. CASE Resume(u)
  BY <1>2 DEF Resume
<1>3. CASE \E x \in Path : CreateFile(u, x) \/ Put(u, x)
  BY <1>3 DEF CreateFile, Put
<1>4. CASE Write(u) \/ Copied(u) \/ Fail(u)
  BY <1>4 DEF Write, Copied, Fail
<1>5. CASE Compare(u)
  <2> DEFINE equal == Present(prefix) = Present(Tree[u]) /\ Agree(prefix, Tree[u])
  <2>1. CASE ~(equal /\ Backend = "local")
    BY <1>5, <2>1 DEF Compare
  <2>2. CASE equal /\ Backend = "local"
    <3>1. \A x \in Path : prefix[x] = Tree[u][x]
      BY <2>2 DEF Agree, Present
    <3>2. prefix = Tree[u]
      BY <3>1, Contents
    <3>3. QED
      BY <1>5, <3>2 DEF Compare
  <2>3. QED
    BY <2>1, <2>2
<1>6. CASE Download(u)
  BY <1>6 DEF Download
<1>7. QED
  BY <1>1, <1>2, <1>3, <1>4, <1>5, <1>6 DEF Transferring

\* The prefix holds nothing but objects of the uploaders' trees, whole or torn.
Partial ==
  \A u \in Uploader, x \in Path :
    /\ prefix[x] \in {Missing, Torn, Tree[u][x]}
    /\ Tree[u][x] = Missing => prefix[x] = Missing

\* With one tree, every step keeps Partial and the truth of the receipts.
LEMMA ReceiptStep ==
  ASSUME SameTrees, IInv, Partial, ReceiptStaysExact, [TreeNext]_treeVars
  PROVE Partial' /\ ReceiptStaysExact'
<1>1. CASE UNCHANGED treeVars
  BY <1>1 DEF treeVars, Partial, ReceiptStaysExact
<1>2. ASSUME NEW u \in Uploader, Look(u) \/ Transferring(u) \/ Fail(u)
      PROVE Partial' /\ ReceiptStaysExact'
  <2>1. \A v \in Uploader : Tree[v] = Tree[u]
    BY DEF SameTrees
  <2>2. queue[u] \subseteq Path /\ \A x \in queue[u] : Tree[u][x] # Missing
    BY DEF IInv, TreeShapes, Present
  <2>3. point[u] = "write" => writing[u] \in Path /\ prefix[writing[u]] = Torn
    BY DEF IInv, Writers
  <2>4. Partial'
    <3>1. CASE UNCHANGED prefix
      BY <3>1 DEF Partial
    <3>2. ASSUME NEW x \in Path, NEW new \in {Torn, Tree[u][x]}, Tree[u][x] # Missing,
                 prefix' = [prefix EXCEPT ![x] = new]
          PROVE Partial'
      BY <2>1, <3>2 DEF Partial, IInv, TreeShapes
    <3>3. point[u] = "write" => Tree[u][writing[u]] # Missing
      BY <2>3, Contents DEF Partial
    <3>4. QED
      BY <1>2, <2>2, <2>3, <3>1, <3>2, <3>3, PrefixMoves
  <2>5. ReceiptStaysExact'
    <3>1. \A v \in Uploader : v # u => UNCHANGED receipt[v]
      BY <1>2, OneCall DEF IInv
    <3>2. UNCHANGED receipt[u] \/ (UNCHANGED prefix /\ prefix = Tree[u])
      BY <1>2, ReceiptMoves
    <3>3. (\E v \in Uploader : receipt[v] # Missing) => UNCHANGED prefix
      <4>1. SUFFICES ASSUME NEW v \in Uploader, receipt[v] # Missing PROVE UNCHANGED prefix
        OBVIOUS
      <4>2. prefix = Tree[u]
        BY <2>1, <4>1 DEF ReceiptStaysExact
      <4>3. \A x \in queue[u] : prefix[x] # Missing
        BY <2>2, <4>2
      <4>4. point[u] # "write"
        BY <2>3, <4>2, Contents
      <4>5. QED
        BY <1>2, <4>3, <4>4, PrefixMoves
    <3>4. QED
      BY <2>1, <3>1, <3>2, <3>3 DEF ReceiptStaysExact
  <2>6. QED
    BY <2>4, <2>5
<1>3. QED
  BY <1>1, <1>2 DEF TreeNext

(***************************************************************************)
(* Foreign objects                                                         *)
(***************************************************************************)

\* Digests are compared, and calls that may overlap publish the same tree.
Guarded ==
  /\ Backend = "local"
  /\ \A u, v \in Uploader : <<u, v>> \in MayOverlap => Tree[u] = Tree[v]

\* Trees that differ, differ in an object that both have: the metadata object,
\* which names the attempt.
Discernible ==
  \A u, v \in Uploader : Tree[u] # Tree[v] =>
    \E x \in Path : Tree[u][x] # Missing /\ Tree[v][x] \notin {Missing, Tree[u][x]}

\* What an uploader may pass by: an object of its tree, or a torn one when
\* calls may overlap its own.
Passed(u, x) ==
  \/ prefix[x] \in {Tree[u][x], Missing}
  \/ prefix[x] = Torn /\ \E v \in Uploader : <<u, v>> \in MayOverlap

\* Calls in progress may overlap, and while one adds objects, it passes by
\* all that are there, the one it is writing apart.
Matching ==
  /\ \A u, v \in Uploader :
       (point[u] # "idle" /\ point[v] # "idle" /\ u # v) => <<u, v>> \in MayOverlap
  /\ \A u \in Uploader : point[u] \in {"copy", "write"} =>
       \A x \in Path : x # writing[u] => Passed(u, x)

\* Where a call comes to add objects, what is there agrees with its tree.
LEMMA CopyMoves ==
  ASSUME IInv, Backend = "local", NEW u \in Uploader, Look(u) \/ Transferring(u) \/ Fail(u),
         point'[u] \in {"copy", "write"}, point[u] \notin {"copy", "write"}
  PROVE UNCHANGED <<prefix, writing>> /\ \A x \in Path : prefix[x] \in {Tree[u][x], Missing}
<1> USE DEF IInv, TreeShapes, Turn, Raise, Certify
<1>1. CASE Upload(u)
  BY <1>1 DEF Upload, Present
<1>2. CASE Resume(u)
  <2>1. /\ Present(prefix) \subseteq Present(Tree[u])
        /\ Agree(prefix, Tree[u])
        /\ UNCHANGED <<prefix, writing>>
    BY <1>2 DEF Resume
  <2>2. \A x \in Path : prefix[x] \in {Tree[u][x], Missing}
    BY <2>1 DEF Agree, Present
  <2>3. QED
    BY <2>1, <2>2
<1>3. CASE Compare(u)
  BY <1>3 DEF Compare
<1>4. CASE Look(u) \/ Download(u) \/ Fail(u)
  BY <1>4 DEF Look, Download, Fail
<1>5. QED
  BY <1>1, <1>2, <1>3, <1>4 DEF Transferring, CreateFile, Put, Write, Copied

\* A call that is writing goes on with the file written, or ends.
LEMMA WriteMoves ==
  ASSUME IInv, NEW u \in Uploader, Look(u) \/ Transferring(u) \/ Fail(u), point[u] = "write"
  PROVE \/ point'[u] = "idle"
        \/ prefix' = [prefix EXCEPT ![writing[u]] = Tree[u][writing[u]]] /\ writing'[u] = Missing
BY DEF IInv, TreeShapes, Turn, Raise, Look, Transferring, Upload, Resume, CreateFile, Put, Write,
       Copied,
       Compare, Download, Fail

\* Only a call at "copy" adds objects.
LEMMA PutMoves ==
  ASSUME IInv, NEW u \in Uploader, Look(u) \/ Transferring(u) \/ Fail(u)
  PROVE put'[u] \ put[u] # {} => point[u] = "copy"
BY DEF IInv, TreeShapes, Turn, Raise, Certify, Look, Transferring, Upload, Resume, CreateFile,
       Put, Write,
       Copied, Compare, Download, Fail

\* A call in progress that takes a step does not start, and a call that starts
\* changes nothing in the prefix.
LEMMA StartMoves ==
  ASSUME IInv, NEW u \in Uploader, Look(u) \/ Transferring(u) \/ Fail(u), point[u] = "idle"
  PROVE UNCHANGED prefix /\ Admitted(u) /\ point'[u] \notin {"copy", "write"}
BY DEF IInv, TreeShapes, Turn, Look, Transferring, Upload, Resume, CreateFile, Put, Write, Copied,
       Compare,
       Download, Fail

\* The calls of one tree leave nothing that the others would not pass by.
LEMMA MatchingStep ==
  ASSUME Guarded, IInv, IInv', Matching, [TreeNext]_treeVars
  PROVE Matching'
<1>1. CASE UNCHANGED treeVars
  BY <1>1 DEF treeVars, Matching, Passed
<1>2. ASSUME NEW u \in Uploader, Look(u) \/ Transferring(u) \/ Fail(u) PROVE Matching'
  <2>1. \A v \in Uploader : v # u => point'[v] = point[v] /\ writing'[v] = writing[v]
    BY <1>2, OneCall DEF IInv
  <2>2. \A v \in Uploader : (v # u /\ point[v] # "idle" /\ point'[u] # "idle")
         => <<u, v>> \in MayOverlap
    <3>1. CASE point[u] = "idle"
      BY <1>2, <3>1, StartMoves DEF Admitted
    <3>2. CASE point[u] # "idle"
      BY <3>2 DEF Matching
    <3>3. QED
      BY <3>1, <3>2
  <2>3. ASSUME NEW v \in Uploader, NEW w \in Uploader, point'[v] # "idle", point'[w] # "idle", v # w
        PROVE <<v, w>> \in MayOverlap
    BY <2>1, <2>2, <2>3, TreeAssumption DEF Matching
  <2>4. point[u] # "write" => \A x \in Path : x # writing[u]
    BY Contents DEF IInv, TreeShapes
  <2>5. ASSUME point'[u] \in {"copy", "write"}, NEW x \in Path, x # writing'[u] PROVE Passed(u, x)'
    <3>1. CASE point[u] \notin {"copy", "write"}
      BY <1>2, <2>5, <3>1, CopyMoves DEF Guarded, Passed
    <3>2. CASE point[u] = "copy"
      <4>1. Passed(u, x)
        BY <2>4, <3>2 DEF Matching
      <4>2. UNCHANGED prefix[x]
        BY <1>2, <2>5, <3>2, PrefixMoves DEF IInv, TreeShapes, Guarded
      <4>3. QED
        BY <4>1, <4>2 DEF Passed
    <3>3. CASE point[u] = "write"
      <4>1. prefix' = [prefix EXCEPT ![writing[u]] = Tree[u][writing[u]]]
        BY <1>2, <2>5, <3>3, WriteMoves
      <4>2. x # writing[u] => Passed(u, x)
        BY <3>3 DEF Matching
      <4>3. QED
        BY <4>1, <4>2 DEF IInv, TreeShapes, Passed
    <3>4. QED
      BY <3>1, <3>2, <3>3
  <2>6. ASSUME NEW v \in Uploader, v # u, point'[v] \in {"copy", "write"}, NEW x \in Path,
               x # writing'[v]
        PROVE Passed(v, x)'
    <3>1. Passed(v, x)
      BY <2>1, <2>6 DEF Matching
    <3>2. CASE UNCHANGED prefix
      BY <3>1, <3>2 DEF Passed
    <3>3. CASE ~UNCHANGED prefix
      <4>1. point[u] # "idle"
        BY <1>2, <3>3, StartMoves
      <4>2. <<v, u>> \in MayOverlap /\ Tree[u] = Tree[v]
        BY <2>1, <2>6, <4>1 DEF Matching, Guarded
      <4>3. prefix'[x] \in {prefix[x], Torn, Tree[u][x]}
        BY <1>2, PrefixMoves DEF IInv, TreeShapes
      <4>4. QED
        BY <3>1, <4>2, <4>3 DEF Passed
    <3>4. QED
      BY <3>2, <3>3
  <2>7. QED
    BY <2>3, <2>5, <2>6 DEF Matching
<1>3. QED
  BY <1>1, <1>2 DEF TreeNext

\* Matching is an invariant where calls overlap as they should.
LEMMA MatchingInvariant == Guarded => (TreeSpec => []Matching)
<1> SUFFICES ASSUME Guarded PROVE TreeSpec => []Matching
  OBVIOUS
<1>1. TreeInit => Matching
  BY DEF TreeInit, Matching
<1>2. IInv /\ IInv' /\ Matching /\ [TreeNext]_treeVars => Matching'
  BY MatchingStep
<1>3. QED
  BY <1>1, <1>2, TreeInvariant, PTL DEF TreeSpec

\* With digests compared, and calls of different trees one at a time, an object
\* that is not of its tree keeps an uploader from adding anything (run tree;
\* without digests an object of the same size does not).
THEOREM TreeForeignObjectsBlock == Guarded => (TreeSpec => ForeignObjectsBlock)
<1> SUFFICES ASSUME Guarded PROVE TreeSpec => ForeignObjectsBlock
  OBVIOUS
<1> DEFINE Blocked == \A u \in Uploader : put'[u] \ put[u] # {} =>
       \A x \in Path :
         \/ prefix[x] \in {Tree[u][x], Missing}
         \/ prefix[x] = Torn /\ \E v \in Uploader : <<u, v>> \in MayOverlap
<1>1. IInv /\ Matching /\ [TreeNext]_treeVars => [Blocked]_treeVars
  <2> SUFFICES ASSUME IInv, Matching, [TreeNext]_treeVars, NEW u \in Uploader,
                      put'[u] \ put[u] # {},
                      NEW x \in Path
               PROVE Passed(u, x)
    BY DEF Passed
  <2>1. PICK v \in Uploader : Look(v) \/ Transferring(v) \/ Fail(v)
    BY DEF TreeNext, treeVars
  <2>2. v = u
    BY <2>1, OneCall DEF IInv
  <2>3. point[u] = "copy"
    BY <2>1, <2>2, PutMoves
  <2>4. QED
    BY <2>3, Contents DEF Matching, IInv, TreeShapes
<1>2. QED
  BY <1>1, MatchingInvariant, TreeInvariant, PTL DEF TreeSpec, ForeignObjectsBlock

(***************************************************************************)
(* Receipts stay exact                                                     *)
(***************************************************************************)

\* With trees told apart, nobody adds to a prefix that holds a whole tree.
LEMMA WholeTreeStands ==
  ASSUME Guarded, Discernible, IInv, Matching, NEW u \in Uploader, NEW v \in Uploader,
         Look(u) \/ Transferring(u) \/ Fail(u), prefix = Tree[v]
  PROVE UNCHANGED prefix
<1>1. \A x \in Path : prefix[x] # Torn
  BY Contents
<1>2. point[u] # "write"
  BY <1>1 DEF IInv, Writers
<1>3. ASSUME point[u] = "copy", NEW x \in queue[u], prefix[x] = Missing PROVE FALSE
  <2>1. x \in Path /\ Tree[u][x] # Missing
    BY DEF IInv, TreeShapes, Present
  <2>2. PICK y \in Path : Tree[u][y] # Missing /\ Tree[v][y] \notin {Missing, Tree[u][y]}
    BY <1>3, <2>1 DEF Discernible
  <2>3. Passed(u, y)
    BY <1>3, Contents DEF Matching, IInv, TreeShapes
  <2>4. QED
    BY <1>1, <2>2, <2>3 DEF Passed
<1>4. QED
  BY <1>2, <1>3, PrefixMoves

\* A receipt stays true for good, however calls interleave, die and are made
\* again, when all uploaders publish one tree, or when digests are compared
\* and calls of different trees exclude each other (run tree).
THEOREM TreeReceiptStaysExact ==
  (SameTrees \/ (Guarded /\ Discernible)) => (TreeSpec => []ReceiptStaysExact)
<1>1. ASSUME SameTrees PROVE TreeSpec => []ReceiptStaysExact
  <2>1. TreeInit => Partial /\ ReceiptStaysExact
    BY DEF TreeInit, Partial, ReceiptStaysExact
  <2>2. IInv /\ Partial /\ ReceiptStaysExact /\ [TreeNext]_treeVars
         => Partial' /\ ReceiptStaysExact'
    BY <1>1, ReceiptStep
  <2>3. QED
    BY <2>1, <2>2, TreeInvariant, PTL DEF TreeSpec
<1>2. ASSUME Guarded, Discernible PROVE TreeSpec => []ReceiptStaysExact
  <2>1. TreeInit => ReceiptStaysExact
    BY DEF TreeInit, ReceiptStaysExact
  <2>2. IInv /\ Matching /\ ReceiptStaysExact /\ [TreeNext]_treeVars => ReceiptStaysExact'
    <3> SUFFICES ASSUME IInv, Matching, ReceiptStaysExact, [TreeNext]_treeVars
                 PROVE  ReceiptStaysExact'
      OBVIOUS
    <3>1. CASE UNCHANGED treeVars
      BY <3>1 DEF treeVars, ReceiptStaysExact
    <3>2. ASSUME NEW u \in Uploader, Look(u) \/ Transferring(u) \/ Fail(u) PROVE ReceiptStaysExact'
      <4>1. \A v \in Uploader : v # u => UNCHANGED receipt[v]
        BY <3>2, OneCall DEF IInv
      <4>2. UNCHANGED receipt[u] \/ (UNCHANGED prefix /\ prefix = Tree[u])
        BY <3>2, ReceiptMoves
      <4>3. \A v \in Uploader : receipt[v] # Missing => UNCHANGED prefix /\ prefix = Tree[v]
        BY <1>2, <3>2, WholeTreeStands DEF ReceiptStaysExact
      <4>4. QED
        BY <4>1, <4>2, <4>3 DEF ReceiptStaysExact
    <3>3. QED
      BY <3>1, <3>2 DEF TreeNext
  <2>3. QED
    BY <2>1, <2>2, <1>2, MatchingInvariant, TreeInvariant, PTL DEF TreeSpec
<1>3. QED
  BY <1>1, <1>2

(***************************************************************************)
(* Receipts tell the truth                                                 *)
(***************************************************************************)

\* Calls in progress are calls that may overlap.
Exclusion ==
  \A u, v \in Uploader :
    (point[u] # "idle" /\ point[v] # "idle" /\ u # v) => <<u, v>> \in MayOverlap

Copying(u) == point[u] \in {"copy", "write", "compare", "download"}

\* What a call has added and has still to add.
Ledger(u) ==
  /\ put[u] \subseteq Present(Tree[u])
  /\ point[u] = "write" => writing[u] \in put[u]
  /\ point[u] \notin {"copy", "write"} => queue[u] = {}
  /\ point[u] \in {"upload", "resume"} => put[u] = {}

\* A new upload has added or will add everything.
Uploading(u) ==
  /\ point[u] # "resume"
  /\ Copying(u) => put[u] \cup queue[u] = Present(Tree[u])
  /\ Backend = "b2" => \A x \in queue[u] : prefix[x] = Missing

\* A verification adds nothing.
Verifying(u) == point[u] \in {"idle", "compare", "download"} /\ (point[u] # "idle" => put[u] = {})

\* A resumption leaves an object to others, and adds one.
Resuming(u) ==
  /\ point[u] # "upload"
  /\ point[u] = "resume" => Present(prefix) # {}
  /\ Copying(u) =>
       /\ \E x \in Present(Tree[u]) : x \notin put[u] /\ prefix[x] # Missing
       /\ \E x \in Present(Tree[u]) :
            \/ x \in put[u]
            \/ x \in queue[u] /\ (Backend = "b2" => prefix[x] = Missing)

Honest(u) ==
  /\ Ledger(u)
  /\ action[u] = "uploaded_new" => Uploading(u)
  /\ action[u] = "verified_existing" => Verifying(u)
  /\ action[u] = "resumed_partial" => Resuming(u)

Honesty == Exclusion /\ \A u \in Uploader : Honest(u)

\* Only calls that may overlap those in progress start.
LEMMA ExclusionStep == IInv /\ Exclusion /\ [TreeNext]_treeVars => Exclusion'
<1> SUFFICES ASSUME IInv, Exclusion, [TreeNext]_treeVars PROVE Exclusion'
  OBVIOUS
<1>1. CASE UNCHANGED treeVars
  BY <1>1 DEF treeVars, Exclusion
<1>2. ASSUME NEW u \in Uploader, Look(u) \/ Transferring(u) \/ Fail(u) PROVE Exclusion'
  <2>1. \A v \in Uploader : v # u => point'[v] = point[v]
    BY <1>2, OneCall DEF IInv
  <2>2. \A v \in Uploader : (v # u /\ point[v] # "idle" /\ point'[u] # "idle")
         => <<u, v>> \in MayOverlap
    BY <1>2, StartMoves DEF Admitted, Exclusion
  <2>3. QED
    BY <2>1, <2>2, TreeAssumption DEF Exclusion
<1>3. QED
  BY <1>1, <1>2 DEF TreeNext

\* A step of a call keeps its own ledger.
LEMMA LedgerStep ==
  ASSUME IInv, NEW u \in Uploader, Look(u) \/ Transferring(u) \/ Fail(u), Ledger(u)
  PROVE Ledger(u)'
<1> USE DEF IInv, TreeShapes, Turn, Raise, Certify, Ledger
<1> DEFINE all == Present(Tree[u])
<1>1. Present(Tree[u])' = all
  OBVIOUS
<1>2. CASE Look(u)
  BY <1>1, <1>2 DEF Look
<1>3. CASE Upload(u)
  BY <1>1, <1>3 DEF Upload
<1>4. CASE Resume(u)
  BY <1>1, <1>4 DEF Resume
<1>5. ASSUME NEW x \in Path, CreateFile(u, x) PROVE Ledger(u)'
  BY <1>1, <1>5 DEF CreateFile
<1>6. ASSUME NEW x \in Path, Put(u, x) PROVE Ledger(u)'
  BY <1>1, <1>6 DEF Put
<1>7. CASE Write(u) \/ Copied(u)
  BY <1>1, <1>7 DEF Write, Copied
<1>8. CASE Compare(u)
  BY <1>1, <1>8 DEF Compare
<1>9. CASE Download(u) \/ Fail(u)
  BY <1>1, <1>9 DEF Download, Fail
<1>10. QED
  BY <1>2, <1>3, <1>4, <1>5, <1>6, <1>7, <1>8, <1>9 DEF Transferring

\* The prefix never loses an object.
LEMMA PrefixGrows ==
  ASSUME IInv, NEW u \in Uploader, Look(u) \/ Transferring(u) \/ Fail(u), Ledger(u)
  PROVE \A x \in Path : prefix[x] # Missing => prefix'[x] # Missing
<1>1. \A x \in Present(Tree[u]) : Tree[u][x] # Missing
  BY DEF Present
<1>2. queue[u] \subseteq Present(Tree[u])
  BY DEF IInv, TreeShapes
<1>3. point[u] = "write" => writing[u] \in Present(Tree[u])
  BY DEF Ledger
<1>4. QED
  BY <1>1, <1>2, <1>3, PrefixMoves, Contents DEF IInv, TreeShapes

\* Where a call starts or chooses to copy, its claim begins.
LEMMA ClaimsBegin ==
  ASSUME IInv, NEW u \in Uploader, Honest(u), Look(u) \/ Upload(u) \/ Resume(u)
  PROVE Honest(u)'
<1> USE DEF IInv, TreeShapes, Turn, Raise, Honest, Uploading, Verifying, Resuming, Copying, Action
<1> DEFINE all == Present(Tree[u])
<1>1. Ledger(u)'
  BY LedgerStep DEF Transferring
<1>2. all # {} /\ all \subseteq Path /\ Present(prefix) \subseteq Path
  BY TreeAssumption DEF Present
<1>3. CASE Look(u)
  <2>1. Present(prefix)' = Present(prefix) /\ point[u] = "idle" /\ queue[u] = {}
    BY <1>3 DEF Look, Present, Ledger
  <2>2. QED
    BY <1>1, <1>3, <2>1 DEF Look
<1>4. CASE Upload(u)
  <2>1. action[u] = "uploaded_new" /\ put[u] = {}
    BY <1>4 DEF Upload, Ledger
  <2>2. CASE Raise(u)
    BY <1>1, <1>4, <2>1, <2>2 DEF Upload, Ledger
  <2>3. CASE ~Raise(u)
    <3>1. /\ Present(prefix) = {} /\ queue'[u] = all /\ point'[u] = "copy"
          /\ UNCHANGED <<prefix, action, put>>
      BY <1>4, <2>3 DEF Upload
    <3>2. \A x \in all : prefix'[x] = Missing
      BY <1>2, <3>1 DEF Present
    <3>3. QED
      BY <1>1, <2>1, <3>1, <3>2
  <2>4. QED
    BY <2>2, <2>3
<1>5. CASE Resume(u)
  <2>1. action[u] = "resumed_partial" /\ put[u] = {} /\ Present(prefix) # {}
    BY <1>5 DEF Resume, Ledger
  <2>2. CASE Raise(u)
    BY <1>1, <1>5, <2>1, <2>2 DEF Resume, Ledger
  <2>3. CASE ~Raise(u)
    <3>1. /\ Present(prefix) \subseteq all
          /\ Cardinality(Present(prefix)) < Cardinality(all)
          /\ queue'[u] \in {all, all \ Present(prefix)}
          /\ point'[u] = "copy" /\ UNCHANGED <<prefix, action, put>>
      BY <1>5, <2>3 DEF Resume
    <3>2. Cardinality(all) \in Nat
      BY <1>2, TreeAssumption, FS_Subset, FS_CardinalityType
    <3>3. PICK y \in all : y \notin Present(prefix)
      <4>1. Present(prefix) # all
        BY <3>1, <3>2
      <4>2. QED
        BY <3>1, <4>1
    <3>4. PICK x \in all : x \in Present(prefix)
      BY <2>1, <3>1
    <3>5. prefix'[x] # Missing /\ prefix'[y] = Missing /\ y \in queue'[u]
      BY <1>2, <3>1, <3>3, <3>4 DEF Present
    <3>6. /\ \E z \in all : z \notin put'[u] /\ prefix'[z] # Missing
          /\ \E z \in all : z \in queue'[u] /\ prefix'[z] = Missing
      BY <2>1, <3>1, <3>3, <3>4, <3>5
    <3>7. QED
      BY <1>1, <2>1, <3>1, <3>6
  <2>4. QED
    BY <2>2, <2>3
<1>6. QED
  BY <1>3, <1>4, <1>5

\* While a call copies and compares, its claim stands.
LEMMA ClaimsStand ==
  ASSUME IInv, NEW u \in Uploader, Honest(u), Transferring(u) \/ Fail(u), ~Upload(u), ~Resume(u)
  PROVE Honest(u)'
<1> USE DEF IInv, TreeShapes, Turn, Raise, Certify, Honest, Uploading, Verifying, Resuming, Copying
<1> DEFINE all == Present(Tree[u])
<1>1. Ledger(u)'
  BY LedgerStep
<1>2. \A x \in Path : prefix[x] # Missing => prefix'[x] # Missing
  BY PrefixGrows
<1>3. all \subseteq Path
  BY DEF Present
<1>4. CASE point'[u] = "idle" /\ UNCHANGED action[u]
  BY <1>1, <1>4 DEF Ledger
<1>5. ASSUME NEW x \in Path, CreateFile(u, x), point'[u] # "idle" PROVE Honest(u)'
  <2>1. /\ point[u] = "copy" /\ point'[u] = "write" /\ x \in queue[u] /\ prefix[x] = Missing
        /\ put'[u] = put[u] \cup {x} /\ Backend = "local"
        /\ UNCHANGED <<queue, action>>
    BY <1>5 DEF CreateFile
  <2>2. action[u] = "uploaded_new" => Uploading(u)'
    BY <2>1
  <2>3. action[u] = "resumed_partial" => Resuming(u)'
    BY <1>2, <1>3, <2>1
  <2>4. QED
    BY <1>1, <2>1, <2>2, <2>3
<1>6. ASSUME NEW x \in Path, Put(u, x), point'[u] # "idle" PROVE Honest(u)'
  <2>1. /\ point[u] = "copy" /\ point'[u] = "copy" /\ x \in queue[u] /\ queue'[u] = queue[u] \ {x}
        /\ UNCHANGED action
        /\ \/ prefix[x] = Missing /\ put'[u] = put[u] \cup {x}
              /\ prefix' = [prefix EXCEPT ![x] = Tree[u][x]]
           \/ prefix[x] # Missing /\ UNCHANGED <<put, prefix>>
    BY <1>6, Contents DEF Put, Present
  <2>2. Backend = "b2"
    BY <1>6 DEF Put
  <2>3. action[u] = "uploaded_new" => Uploading(u)'
    BY <2>1, <2>2
  <2>4. action[u] = "resumed_partial" => Resuming(u)'
    BY <1>2, <1>3, <2>1, <2>2
  <2>5. QED
    BY <1>1, <2>1, <2>3, <2>4
<1>7. CASE Write(u)
  <2>1. /\ point[u] = "write" /\ point'[u] = "copy" /\ queue'[u] = queue[u] \ {writing[u]}
        /\ UNCHANGED <<put, action>> /\ writing[u] \in put[u]
        /\ prefix' = [prefix EXCEPT ![writing[u]] = Tree[u][writing[u]]]
    BY <1>7 DEF Write, Ledger
  <2>2. action[u] = "uploaded_new" => Uploading(u)'
    BY <2>1
  <2>3. action[u] = "resumed_partial" => Resuming(u)'
    BY <1>2, <1>3, <2>1
  <2>4. QED
    BY <1>1, <2>1, <2>2, <2>3
<1>8. CASE Copied(u)
  BY <1>1, <1>8 DEF Copied
<1>9. CASE Compare(u) /\ point'[u] # "idle"
  BY <1>1, <1>9 DEF Compare
<1>10. UNCHANGED action[u]
  BY DEF Transferring, CreateFile, Put, Write, Copied, Compare, Download, Fail
<1>11. (Download(u) \/ Fail(u)) => point'[u] = "idle"
  BY DEF Download, Fail
<1>12. QED
  BY <1>4, <1>5, <1>6, <1>7, <1>8, <1>9, <1>10, <1>11 DEF Transferring

\* The step of one call leaves the claims of the others standing.
LEMMA OthersHonest ==
  ASSUME IInv, Exclusion, NEW u \in Uploader, Look(u) \/ Transferring(u) \/ Fail(u), Ledger(u),
         NEW v \in Uploader, v # u, Honest(v)
  PROVE Honest(v)'
<1>1. UNCHANGED <<point[v], action[v], queue[v], writing[v], put[v]>>
  BY OneCall DEF IInv
<1>2. \A x \in Path : prefix[x] # Missing => prefix'[x] # Missing
  BY PrefixGrows
<1>3. (Backend = "b2" /\ point[v] # "idle") => UNCHANGED prefix
  BY StartMoves, TreeAssumption DEF Exclusion
<1>4. point[v] = "idle" => queue[v] = {}
  BY DEF Honest, Ledger
<1>5. QED
  BY <1>1, <1>2, <1>3, <1>4
     DEF Honest, Ledger, Uploading, Verifying, Resuming, Copying, Present

\* Every step keeps the claims of the calls.
LEMMA HonestyStep == IInv /\ Honesty /\ [TreeNext]_treeVars => Honesty'
<1> SUFFICES ASSUME IInv, Honesty, [TreeNext]_treeVars PROVE Honesty'
  OBVIOUS
<1>1. Exclusion'
  BY ExclusionStep DEF Honesty
<1>2. CASE UNCHANGED treeVars
  BY <1>1, <1>2
     DEF treeVars, Honesty, Honest, Ledger, Uploading, Verifying, Resuming, Copying, Present
<1>3. ASSUME NEW u \in Uploader, Look(u) \/ Transferring(u) \/ Fail(u) PROVE Honesty'
  <2>1. Honest(u)'
    BY <1>3, ClaimsBegin, ClaimsStand DEF Honesty
  <2>2. \A v \in Uploader : v # u => Honest(v)'
    BY <1>3, OthersHonest DEF Honesty, Honest
  <2>3. QED
    BY <1>1, <2>1, <2>2 DEF Honesty
<1>4. QED
  BY <1>2, <1>3 DEF TreeNext

\* What a call certifies is what it did.
LEMMA HonestReceipt ==
  ASSUME IInv, NEW u \in Uploader, Honest(u), point[u] \in {"compare", "download"}
  PROVE /\ action[u] = "uploaded_new" => put[u] = Present(Tree[u])
        /\ action[u] = "verified_existing" => put[u] = {}
        /\ action[u] = "resumed_partial" => put[u] \notin {{}, Present(Tree[u])}
BY DEF IInv, TreeShapes, Action, Honest, Ledger, Uploading, Verifying, Resuming, Copying

\* A receipt that is not replaced stays truthful.
LEMMA KeptTruth ==
  ASSUME NEW u \in Uploader, Truthful(u), UNCHANGED receipt[u]
  PROVE Truthful(u)'
BY DEF Truthful, Present

\* The action a receipt reports is what its call did, however calls that may
\* overlap interleave and die: the choice on the first inventory of
\* resume_or_upload_and_verify_tree is still right when the receipt is made.
THEOREM TreeActionsTellTheTruth == TreeSpec => []ActionsTellTheTruth
<1>1. TreeInit => Honesty /\ ActionsTellTheTruth
  BY DEF TreeInit, Honesty, Exclusion, Honest, Ledger, Uploading, Verifying, Resuming, Copying,
         ActionsTellTheTruth
<1>2. IInv /\ Honesty /\ ActionsTellTheTruth /\ [TreeNext]_treeVars => ActionsTellTheTruth'
  <2> SUFFICES ASSUME IInv, Honesty, ActionsTellTheTruth, [TreeNext]_treeVars
               PROVE  ActionsTellTheTruth'
    OBVIOUS
  <2>1. CASE UNCHANGED treeVars
    BY <2>1, KeptTruth DEF treeVars, ActionsTellTheTruth
  <2>2. ASSUME NEW u \in Uploader, Look(u) \/ Transferring(u) \/ Fail(u) PROVE ActionsTellTheTruth'
    <3>1. \A v \in Uploader : v # u => UNCHANGED receipt[v]
      BY <2>2, OneCall DEF IInv
    <3>2. CASE UNCHANGED receipt[u]
      BY <3>1, <3>2, KeptTruth DEF ActionsTellTheTruth
    <3>3. CASE ~UNCHANGED receipt[u]
      <4>1. point[u] \in {"compare", "download"} /\ Certify(u)
        BY <2>2, <3>3 DEF Look, Transferring, Upload, Resume, CreateFile, Put, Write, Copied,
                          Compare,
                          Download, Fail, Raise
      <4>2. receipt'[u] = [action |-> action[u], put |-> put[u]]
        BY <4>1 DEF Certify, IInv, TreeShapes
      <4>3. /\ action[u] = "uploaded_new" => put[u] = Present(Tree[u])
            /\ action[u] = "verified_existing" => put[u] = {}
            /\ action[u] = "resumed_partial" => put[u] \notin {{}, Present(Tree[u])}
        BY <4>1, HonestReceipt DEF Honesty
      <4>4. receipt'[u].action = action[u] /\ receipt'[u].put = put[u] /\ action[u] \in Action
        BY <4>2 DEF IInv, TreeShapes
      <4>5. Truthful(u)'
        BY <4>3, <4>4 DEF Truthful, Present, Action
      <4>6. QED
        BY <3>1, <4>5, KeptTruth DEF ActionsTellTheTruth
    <3>4. QED
      BY <3>2, <3>3
  <2>3. QED
    BY <2>1, <2>2 DEF TreeNext
<1>3. QED
  BY <1>1, <1>2, HonestyStep, TreeInvariant, PTL DEF TreeSpec
=============================================================================
