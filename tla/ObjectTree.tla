----------------------------- MODULE ObjectTree -----------------------------
(***************************************************************************)
(* Publishing one finalized file tree under one object-store prefix        *)
(* (src/echoes/final_discovery/inputs.py,                                  *)
(* resume_or_upload_and_verify_tree and the two adapters it drives).       *)
(*                                                                         *)
(* A call looks at the prefix once to choose between a new upload, a       *)
(* verification of what is there and a resumption, looks again inside the  *)
(* adapter, adds objects one by one, and compares the result with its      *)
(* tree.  A call may die at any point and be made again.  The local        *)
(* adapter compares digests and writes files in place, so that a crash     *)
(* leaves a torn one; the B2 adapter compares sizes, downloads at the end, *)
(* and its objects appear whole.                                           *)
(***************************************************************************)
EXTENDS Naturals, FiniteSets

CONSTANTS
  Path,        \* relative object paths
  Bytes,       \* contents of whole objects
  Torn,        \* the content of a file whose writer died
  Missing,     \* no object, no path
  SizeOf,      \* content -> size
  Uploader,    \* callers of resume_or_upload_and_verify_tree
  Tree,        \* Uploader -> its tree: Path -> content, or Missing
  Backend,     \* "local" or "b2"
  MayOverlap,  \* pairs of uploaders whose calls may overlap
  MaxFailures  \* bound on crashes and transport failures

VARIABLES
  prefix,      \* the prefix: Path -> content, or Missing
  point,       \* where a call is
  action,      \* the transfer action it will report
  queue,       \* paths still to be copied
  writing,     \* the path whose file it is writing
  put,         \* history: objects this call has added
  receipt,     \* the last receipt of an uploader, with the objects its call added
  failures     \* crashes and transport failures so far

treeVars == <<prefix, point, action, queue, writing, put, receipt, failures>>

Action == {"uploaded_new", "verified_existing", "resumed_partial"}
Point == {"idle", "upload", "resume", "copy", "write", "compare", "download"}
TreeReceipt == [action : Action, put : SUBSET Path]

ASSUME TreeAssumption ==
  /\ IsFiniteSet(Path)
  /\ Torn \notin Bytes /\ Missing \notin Bytes \cup Path \cup TreeReceipt \cup {Torn}
  /\ SizeOf \in [Bytes \cup {Torn} -> Nat]
  /\ \A b \in Bytes : SizeOf[b] # SizeOf[Torn]
  /\ Tree \in [Uploader -> [Path -> Bytes \cup {Missing}]]
  /\ \A u \in Uploader : \E x \in Path : Tree[u][x] # Missing
  /\ Backend \in {"local", "b2"}
  /\ MayOverlap \subseteq Uploader \X Uploader
  /\ \A u, v \in Uploader : <<u, v>> \in MayOverlap => <<v, u>> \in MayOverlap
  /\ Backend = "b2" => MayOverlap = {}
  /\ MaxFailures \in Nat

Present(tree) == {x \in Path : tree[x] # Missing}

\* Where both have an object, the adapter sees no difference.
Agree(tree, other) ==
  \A x \in Present(tree) \cap Present(other) :
    /\ SizeOf[tree[x]] = SizeOf[other[x]]
    /\ Backend = "local" => tree[x] = other[x]

\* A call starts beside the calls in progress that it may overlap.
Admitted(u) == \A v \in Uploader : point[v] # "idle" => <<u, v>> \in MayOverlap

Turn(u, next) == point' = [point EXCEPT ![u] = next]

\* The call ends, without a receipt.
Raise(u) ==
  /\ Turn(u, "idle")
  /\ queue' = [queue EXCEPT ![u] = {}]
  /\ writing' = [writing EXCEPT ![u] = Missing]
  /\ UNCHANGED <<action, put, receipt>>

\* The call ends with a receipt.
Certify(u) ==
  /\ Turn(u, "idle")
  /\ receipt' = [receipt EXCEPT ![u] = [action |-> action[u], put |-> put[u]]]
  /\ UNCHANGED <<action, queue, writing, put>>

(***************************************************************************)
(* resume_or_upload_and_verify_tree                                        *)
(***************************************************************************)

\* Mutant: nothing is ever resumed.
LookUploadsPartial(u) ==
  /\ point[u] = "idle"
  /\ Admitted(u)
  /\ \/ /\ Cardinality(Present(prefix)) = Cardinality(Present(Tree[u]))
        /\ Turn(u, "compare") /\ action' = [action EXCEPT ![u] = "verified_existing"]
     \/ /\ Cardinality(Present(prefix)) # Cardinality(Present(Tree[u]))
        /\ Turn(u, "upload") /\ action' = [action EXCEPT ![u] = "uploaded_new"]
  /\ put' = [put EXCEPT ![u] = {}]
  /\ UNCHANGED <<prefix, queue, writing, receipt, failures>>

\* Inventory the prefix and choose.
Look(u) ==
  /\ point[u] = "idle"
  /\ Admitted(u)
  /\ \/ /\ Present(prefix) = {}
        /\ Turn(u, "upload") /\ action' = [action EXCEPT ![u] = "uploaded_new"]
     \/ /\ Present(prefix) # {}
        /\ Cardinality(Present(prefix)) = Cardinality(Present(Tree[u]))
        /\ Turn(u, "compare") /\ action' = [action EXCEPT ![u] = "verified_existing"]
     \/ /\ Present(prefix) # {}
        /\ Cardinality(Present(prefix)) # Cardinality(Present(Tree[u]))
        /\ Turn(u, "resume") /\ action' = [action EXCEPT ![u] = "resumed_partial"]
  /\ put' = [put EXCEPT ![u] = {}]
  /\ UNCHANGED <<prefix, queue, writing, receipt, failures>>

\* upload_tree: the prefix must still be empty.
Upload(u) ==
  /\ point[u] = "upload"
  /\ \/ /\ Present(prefix) # {}
        /\ Raise(u)
     \/ /\ Present(prefix) = {}
        /\ queue' = [queue EXCEPT ![u] = Present(Tree[u])]
        /\ Turn(u, "copy")
        /\ UNCHANGED <<action, writing, put, receipt>>
  /\ UNCHANGED <<prefix, failures>>

\* Mutant: what is there is not compared with the tree.
ResumeUnchecked(u) ==
  /\ point[u] = "resume"
  /\ queue' = [queue EXCEPT ![u] = Present(Tree[u]) \ Present(prefix)]
  /\ Turn(u, "copy")
  /\ UNCHANGED <<prefix, action, writing, put, receipt, failures>>

\* resume_upload_tree: the prefix must be a strict subset of the tree as far
\* as the adapter compares them.  The local adapter lists the absent files
\* now; rclone walks the whole tree.
Resume(u) ==
  LET ok == /\ Present(prefix) \subseteq Present(Tree[u])
            /\ Cardinality(Present(prefix)) < Cardinality(Present(Tree[u]))
            /\ Agree(prefix, Tree[u])
      todo == IF Backend = "local" THEN Present(Tree[u]) \ Present(prefix)
                                   ELSE Present(Tree[u])
  IN
  /\ point[u] = "resume"
  /\ \/ ~ok /\ Raise(u)
     \/ /\ ok
        /\ queue' = [queue EXCEPT ![u] = todo]
        /\ Turn(u, "copy")
        /\ UNCHANGED <<action, writing, put, receipt>>
  /\ UNCHANGED <<prefix, failures>>

\* Mutant: a file that is there is passed over.
CreateFileSkipping(u, x) ==
  /\ Backend = "local" /\ point[u] = "copy" /\ x \in queue[u]
  /\ \/ /\ prefix[x] # Missing
        /\ queue' = [queue EXCEPT ![u] = @ \ {x}]
        /\ UNCHANGED <<prefix, point, put, writing>>
     \/ /\ prefix[x] = Missing
        /\ prefix' = [prefix EXCEPT ![x] = Torn]
        /\ put' = [put EXCEPT ![u] = @ \cup {x}]
        /\ writing' = [writing EXCEPT ![u] = x]
        /\ Turn(u, "write") /\ UNCHANGED queue
  /\ UNCHANGED <<action, receipt, failures>>

\* _copy_file_new, local adapter: create the file, which must not exist ...
CreateFile(u, x) ==
  /\ Backend = "local" /\ point[u] = "copy" /\ x \in queue[u]
  /\ \/ /\ prefix[x] # Missing
        /\ Raise(u) /\ UNCHANGED prefix
     \/ /\ prefix[x] = Missing
        /\ prefix' = [prefix EXCEPT ![x] = Torn]
        /\ put' = [put EXCEPT ![u] = @ \cup {x}]
        /\ writing' = [writing EXCEPT ![u] = x]
        /\ Turn(u, "write")
        /\ UNCHANGED <<action, queue, receipt>>
  /\ UNCHANGED failures

\* ... and fill it.
Write(u) ==
  /\ point[u] = "write"
  /\ prefix' = [prefix EXCEPT ![writing[u]] = Tree[u][writing[u]]]
  /\ queue' = [queue EXCEPT ![u] = @ \ {writing[u]}]
  /\ writing' = [writing EXCEPT ![u] = Missing]
  /\ Turn(u, "copy")
  /\ UNCHANGED <<action, put, receipt, failures>>

\* rclone copy --immutable: an absent object is added whole, an equal one
\* passed over, and an object that differs makes the command fail, in any
\* order with the additions.
Put(u, x) ==
  /\ Backend = "b2" /\ point[u] = "copy" /\ x \in queue[u]
  /\ \/ /\ prefix[x] = Missing
        /\ prefix' = [prefix EXCEPT ![x] = Tree[u][x]]
        /\ put' = [put EXCEPT ![u] = @ \cup {x}]
        /\ queue' = [queue EXCEPT ![u] = @ \ {x}]
        /\ UNCHANGED <<point, action, writing, receipt>>
     \/ /\ prefix[x] = Tree[u][x]
        /\ queue' = [queue EXCEPT ![u] = @ \ {x}]
        /\ UNCHANGED <<prefix, point, action, writing, put, receipt>>
     \/ /\ prefix[x] \notin {Missing, Tree[u][x]}
        /\ Raise(u) /\ UNCHANGED prefix
  /\ UNCHANGED failures

Copied(u) ==
  /\ point[u] = "copy" /\ queue[u] = {}
  /\ Turn(u, "compare")
  /\ UNCHANGED <<prefix, action, queue, writing, put, receipt, failures>>

(***************************************************************************)
(* check_tree                                                              *)
(***************************************************************************)

\* Mutant: only the number of objects is compared.
CompareCounts(u) ==
  /\ point[u] = "compare"
  /\ IF Cardinality(Present(prefix)) = Cardinality(Present(Tree[u]))
       THEN Certify(u) ELSE Raise(u)
  /\ UNCHANGED <<prefix, failures>>

\* Same paths, and each object as far as inventories tell.
Compare(u) ==
  LET equal == Present(prefix) = Present(Tree[u]) /\ Agree(prefix, Tree[u]) IN
  /\ point[u] = "compare"
  /\ \/ ~equal /\ Raise(u)
     \/ equal /\ Backend = "local" /\ Certify(u)
     \/ /\ equal /\ Backend = "b2"
        /\ Turn(u, "download") /\ UNCHANGED <<action, queue, writing, put, receipt>>
  /\ UNCHANGED <<prefix, failures>>

\* rclone check --download
Download(u) ==
  /\ point[u] = "download"
  /\ IF prefix = Tree[u] THEN Certify(u) ELSE Raise(u)
  /\ UNCHANGED <<prefix, failures>>

\* The process dies or the transport fails.
Fail(u) ==
  /\ point[u] # "idle" /\ failures < MaxFailures
  /\ failures' = failures + 1
  /\ Raise(u)
  /\ UNCHANGED prefix

-----------------------------------------------------------------------------
TreeInit ==
  /\ prefix = [x \in Path |-> Missing]
  /\ point = [u \in Uploader |-> "idle"]
  /\ action = [u \in Uploader |-> "uploaded_new"]
  /\ queue = [u \in Uploader |-> {}]
  /\ writing = [u \in Uploader |-> Missing]
  /\ put = [u \in Uploader |-> {}]
  /\ receipt = [u \in Uploader |-> Missing]
  /\ failures = 0

Transferring(u) ==
  \/ Upload(u) \/ Resume(u) \/ Write(u) \/ Copied(u) \/ Compare(u) \/ Download(u)
  \/ \E x \in Path : CreateFile(u, x) \/ Put(u, x)

TreeNext == \E u \in Uploader : Look(u) \/ Transferring(u) \/ Fail(u)

TreeSpec == TreeInit /\ [][TreeNext]_treeVars

-----------------------------------------------------------------------------
(***************************************************************************)
(* Properties                                                              *)
(***************************************************************************)

\* Shapes of the prefix and of a call's locals; a call works on its own tree,
\* and holds a file open only while it writes it.
TreeShapes ==
  /\ prefix \in [Path -> Bytes \cup {Torn, Missing}]
  /\ point \in [Uploader -> Point]
  /\ action \in [Uploader -> Action]
  /\ queue \in [Uploader -> SUBSET Path]
  /\ writing \in [Uploader -> Path \cup {Missing}]
  /\ put \in [Uploader -> SUBSET Path]
  /\ receipt \in [Uploader -> TreeReceipt \cup {Missing}]
  /\ failures \in Nat
  /\ \A u \in Uploader : queue[u] \subseteq Present(Tree[u])
  /\ \A u \in Uploader : writing[u] # Missing <=> point[u] = "write"

\* No uploader, new, resuming or racing, replaces or removes an object.
ObjectsImmutable ==
  [][\A x \in Path : prefix[x] \in Bytes => prefix'[x] = prefix[x]]_treeVars

\* A receipt never becomes false: from the comparison it rests on, the prefix
\* holds exactly the tree it certifies, whoever calls again with whatever.
ReceiptStaysExact ==
  \A u \in Uploader : receipt[u] # Missing => prefix = Tree[u]

\* What the action in a receipt says of the objects its call added.
Truthful(u) ==
  LET added == receipt[u].put IN
  CASE receipt[u].action = "uploaded_new" -> added = Present(Tree[u])
    [] receipt[u].action = "verified_existing" -> added = {}
    [] receipt[u].action = "resumed_partial" -> added \notin {{}, Present(Tree[u])}

\* The action a receipt reports is what its call did: a new upload added every
\* object, a verification none, a resumption some and not all.  The choice is
\* made on a first look at the prefix, the additions follow later ones.
ActionsTellTheTruth == \A u \in Uploader : receipt[u] # Missing => Truthful(u)

\* "extra, renamed, or changed objects block both resume and verification":
\* an uploader adds nothing beside an object that is not of its tree.  Only
\* where calls may overlap can it pass by a torn one, whose writer still
\* writes or has died since the call looked.
ForeignObjectsBlock ==
  [][\A u \in Uploader : put'[u] \ put[u] # {} =>
       \A x \in Path :
         \/ prefix[x] \in {Tree[u][x], Missing}
         \/ prefix[x] = Torn /\ \E v \in Uploader : <<u, v>> \in MayOverlap]_treeVars
=============================================================================
