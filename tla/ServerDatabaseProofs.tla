------------------------ MODULE ServerDatabaseProofs ------------------------
(***************************************************************************)
(* A recorded hash is enough, for any number of bootstraps, receipts,      *)
(* deaths and power failures.  Every write gives the file a content that   *)
(* no record can name yet, and while anything runs the views only ever go  *)
(* from transferred to rebound: so what a record says of a content, whose  *)
(* hash may be older than the look at the views, stays true of it.         *)
(***************************************************************************)
EXTENDS ServerDatabase, TLAPS

Working == {"check", "recover", "replace", "close", "receipt", "verify", "index", "validate"}

\* What a bootstrap relies on at each of its steps.
Located ==
  \A s \in Shell :
    /\ pc[s] \in Working => chosen[s] \in Receipt
    /\ pc[s] = "recover" => seen[s].serial > 0
    /\ pc[s] = "close" => writer = s /\ wal # None /\ wal.views = "rebound"
    /\ pc[s] = "receipt" => Seen.views = "rebound" /\ file.serial > 0
    /\ pc[s] = "validate" => receipts[chosen[s]] # None

Known(content) == content \in Bytes /\ content.serial \in 1 .. serial

\* The records name contents that have been, and never the transferred one.
Recorded ==
  /\ file.serial <= serial /\ (file = TransferDatabase \/ file.serial > 0)
  /\ \A s \in Shell : seen[s].serial <= serial
  /\ \A r \in Receipt : receipts[r] # None => Known(receipts[r])
  /\ index # None => Known(index.rebound)
  /\ validation # None => Known(validation.rebound)
  /\ contract # None => Known(contract.rebound)

\* The lexical tables are in the database only with the output in its place.
Loaded ==
  /\ worker = "loading" => writer = "worker" /\ wal # None
  /\ worker \in {"promoted", "loading", "loaded"} => canonical
  /\ Seen.lexical => canonical

ServerInv ==
  /\ ServerTypeOK /\ Located /\ Recorded /\ Loaded
  /\ HashIsEnough /\ WorkerFindsItsDatabase

-----------------------------------------------------------------------------
LEMMA SeenIsCatalog == ServerTypeOK => Seen \in Catalog
BY DEF ServerTypeOK, Seen, Bytes

LEMMA OriginalIsContent ==
  /\ TransferDatabase \in Bytes /\ TransferDatabase.serial = 0
  /\ None \notin Bytes /\ None \notin Record
  /\ None \notin Catalog
BY ServerAssumption DEF TransferDatabase, Bytes, Catalog, Views

LEMMA ServerInitEstablishes == ServerInit => ServerInv
<1> USE ServerAssumption
<1> SUFFICES ASSUME ServerInit PROVE ServerInv
  OBVIOUS
<1>1. ServerTypeOK
  <2>1. /\ pc \in [Shell -> Point] /\ chosen \in [Shell -> Receipt \cup {None}]
        /\ receipts \in [Receipt -> Bytes \cup {None}]
    BY DEF ServerInit, Point
  <2>2. file \in Bytes /\ seen \in [Shell -> Bytes]
    BY OriginalIsContent DEF ServerInit
  <2>3. serial \in 0 .. MaxSerial /\ intents \subseteq Receipt
    BY DEF ServerInit
  <2>4. /\ writer = None /\ index = None /\ validation = None /\ contract = None /\ wal = None
        /\ worker = "stopped" /\ journal = FALSE /\ canonical = FALSE /\ launch = "none"
        /\ concurrent = FALSE
    BY DEF ServerInit
  <2>5. QED
    BY <2>1, <2>2, <2>3, <2>4 DEF ServerTypeOK
<1>2. Located
  BY DEF ServerInit, Located, Working
<1>3. Recorded
  BY OriginalIsContent DEF ServerInit, Recorded
<1>4. Loaded
  BY DEF ServerInit, Loaded, Seen, TransferDatabase
<1>5. HashIsEnough /\ WorkerFindsItsDatabase
  BY DEF ServerInit, HashIsEnough, WorkerFindsItsDatabase
<1>6. QED
  BY <1>1, <1>2, <1>3, <1>4, <1>5 DEF ServerInv

\* Every step keeps the types.
LEMMA ServerTypeOKKept ==
  ASSUME ServerTypeOK, Located, Loaded, [ServerNext]_vars
  PROVE  ServerTypeOK'
<1> USE ServerAssumption
<1>1. ASSUME NEW s \in Shell, Survey(s) PROVE ServerTypeOK'
  <2>1. index # None => index.receipt \in Receipt
    BY ServerTypeOK DEF ServerTypeOK, Record
  <2>2. chosen' \in [Shell -> Receipt \cup {None}] /\ pc' \in [Shell -> Point]
    BY <1>1, <2>1, ServerTypeOK
       DEF Survey, Reach, Eligible, Whole, ServerTypeOK, Point, database, evidence, service, Receipt
  <2>3. QED
    BY <1>1, <2>2, ServerTypeOK DEF Survey, ServerTypeOK, database, evidence, service, faults
<1>2. ASSUME NEW s \in Shell, Transferred(s) PROVE ServerTypeOK'
  BY <1>2, ServerTypeOK, Located, SeenIsCatalog, OriginalIsContent DEF Transferred, Pass,
     Reach, Exit, Whole, database, evidence, service, faults, ServerTypeOK, Located, Point,
     Working
<1>3. ASSUME NEW s \in Shell, Choose(s) PROVE ServerTypeOK'
  BY <1>3, ServerTypeOK, Located, SeenIsCatalog, OriginalIsContent DEF Choose, Reach, Exit,
     database, evidence, service, faults, ServerTypeOK, Located, Point, Working
<1>4. ASSUME NEW s \in Shell, Check(s) PROVE ServerTypeOK'
  BY <1>4, ServerTypeOK, Located, SeenIsCatalog, OriginalIsContent DEF Check, Reach, Exit,
     database, service, faults, ServerTypeOK, Located, Point, Working
<1>5. ASSUME NEW s \in Shell, Recover(s) PROVE ServerTypeOK'
  BY <1>5, ServerTypeOK, Located, SeenIsCatalog, OriginalIsContent DEF Recover, Put, Pass,
     Reach, Exit, database, service, faults, ServerTypeOK, Located, Point, Working
<1>6. ASSUME NEW s \in Shell, Replace(s) PROVE ServerTypeOK'
  BY <1>6, ServerTypeOK, Located, SeenIsCatalog, OriginalIsContent DEF Replace, Pass, Reach,
     Exit, evidence, service, faults, ServerTypeOK, Located, Point, Working, Catalog, Views
<1>7. ASSUME NEW s \in Shell, Close(s) PROVE ServerTypeOK'
  BY <1>7, ServerTypeOK, Located, SeenIsCatalog, OriginalIsContent DEF Close, Pass, Reach,
     Checkpoint, evidence, service, faults, ServerTypeOK, Located, Point, Working, Bytes
<1>8. ASSUME NEW s \in Shell, WriteReceipt(s) PROVE ServerTypeOK'
  BY <1>8, ServerTypeOK, Located, SeenIsCatalog, OriginalIsContent DEF WriteReceipt, Put, Pass,
     Reach, Exit, database, service, faults, ServerTypeOK, Located, Point, Working
<1>9. ASSUME NEW s \in Shell, Verify(s) PROVE ServerTypeOK'
  BY <1>9, ServerTypeOK, Located, SeenIsCatalog, OriginalIsContent DEF Verify, Pass, Reach,
     Exit, Verifies, Whole, database, evidence, service, faults, ServerTypeOK, Located, Point,
     Working
<1>10. ASSUME NEW s \in Shell, WriteIndex(s) PROVE ServerTypeOK'
  BY <1>10, ServerTypeOK, Located, SeenIsCatalog, OriginalIsContent DEF WriteIndex, Pass,
     Reach, Exit, Whole, database, service, faults, ServerTypeOK, Located, Point, Working,
     Record
<1>11. ASSUME NEW s \in Shell, Validate(s) PROVE ServerTypeOK'
  BY <1>11, ServerTypeOK, Located, SeenIsCatalog, OriginalIsContent DEF Validate, Exit, Reach,
     database, service, faults, ServerTypeOK, Located, Point, Working, Record
<1>12. ASSUME NEW s \in Shell, ReplaceFails(s) PROVE ServerTypeOK'
  BY <1>12, ServerTypeOK, Located, SeenIsCatalog, OriginalIsContent DEF ReplaceFails, Exit,
     Reach, database, evidence, service, ServerTypeOK, Located, Point, Working
<1>13. ASSUME NEW s \in Shell, ShellDies(s) PROVE ServerTypeOK'
  BY <1>13, ServerTypeOK, Located, SeenIsCatalog, OriginalIsContent DEF ShellDies, Exit, Reach,
     evidence, service, ServerTypeOK, Located, Point, Working
<1>14. ASSUME Upload PROVE ServerTypeOK'
  BY <1>14, ServerTypeOK, Located, SeenIsCatalog, OriginalIsContent DEF Upload, evidence,
     local, service, faults, ServerTypeOK, Located, Point, Working
<1>15. ASSUME OtherLoad PROVE ServerTypeOK'
  BY <1>15, ServerTypeOK, Located, SeenIsCatalog, OriginalIsContent DEF OtherLoad, evidence,
     local, service, ServerTypeOK, Located, Point, Working, Bytes
<1>16. ASSUME Install PROVE ServerTypeOK'
  BY <1>16, ServerTypeOK, Located, SeenIsCatalog, OriginalIsContent DEF Install, Verifies,
     Whole, database, evidence, local, faults, ServerTypeOK, Located, Point, Working
<1>17. ASSUME Launch PROVE ServerTypeOK'
  BY <1>17, ServerTypeOK, Located, SeenIsCatalog, OriginalIsContent DEF Launch, Verdict,
     Verifies, Whole, database, evidence, local, faults, ServerTypeOK, Located, Point, Working
<1>18. ASSUME Enter PROVE ServerTypeOK'
  BY <1>18, ServerTypeOK, Located, SeenIsCatalog, OriginalIsContent DEF Enter, Whole, database,
     evidence, local, faults, ServerTypeOK, Located, Point, Working
<1>19. ASSUME Promote PROVE ServerTypeOK'
  BY <1>19, ServerTypeOK, Located, SeenIsCatalog, OriginalIsContent DEF Promote, database,
     evidence, local, faults, ServerTypeOK, Located, Point, Working
<1>20. ASSUME Load PROVE ServerTypeOK'
  BY <1>20, ServerTypeOK, Located, SeenIsCatalog, OriginalIsContent DEF Load, evidence, local,
     faults, ServerTypeOK, Located, Point, Working, Catalog
<1>21. ASSUME CloseLoaded PROVE ServerTypeOK'
  BY <1>21, ServerTypeOK, Located, SeenIsCatalog, OriginalIsContent DEF CloseLoaded,
     Checkpoint, evidence, local, faults, ServerTypeOK, Located, Point, Working, Bytes, Loaded
<1>22. ASSUME Seal PROVE ServerTypeOK'
  BY <1>22, ServerTypeOK, Located, SeenIsCatalog, OriginalIsContent DEF Seal, database,
     evidence, local, faults, ServerTypeOK, Located, Point, Working
<1>23. ASSUME WorkerDies PROVE ServerTypeOK'
  BY <1>23, ServerTypeOK, Located, SeenIsCatalog, OriginalIsContent DEF WorkerDies, evidence,
     local, ServerTypeOK, Located, Point, Working
<1>24. ASSUME WriteBack PROVE ServerTypeOK'
  BY <1>24, ServerTypeOK, Located, SeenIsCatalog, OriginalIsContent DEF WriteBack, database,
     evidence, local, service, faults, ServerTypeOK, Located, Point, Working
<1>25. ASSUME PowerFails PROVE ServerTypeOK'
  BY <1>25, ServerTypeOK, Located, SeenIsCatalog, OriginalIsContent DEF PowerFails,
     ServerTypeOK, Located, Point, Working
<1>26. CASE UNCHANGED vars
  BY <1>26, ServerTypeOK, Located, SeenIsCatalog, OriginalIsContent DEF vars, database,
     evidence, local, service, faults, ServerTypeOK, Located, Point, Working
<1>27. QED
  BY <1>1, <1>2, <1>3, <1>4, <1>5, <1>6, <1>7, <1>8, <1>9, <1>10, <1>11, <1>12, <1>13, <1>14,
     <1>15, <1>16, <1>17, <1>18, <1>19, <1>20, <1>21, <1>22, <1>23, <1>24, <1>25, <1>26 DEF
     ServerNext, BootstrapStep, WorkerStep

\* While anything runs, rebound views stay; and only the worker adds tables.
Grows ==
  /\ (\E s \in Shell : pc[s] # "idle") \/ worker # "stopped" =>
       (Seen.views = "rebound" => Seen'.views = "rebound")
  /\ Seen'.lexical => Seen.lexical \/ worker = "promoted"

\* A write gives the file a content of a new number, or the transferred one.
Moves ==
  \/ file' = file /\ serial' = serial
  \/ file' = TransferDatabase /\ serial' = serial /\ \A s \in Shell : pc[s] = "idle"
  \/ file'.serial = serial' /\ serial' = serial + 1

\* What a connection sees grows.
LEMMA SeenGrows ==
  ASSUME ServerTypeOK, Located, Loaded, [ServerNext]_vars
  PROVE  Grows
<1> USE ServerAssumption
<1>1. ASSUME NEW s \in Shell, Survey(s) PROVE Grows
  BY <1>1, ServerTypeOK, Located, Loaded, OriginalIsContent DEF Survey, Reach, Pass, Exit,
     Eligible, Whole, database, evidence, service, Grows, Seen, ServerTypeOK, Located, Loaded,
     Catalog
<1>2. ASSUME NEW s \in Shell, Transferred(s) PROVE Grows
  BY <1>2, ServerTypeOK, Located, Loaded, OriginalIsContent DEF Transferred, Pass, Reach, Exit,
     Whole, database, evidence, service, faults, Grows, Seen, ServerTypeOK, Located, Loaded,
     Catalog
<1>3. ASSUME NEW s \in Shell, Choose(s) PROVE Grows
  BY <1>3, ServerTypeOK, Located, Loaded, OriginalIsContent DEF Choose, Reach, Exit, database,
     evidence, service, faults, Grows, Seen, ServerTypeOK, Located, Loaded, Catalog
<1>4. ASSUME NEW s \in Shell, Check(s) PROVE Grows
  BY <1>4, ServerTypeOK, Located, Loaded, OriginalIsContent DEF Check, Reach, Exit, database,
     service, faults, Grows, Seen, ServerTypeOK, Located, Loaded, Catalog
<1>5. ASSUME NEW s \in Shell, Recover(s) PROVE Grows
  BY <1>5, ServerTypeOK, Located, Loaded, OriginalIsContent DEF Recover, Put, Pass, Reach,
     Exit, database, service, faults, Grows, Seen, ServerTypeOK, Located, Loaded, Catalog
<1>6. ASSUME NEW s \in Shell, Replace(s) PROVE Grows
  <2>1. Seen \in Catalog
    BY SeenIsCatalog, ServerTypeOK
  <2>2. CASE writer = None
    <3>1. wal' = [Seen EXCEPT !.views = "rebound"] /\ wal' # None
      BY <1>6, <2>1, <2>2, OriginalIsContent DEF Replace, Catalog, Views
    <3>2. Seen' = wal'
      BY <3>1 DEF Seen
    <3>3. QED
      BY <2>1, <3>1, <3>2 DEF Grows, Catalog
  <2>3. CASE writer # None
    BY <1>6, <2>3 DEF Replace, Grows, Seen
  <2>4. QED
    BY <2>2, <2>3
<1>7. ASSUME NEW s \in Shell, Close(s) PROVE Grows
  BY <1>7, ServerTypeOK, Located, Loaded, OriginalIsContent DEF Close, Pass, Reach, Checkpoint,
     evidence, service, faults, Grows, Seen, ServerTypeOK, Located, Loaded, Catalog
<1>8. ASSUME NEW s \in Shell, WriteReceipt(s) PROVE Grows
  BY <1>8, ServerTypeOK, Located, Loaded, OriginalIsContent DEF WriteReceipt, Put, Pass, Reach,
     Exit, database, service, faults, Grows, Seen, ServerTypeOK, Located, Loaded, Catalog
<1>9. ASSUME NEW s \in Shell, Verify(s) PROVE Grows
  BY <1>9, ServerTypeOK, Located, Loaded, OriginalIsContent DEF Verify, Pass, Reach, Exit,
     Verifies, Whole, database, evidence, service, faults, Grows, Seen, ServerTypeOK, Located,
     Loaded, Catalog
<1>10. ASSUME NEW s \in Shell, WriteIndex(s) PROVE Grows
  BY <1>10, ServerTypeOK, Located, Loaded, OriginalIsContent DEF WriteIndex, Pass, Reach, Exit,
     Whole, database, service, faults, Grows, Seen, ServerTypeOK, Located, Loaded, Catalog
<1>11. ASSUME NEW s \in Shell, Validate(s) PROVE Grows
  BY <1>11, ServerTypeOK, Located, Loaded, OriginalIsContent DEF Validate, Exit, Reach,
     database, service, faults, Grows, Seen, ServerTypeOK, Located, Loaded, Catalog
<1>12. ASSUME NEW s \in Shell, ReplaceFails(s) PROVE Grows
  BY <1>12, ServerTypeOK, Located, Loaded, OriginalIsContent DEF ReplaceFails, Exit, Reach,
     database, evidence, service, Grows, Seen, ServerTypeOK, Located, Loaded, Catalog
<1>13. ASSUME NEW s \in Shell, ShellDies(s) PROVE Grows
  BY <1>13, ServerTypeOK, Located, Loaded, OriginalIsContent DEF ShellDies, Exit, Reach,
     evidence, service, Grows, Seen, ServerTypeOK, Located, Loaded, Catalog
<1>14. ASSUME Upload PROVE Grows
  BY <1>14, ServerTypeOK, Located, Loaded, OriginalIsContent DEF Upload, evidence, local,
     service, faults, Grows, Seen, ServerTypeOK, Located, Loaded, Catalog, TransferDatabase
<1>15. ASSUME OtherLoad PROVE Grows
  BY <1>15, ServerTypeOK, Located, Loaded, OriginalIsContent DEF OtherLoad, evidence, local,
     service, Grows, Seen, ServerTypeOK, Located, Loaded, Catalog, Bytes
<1>16. ASSUME Install PROVE Grows
  BY <1>16, ServerTypeOK, Located, Loaded, OriginalIsContent DEF Install, Verifies, Whole,
     database, evidence, local, faults, Grows, Seen, ServerTypeOK, Located, Loaded, Catalog
<1>17. ASSUME Launch PROVE Grows
  BY <1>17, ServerTypeOK, Located, Loaded, OriginalIsContent DEF Launch, Verdict, Verifies,
     Whole, database, evidence, local, faults, Grows, Seen, ServerTypeOK, Located, Loaded,
     Catalog
<1>18. ASSUME Enter PROVE Grows
  BY <1>18, ServerTypeOK, Located, Loaded, OriginalIsContent DEF Enter, Whole, database,
     evidence, local, faults, Grows, Seen, ServerTypeOK, Located, Loaded, Catalog
<1>19. ASSUME Promote PROVE Grows
  BY <1>19, ServerTypeOK, Located, Loaded, OriginalIsContent DEF Promote, database, evidence,
     local, faults, Grows, Seen, ServerTypeOK, Located, Loaded, Catalog
<1>20. ASSUME Load PROVE Grows
  <2>1. Seen \in Catalog
    BY SeenIsCatalog, ServerTypeOK
  <2>2. CASE writer = None
    <3>1. wal' = [Seen EXCEPT !.lexical = TRUE] /\ wal' # None
      BY <1>20, <2>1, <2>2, OriginalIsContent DEF Load, Catalog, Views
    <3>2. Seen' = wal'
      BY <3>1 DEF Seen
    <3>3. QED
      BY <1>20, <2>1, <3>1, <3>2 DEF Grows, Catalog, Load
  <2>3. CASE writer # None
    BY <1>20, <2>3 DEF Load, Grows, Seen
  <2>4. QED
    BY <2>2, <2>3
<1>21. ASSUME CloseLoaded PROVE Grows
  BY <1>21, ServerTypeOK, Located, Loaded, OriginalIsContent DEF CloseLoaded, Checkpoint,
     evidence, local, faults, Grows, Seen, ServerTypeOK, Located, Loaded, Catalog
<1>22. ASSUME Seal PROVE Grows
  BY <1>22, ServerTypeOK, Located, Loaded, OriginalIsContent DEF Seal, database, evidence,
     local, faults, Grows, Seen, ServerTypeOK, Located, Loaded, Catalog
<1>23. ASSUME WorkerDies PROVE Grows
  BY <1>23, ServerTypeOK, Located, Loaded, OriginalIsContent DEF WorkerDies, evidence, local,
     Grows, Seen, ServerTypeOK, Located, Loaded, Catalog
<1>24. ASSUME WriteBack PROVE Grows
  BY <1>24, ServerTypeOK, Located, Loaded, OriginalIsContent DEF WriteBack, database, evidence,
     local, service, faults, Grows, Seen, ServerTypeOK, Located, Loaded, Catalog
<1>25. ASSUME PowerFails PROVE Grows
  BY <1>25, ServerTypeOK, Located, Loaded, OriginalIsContent DEF PowerFails, Grows, Seen,
     ServerTypeOK, Located, Loaded, Catalog
<1>26. CASE UNCHANGED vars
  BY <1>26, ServerTypeOK, Located, Loaded, OriginalIsContent DEF vars, database, evidence,
     local, service, faults, Grows, Seen, ServerTypeOK, Located, Loaded, Catalog
<1>27. QED
  BY <1>1, <1>2, <1>3, <1>4, <1>5, <1>6, <1>7, <1>8, <1>9, <1>10, <1>11, <1>12, <1>13, <1>14,
     <1>15, <1>16, <1>17, <1>18, <1>19, <1>20, <1>21, <1>22, <1>23, <1>24, <1>25, <1>26 DEF
     ServerNext, BootstrapStep, WorkerStep

\* The serial tells the contents of the file apart.
LEMMA FileMoves ==
  ASSUME ServerTypeOK, [ServerNext]_vars
  PROVE  Moves
<1> USE ServerAssumption
<1>1. ASSUME NEW s \in Shell, Survey(s) PROVE Moves
  BY <1>1, ServerTypeOK DEF Survey, Reach, Pass, Exit, Eligible, Whole, database, evidence,
     service, Moves
<1>2. ASSUME NEW s \in Shell, Transferred(s) PROVE Moves
  BY <1>2, ServerTypeOK DEF Transferred, Pass, Reach, Exit, Whole, database, evidence, service,
     faults, Moves
<1>3. ASSUME NEW s \in Shell, Choose(s) PROVE Moves
  BY <1>3, ServerTypeOK DEF Choose, Reach, Exit, database, evidence, service, faults, Moves
<1>4. ASSUME NEW s \in Shell, Check(s) PROVE Moves
  BY <1>4, ServerTypeOK DEF Check, Reach, Exit, database, service, faults, Moves
<1>5. ASSUME NEW s \in Shell, Recover(s) PROVE Moves
  BY <1>5, ServerTypeOK DEF Recover, Put, Pass, Reach, Exit, database, service, faults, Moves
<1>6. ASSUME NEW s \in Shell, Replace(s) PROVE Moves
  BY <1>6, ServerTypeOK DEF Replace, Pass, Reach, Exit, evidence, service, faults, Moves
<1>7. ASSUME NEW s \in Shell, Close(s) PROVE Moves
  BY <1>7, ServerTypeOK DEF Close, Pass, Reach, Checkpoint, evidence, service, faults, Moves
<1>8. ASSUME NEW s \in Shell, WriteReceipt(s) PROVE Moves
  BY <1>8, ServerTypeOK DEF WriteReceipt, Put, Pass, Reach, Exit, database, service, faults,
     Moves
<1>9. ASSUME NEW s \in Shell, Verify(s) PROVE Moves
  BY <1>9, ServerTypeOK DEF Verify, Pass, Reach, Exit, Verifies, Whole, database, evidence,
     service, faults, Moves
<1>10. ASSUME NEW s \in Shell, WriteIndex(s) PROVE Moves
  BY <1>10, ServerTypeOK DEF WriteIndex, Pass, Reach, Exit, Whole, database, service, faults,
     Moves
<1>11. ASSUME NEW s \in Shell, Validate(s) PROVE Moves
  BY <1>11, ServerTypeOK DEF Validate, Exit, Reach, database, service, faults, Moves
<1>12. ASSUME NEW s \in Shell, ReplaceFails(s) PROVE Moves
  BY <1>12, ServerTypeOK DEF ReplaceFails, Exit, Reach, database, evidence, service, Moves
<1>13. ASSUME NEW s \in Shell, ShellDies(s) PROVE Moves
  BY <1>13, ServerTypeOK DEF ShellDies, Exit, Reach, evidence, service, Moves
<1>14. ASSUME Upload PROVE Moves
  BY <1>14, ServerTypeOK DEF Upload, evidence, local, service, faults, Moves
<1>15. ASSUME OtherLoad PROVE Moves
  BY <1>15, ServerTypeOK DEF OtherLoad, evidence, local, service, Moves
<1>16. ASSUME Install PROVE Moves
  BY <1>16, ServerTypeOK DEF Install, Verifies, Whole, database, evidence, local, faults, Moves
<1>17. ASSUME Launch PROVE Moves
  BY <1>17, ServerTypeOK DEF Launch, Verdict, Verifies, Whole, database, evidence, local,
     faults, Moves
<1>18. ASSUME Enter PROVE Moves
  BY <1>18, ServerTypeOK DEF Enter, Whole, database, evidence, local, faults, Moves
<1>19. ASSUME Promote PROVE Moves
  BY <1>19, ServerTypeOK DEF Promote, database, evidence, local, faults, Moves
<1>20. ASSUME Load PROVE Moves
  BY <1>20, ServerTypeOK DEF Load, evidence, local, faults, Moves
<1>21. ASSUME CloseLoaded PROVE Moves
  BY <1>21, ServerTypeOK DEF CloseLoaded, Checkpoint, evidence, local, faults, Moves
<1>22. ASSUME Seal PROVE Moves
  BY <1>22, ServerTypeOK DEF Seal, database, evidence, local, faults, Moves
<1>23. ASSUME WorkerDies PROVE Moves
  BY <1>23, ServerTypeOK DEF WorkerDies, evidence, local, Moves
<1>24. ASSUME WriteBack PROVE Moves
  BY <1>24, ServerTypeOK DEF WriteBack, database, evidence, local, service, faults, Moves
<1>25. ASSUME PowerFails PROVE Moves
  BY <1>25, ServerTypeOK DEF PowerFails, Moves
<1>26. CASE UNCHANGED vars
  BY <1>26, ServerTypeOK DEF vars, database, evidence, local, service, faults, Moves
<1>27. QED
  BY <1>1, <1>2, <1>3, <1>4, <1>5, <1>6, <1>7, <1>8, <1>9, <1>10, <1>11, <1>12, <1>13, <1>14,
     <1>15, <1>16, <1>17, <1>18, <1>19, <1>20, <1>21, <1>22, <1>23, <1>24, <1>25, <1>26 DEF
     ServerNext, BootstrapStep, WorkerStep

\* What a bootstrap relies on stays, whatever the others do.
LEMMA LocatedKept ==
  ASSUME ServerTypeOK, ServerTypeOK', Located, Recorded, Loaded, Grows, Moves,
     [ServerNext]_vars
  PROVE  Located'
<1> USE ServerAssumption
<1>1. ASSUME NEW s \in Shell, Survey(s) PROVE Located'
  BY <1>1, ServerTypeOK, Located, Grows, Moves DEF Survey, Reach, Pass, Exit, Eligible, Whole,
     database, evidence, service, ServerTypeOK, Located, Working, Grows, Moves
<1>2. ASSUME NEW s \in Shell, Transferred(s) PROVE Located'
  BY <1>2, ServerTypeOK, Located, Grows, Moves DEF Transferred, Pass, Reach, Exit, Whole,
     database, evidence, service, faults, ServerTypeOK, Located, Working, Grows, Moves
<1>3. ASSUME NEW s \in Shell, Choose(s) PROVE Located'
  BY <1>3, ServerTypeOK, Located, Grows, Moves DEF Choose, Reach, Exit, database, evidence,
     service, faults, ServerTypeOK, Located, Working, Grows, Moves
<1>4. ASSUME NEW s \in Shell, Check(s) PROVE Located'
  BY <1>4, ServerTypeOK, Located, Grows, Moves, Recorded, OriginalIsContent DEF Check, Reach,
     Exit, database, service, faults, ServerTypeOK, Located, Working, Grows, Moves, Recorded
<1>5. ASSUME NEW s \in Shell, Recover(s) PROVE Located'
  BY <1>5, ServerTypeOK, Located, Grows, Moves DEF Recover, Put, Pass, Reach, Exit, database,
     service, faults, ServerTypeOK, Located, Working, Grows, Moves
<1>6. ASSUME NEW s \in Shell, Replace(s) PROVE Located'
  <2>1. pc[s] = "replace" /\ chosen' \in [Shell -> Receipt \cup {None}]
    BY <1>6, ServerTypeOK' DEF Replace, ServerTypeOK
  <2>2. CASE writer = None
    <3>1. /\ wal' = [Seen EXCEPT !.views = "rebound"] /\ writer' = s
          /\ pc' = [pc EXCEPT ![s] = "close"] /\ UNCHANGED <<chosen, seen, file, receipts>>
      BY <1>6, <2>2 DEF Replace, Pass, Reach, evidence
    <3>2. wal' # None /\ wal'.views = "rebound"
      BY <3>1, SeenIsCatalog, ServerTypeOK, OriginalIsContent DEF Catalog, Views
    <3>3. \A t \in Shell : pc[t] # "close"
      BY <2>2, Located, ServerAssumption DEF Located
    <3>4. \A t \in Shell : pc[t] # "idle" => (Seen.views = "rebound" => Seen'.views = "rebound")
      BY Grows DEF Grows
    <3>5. QED
      BY <2>1, <3>1, <3>2, <3>3, <3>4, Located, ServerTypeOK DEF Located, Working, ServerTypeOK
  <2>3. CASE writer # None
    <3>1. /\ pc' = [pc EXCEPT ![s] = "idle"] /\ chosen' = [chosen EXCEPT ![s] = None]
          /\ seen' = [seen EXCEPT ![s] = TransferDatabase]
          /\ UNCHANGED <<file, wal, writer, receipts>>
      BY <1>6, <2>3 DEF Replace, Exit, Reach, evidence
    <3>2. Seen' = Seen
      BY <3>1 DEF Seen
    <3>3. QED
      BY <3>1, <3>2, Located, ServerTypeOK DEF Located, Working, ServerTypeOK
  <2>4. QED
    BY <2>2, <2>3
<1>7. ASSUME NEW s \in Shell, Close(s) PROVE Located'
  BY <1>7, ServerTypeOK, Located, Grows, Moves DEF Close, Pass, Reach, Checkpoint, evidence,
     service, faults, ServerTypeOK, Located, Working, Grows, Moves, Seen
<1>8. ASSUME NEW s \in Shell, WriteReceipt(s) PROVE Located'
  BY <1>8, ServerTypeOK, Located, Grows, Moves DEF WriteReceipt, Put, Pass, Reach, Exit,
     database, service, faults, ServerTypeOK, Located, Working, Grows, Moves
<1>9. ASSUME NEW s \in Shell, Verify(s) PROVE Located'
  BY <1>9, ServerTypeOK, Located, Grows, Moves DEF Verify, Pass, Reach, Exit, Verifies, Whole,
     database, evidence, service, faults, ServerTypeOK, Located, Working, Grows, Moves
<1>10. ASSUME NEW s \in Shell, WriteIndex(s) PROVE Located'
  BY <1>10, ServerTypeOK, Located, Grows, Moves DEF WriteIndex, Pass, Reach, Exit, Whole,
     database, service, faults, ServerTypeOK, Located, Working, Grows, Moves
<1>11. ASSUME NEW s \in Shell, Validate(s) PROVE Located'
  BY <1>11, ServerTypeOK, Located, Grows, Moves DEF Validate, Exit, Reach, database, service,
     faults, ServerTypeOK, Located, Working, Grows, Moves
<1>12. ASSUME NEW s \in Shell, ReplaceFails(s) PROVE Located'
  BY <1>12, ServerTypeOK, Located, Grows, Moves DEF ReplaceFails, Exit, Reach, database,
     evidence, service, ServerTypeOK, Located, Working, Grows, Moves
<1>13. ASSUME NEW s \in Shell, ShellDies(s) PROVE Located'
  BY <1>13, ServerTypeOK, Located, Grows, Moves DEF ShellDies, Exit, Reach, evidence, service,
     ServerTypeOK, Located, Working, Grows, Moves
<1>14. ASSUME Upload PROVE Located'
  BY <1>14, ServerTypeOK, Located, Grows, Moves DEF Upload, evidence, local, service, faults,
     ServerTypeOK, Located, Working, Grows, Moves
<1>15. ASSUME OtherLoad PROVE Located'
  BY <1>15, ServerTypeOK, Located, Grows, Moves DEF OtherLoad, evidence, local, service,
     ServerTypeOK, Located, Working, Grows, Moves
<1>16. ASSUME Install PROVE Located'
  BY <1>16, ServerTypeOK, Located, Grows, Moves DEF Install, Verifies, Whole, database,
     evidence, local, faults, ServerTypeOK, Located, Working, Grows, Moves
<1>17. ASSUME Launch PROVE Located'
  BY <1>17, ServerTypeOK, Located, Grows, Moves DEF Launch, Verdict, Verifies, Whole, database,
     evidence, local, faults, ServerTypeOK, Located, Working, Grows, Moves
<1>18. ASSUME Enter PROVE Located'
  BY <1>18, ServerTypeOK, Located, Grows, Moves DEF Enter, Whole, database, evidence, local,
     faults, ServerTypeOK, Located, Working, Grows, Moves
<1>19. ASSUME Promote PROVE Located'
  BY <1>19, ServerTypeOK, Located, Grows, Moves DEF Promote, database, evidence, local, faults,
     ServerTypeOK, Located, Working, Grows, Moves
<1>20. ASSUME Load PROVE Located'
  BY <1>20, ServerTypeOK, Located, Grows, Moves DEF Load, evidence, local, faults,
     ServerTypeOK, Located, Working, Grows, Moves
<1>21. ASSUME CloseLoaded PROVE Located'
  BY <1>21, ServerTypeOK, Located, Grows, Moves, Loaded DEF CloseLoaded, Checkpoint, evidence,
     local, faults, ServerTypeOK, Located, Working, Grows, Moves, Loaded
<1>22. ASSUME Seal PROVE Located'
  BY <1>22, ServerTypeOK, Located, Grows, Moves DEF Seal, database, evidence, local, faults,
     ServerTypeOK, Located, Working, Grows, Moves
<1>23. ASSUME WorkerDies PROVE Located'
  BY <1>23, ServerTypeOK, Located, Grows, Moves DEF WorkerDies, evidence, local, ServerTypeOK,
     Located, Working, Grows, Moves
<1>24. ASSUME WriteBack PROVE Located'
  BY <1>24, ServerTypeOK, Located, Grows, Moves DEF WriteBack, database, evidence, local,
     service, faults, ServerTypeOK, Located, Working, Grows, Moves
<1>25. ASSUME PowerFails PROVE Located'
  BY <1>25, ServerTypeOK, Located, Grows, Moves DEF PowerFails, ServerTypeOK, Located, Working,
     Grows, Moves
<1>26. CASE UNCHANGED vars
  BY <1>26, ServerTypeOK, Located, Grows, Moves DEF vars, database, evidence, local, service,
     faults, ServerTypeOK, Located, Working, Grows, Moves
<1>27. QED
  BY <1>1, <1>2, <1>3, <1>4, <1>5, <1>6, <1>7, <1>8, <1>9, <1>10, <1>11, <1>12, <1>13, <1>14,
     <1>15, <1>16, <1>17, <1>18, <1>19, <1>20, <1>21, <1>22, <1>23, <1>24, <1>25, <1>26 DEF
     ServerNext, BootstrapStep, WorkerStep

\* No record names a content that has not been.
LEMMA RecordedKept ==
  ASSUME ServerTypeOK, ServerTypeOK', Located, Recorded, Loaded, Grows, Moves,
     [ServerNext]_vars
  PROVE  Recorded'
<1> USE ServerAssumption
<1>1. ASSUME NEW s \in Shell, Survey(s) PROVE Recorded'
  BY <1>1, ServerTypeOK, ServerTypeOK', Located, Recorded, Moves, OriginalIsContent DEF Survey,
     Reach, Pass, Exit, Eligible, Whole, database, evidence, service, Recorded, Known,
     ServerTypeOK, Moves, Bytes
<1>2. ASSUME NEW s \in Shell, Transferred(s) PROVE Recorded'
  BY <1>2, ServerTypeOK, ServerTypeOK', Located, Recorded, Moves, OriginalIsContent DEF
     Transferred, Pass, Reach, Exit, Whole, database, evidence, service, faults, Recorded,
     Known, ServerTypeOK, Moves, Bytes
<1>3. ASSUME NEW s \in Shell, Choose(s) PROVE Recorded'
  BY <1>3, ServerTypeOK, ServerTypeOK', Located, Recorded, Moves, OriginalIsContent DEF Choose,
     Reach, Exit, database, evidence, service, faults, Recorded, Known, ServerTypeOK, Moves,
     Bytes
<1>4. ASSUME NEW s \in Shell, Check(s) PROVE Recorded'
  BY <1>4, ServerTypeOK, ServerTypeOK', Located, Recorded, Moves, OriginalIsContent DEF Check,
     Reach, Exit, database, service, faults, Recorded, Known, ServerTypeOK, Moves, Bytes
<1>5. ASSUME NEW s \in Shell, Recover(s) PROVE Recorded'
  <2>1. /\ chosen[s] \in Receipt /\ seen[s] \in Bytes
        /\ seen[s].serial \in 1 .. serial
    BY <1>5, ServerTypeOK, Located, Recorded, OriginalIsContent
       DEF Recover, ServerTypeOK, Located, Recorded, Working, Bytes
  <2>2. UNCHANGED <<database, index, validation, contract>>
    BY <1>5 DEF Recover, database, service
  <2>3. \A t \in Shell : seen'[t].serial <= serial
    BY <1>5, ServerTypeOK, Recorded, OriginalIsContent
       DEF Recover, ServerTypeOK, Recorded, Pass, Reach, Exit, Bytes
  <2>4. receipts' = receipts \/ receipts' = [receipts EXCEPT ![chosen[s]] = seen[s]]
    BY <1>5 DEF Recover, Put
  <2>5. \A r \in Receipt : receipts'[r] # None => receipts'[r] \in Bytes
                                  /\ receipts'[r].serial \in 1 .. serial
    BY <2>1, <2>4, ServerTypeOK, Recorded DEF ServerTypeOK, Recorded, Known
  <2>6. QED
    BY <2>2, <2>3, <2>5, Recorded DEF Recorded, Known, database
<1>6. ASSUME NEW s \in Shell, Replace(s) PROVE Recorded'
  BY <1>6, ServerTypeOK, ServerTypeOK', Located, Recorded, Moves, OriginalIsContent DEF
     Replace, Pass, Reach, Exit, evidence, service, faults, Recorded, Known, ServerTypeOK,
     Moves, Bytes
<1>7. ASSUME NEW s \in Shell, Close(s) PROVE Recorded'
  BY <1>7, ServerTypeOK, ServerTypeOK', Located, Recorded, Moves, OriginalIsContent DEF Close,
     Pass, Reach, Checkpoint, evidence, service, faults, Recorded, Known, ServerTypeOK, Moves,
     Bytes
<1>8. ASSUME NEW s \in Shell, WriteReceipt(s) PROVE Recorded'
  <2>1. /\ chosen[s] \in Receipt /\ file \in Bytes
        /\ file.serial \in 1 .. serial
    BY <1>8, ServerTypeOK, Located, Recorded, OriginalIsContent
       DEF WriteReceipt, ServerTypeOK, Located, Recorded, Working, Bytes
  <2>2. UNCHANGED <<database, index, validation, contract>>
    BY <1>8 DEF WriteReceipt, database, service
  <2>3. \A t \in Shell : seen'[t].serial <= serial
    BY <1>8, ServerTypeOK, Recorded, OriginalIsContent
       DEF WriteReceipt, ServerTypeOK, Recorded, Pass, Reach, Exit, Bytes
  <2>4. receipts' = receipts \/ receipts' = [receipts EXCEPT ![chosen[s]] = file]
    BY <1>8 DEF WriteReceipt, Put
  <2>5. \A r \in Receipt : receipts'[r] # None => receipts'[r] \in Bytes
                                  /\ receipts'[r].serial \in 1 .. serial
    BY <2>1, <2>4, ServerTypeOK, Recorded DEF ServerTypeOK, Recorded, Known
  <2>6. QED
    BY <2>2, <2>3, <2>5, Recorded DEF Recorded, Known, database
<1>9. ASSUME NEW s \in Shell, Verify(s) PROVE Recorded'
  BY <1>9, ServerTypeOK, ServerTypeOK', Located, Recorded, Moves, OriginalIsContent DEF Verify,
     Pass, Reach, Exit, Verifies, Whole, database, evidence, service, faults, Recorded, Known,
     ServerTypeOK, Moves, Bytes
<1>10. ASSUME NEW s \in Shell, WriteIndex(s) PROVE Recorded'
  <2>1. UNCHANGED <<database, receipts, validation, contract>>
    BY <1>10 DEF WriteIndex, service
  <2>2. \A t \in Shell : seen'[t].serial <= serial
    BY <1>10, ServerTypeOK, Recorded, OriginalIsContent
       DEF WriteIndex, ServerTypeOK, Recorded, Pass, Reach, Exit, Bytes
  <2>3. index' # None => index'.rebound \in Bytes /\ index'.rebound.serial \in 1 .. serial
    <3>1. CASE Whole(chosen[s]) /\ file = receipts[chosen[s]]
      <4>1. index'.rebound = file
        BY <1>10, <3>1 DEF WriteIndex
      <4>2. chosen[s] \in Receipt /\ receipts[chosen[s]] # None
        BY <1>10, <3>1, Located DEF WriteIndex, Located, Working, Whole
      <4>3. QED
        BY <3>1, <4>1, <4>2, Recorded DEF Recorded, Known
    <3>2. CASE ~(Whole(chosen[s]) /\ file = receipts[chosen[s]])
      BY <1>10, <3>2, Recorded DEF WriteIndex, Recorded, Known
    <3>3. QED
      BY <3>1, <3>2
  <2>4. QED
    BY <2>1, <2>2, <2>3, Recorded DEF Recorded, Known, database
<1>11. ASSUME NEW s \in Shell, Validate(s) PROVE Recorded'
  <2>1. UNCHANGED <<database, receipts, index, contract>>
    BY <1>11 DEF Validate, service
  <2>2. \A t \in Shell : seen'[t].serial <= serial
    BY <1>11, ServerTypeOK, Recorded, OriginalIsContent
       DEF Validate, ServerTypeOK, Recorded, Reach, Exit, Bytes
  <2>3. validation'.rebound \in Bytes /\ validation'.rebound.serial \in 1 .. serial
    <3>1. chosen[s] \in Receipt /\ receipts[chosen[s]] # None
      BY <1>11, Located DEF Validate, Located, Working
    <3>2. validation'.rebound = receipts[chosen[s]]
      BY <1>11 DEF Validate
    <3>3. QED
      BY <3>1, <3>2, Recorded DEF Recorded, Known
  <2>4. QED
    BY <2>1, <2>2, <2>3, Recorded DEF Recorded, Known, database
<1>12. ASSUME NEW s \in Shell, ReplaceFails(s) PROVE Recorded'
  BY <1>12, ServerTypeOK, ServerTypeOK', Located, Recorded, Moves, OriginalIsContent DEF
     ReplaceFails, Exit, Reach, database, evidence, service, Recorded, Known, ServerTypeOK,
     Moves, Bytes
<1>13. ASSUME NEW s \in Shell, ShellDies(s) PROVE Recorded'
  BY <1>13, ServerTypeOK, ServerTypeOK', Located, Recorded, Moves, OriginalIsContent DEF
     ShellDies, Exit, Reach, evidence, service, Recorded, Known, ServerTypeOK, Moves, Bytes
<1>14. ASSUME Upload PROVE Recorded'
  BY <1>14, ServerTypeOK, ServerTypeOK', Located, Recorded, Moves, OriginalIsContent DEF
     Upload, evidence, local, service, faults, Recorded, Known, ServerTypeOK, Moves, Bytes
<1>15. ASSUME OtherLoad PROVE Recorded'
  BY <1>15, ServerTypeOK, ServerTypeOK', Located, Recorded, Moves, OriginalIsContent DEF
     OtherLoad, evidence, local, service, Recorded, Known, ServerTypeOK, Moves, Bytes
<1>16. ASSUME Install PROVE Recorded'
  BY <1>16, ServerTypeOK, ServerTypeOK', Located, Recorded, Moves, OriginalIsContent DEF
     Install, Verifies, Whole, database, evidence, local, faults, Recorded, Known,
     ServerTypeOK, Moves, Bytes
<1>17. ASSUME Launch PROVE Recorded'
  BY <1>17, ServerTypeOK, ServerTypeOK', Located, Recorded, Moves, OriginalIsContent DEF
     Launch, Verdict, Verifies, Whole, database, evidence, local, faults, Recorded, Known,
     ServerTypeOK, Moves, Bytes
<1>18. ASSUME Enter PROVE Recorded'
  BY <1>18, ServerTypeOK, ServerTypeOK', Located, Recorded, Moves, OriginalIsContent DEF Enter,
     Whole, database, evidence, local, faults, Recorded, Known, ServerTypeOK, Moves, Bytes
<1>19. ASSUME Promote PROVE Recorded'
  BY <1>19, ServerTypeOK, ServerTypeOK', Located, Recorded, Moves, OriginalIsContent DEF
     Promote, database, evidence, local, faults, Recorded, Known, ServerTypeOK, Moves, Bytes
<1>20. ASSUME Load PROVE Recorded'
  BY <1>20, ServerTypeOK, ServerTypeOK', Located, Recorded, Moves, OriginalIsContent DEF Load,
     evidence, local, faults, Recorded, Known, ServerTypeOK, Moves, Bytes
<1>21. ASSUME CloseLoaded PROVE Recorded'
  BY <1>21, ServerTypeOK, ServerTypeOK', Located, Recorded, Moves, OriginalIsContent DEF
     CloseLoaded, Checkpoint, evidence, local, faults, Recorded, Known, ServerTypeOK, Moves,
     Bytes
<1>22. ASSUME Seal PROVE Recorded'
  BY <1>22, ServerTypeOK, ServerTypeOK', Located, Recorded, Moves, OriginalIsContent DEF Seal,
     database, evidence, local, faults, Recorded, Known, ServerTypeOK, Moves, Bytes
<1>23. ASSUME WorkerDies PROVE Recorded'
  BY <1>23, ServerTypeOK, ServerTypeOK', Located, Recorded, Moves, OriginalIsContent DEF
     WorkerDies, evidence, local, Recorded, Known, ServerTypeOK, Moves, Bytes
<1>24. ASSUME WriteBack PROVE Recorded'
  BY <1>24, ServerTypeOK, ServerTypeOK', Located, Recorded, Moves, OriginalIsContent DEF
     WriteBack, database, evidence, local, service, faults, Recorded, Known, ServerTypeOK,
     Moves, Bytes
<1>25. ASSUME PowerFails PROVE Recorded'
  BY <1>25, ServerTypeOK, ServerTypeOK', Located, Recorded, Moves, OriginalIsContent DEF
     PowerFails, Recorded, Known, ServerTypeOK, Moves, Bytes
<1>26. CASE UNCHANGED vars
  BY <1>26, ServerTypeOK, ServerTypeOK', Located, Recorded, Moves, OriginalIsContent DEF vars,
     database, evidence, local, service, faults, Recorded, Known, ServerTypeOK, Moves, Bytes
<1>27. QED
  BY <1>1, <1>2, <1>3, <1>4, <1>5, <1>6, <1>7, <1>8, <1>9, <1>10, <1>11, <1>12, <1>13, <1>14,
     <1>15, <1>16, <1>17, <1>18, <1>19, <1>20, <1>21, <1>22, <1>23, <1>24, <1>25, <1>26 DEF
     ServerNext, BootstrapStep, WorkerStep

\* The tables are loaded after the promotion only.
LEMMA LoadedKept ==
  ASSUME ServerTypeOK, ServerTypeOK', Located, Recorded, Loaded, Grows, Moves,
     [ServerNext]_vars
  PROVE  Loaded'
<1> USE ServerAssumption
<1>1. ASSUME NEW s \in Shell, Survey(s) PROVE Loaded'
  BY <1>1, ServerTypeOK, Located, Loaded, Grows, OriginalIsContent DEF Survey, Reach, Pass,
     Exit, Eligible, Whole, database, evidence, service, Loaded, Grows, Located, ServerTypeOK
<1>2. ASSUME NEW s \in Shell, Transferred(s) PROVE Loaded'
  BY <1>2, ServerTypeOK, Located, Loaded, Grows, OriginalIsContent DEF Transferred, Pass,
     Reach, Exit, Whole, database, evidence, service, faults, Loaded, Grows, Located,
     ServerTypeOK
<1>3. ASSUME NEW s \in Shell, Choose(s) PROVE Loaded'
  BY <1>3, ServerTypeOK, Located, Loaded, Grows, OriginalIsContent DEF Choose, Reach, Exit,
     database, evidence, service, faults, Loaded, Grows, Located, ServerTypeOK
<1>4. ASSUME NEW s \in Shell, Check(s) PROVE Loaded'
  BY <1>4, ServerTypeOK, Located, Loaded, Grows, OriginalIsContent DEF Check, Reach, Exit,
     database, service, faults, Loaded, Grows, Located, ServerTypeOK
<1>5. ASSUME NEW s \in Shell, Recover(s) PROVE Loaded'
  BY <1>5, ServerTypeOK, Located, Loaded, Grows, OriginalIsContent DEF Recover, Put, Pass,
     Reach, Exit, database, service, faults, Loaded, Grows, Located, ServerTypeOK
<1>6. ASSUME NEW s \in Shell, Replace(s) PROVE Loaded'
  BY <1>6, ServerTypeOK, Located, Loaded, Grows, OriginalIsContent DEF Replace, Pass, Reach,
     Exit, evidence, service, faults, Loaded, Grows, Located, ServerTypeOK
<1>7. ASSUME NEW s \in Shell, Close(s) PROVE Loaded'
  BY <1>7, ServerTypeOK, Located, Loaded, Grows, OriginalIsContent DEF Close, Pass, Reach,
     Checkpoint, evidence, service, faults, Loaded, Grows, Located, ServerTypeOK
<1>8. ASSUME NEW s \in Shell, WriteReceipt(s) PROVE Loaded'
  BY <1>8, ServerTypeOK, Located, Loaded, Grows, OriginalIsContent DEF WriteReceipt, Put, Pass,
     Reach, Exit, database, service, faults, Loaded, Grows, Located, ServerTypeOK
<1>9. ASSUME NEW s \in Shell, Verify(s) PROVE Loaded'
  BY <1>9, ServerTypeOK, Located, Loaded, Grows, OriginalIsContent DEF Verify, Pass, Reach,
     Exit, Verifies, Whole, database, evidence, service, faults, Loaded, Grows, Located,
     ServerTypeOK
<1>10. ASSUME NEW s \in Shell, WriteIndex(s) PROVE Loaded'
  BY <1>10, ServerTypeOK, Located, Loaded, Grows, OriginalIsContent DEF WriteIndex, Pass,
     Reach, Exit, Whole, database, service, faults, Loaded, Grows, Located, ServerTypeOK
<1>11. ASSUME NEW s \in Shell, Validate(s) PROVE Loaded'
  BY <1>11, ServerTypeOK, Located, Loaded, Grows, OriginalIsContent DEF Validate, Exit, Reach,
     database, service, faults, Loaded, Grows, Located, ServerTypeOK
<1>12. ASSUME NEW s \in Shell, ReplaceFails(s) PROVE Loaded'
  BY <1>12, ServerTypeOK, Located, Loaded, Grows, OriginalIsContent DEF ReplaceFails, Exit,
     Reach, database, evidence, service, Loaded, Grows, Located, ServerTypeOK
<1>13. ASSUME NEW s \in Shell, ShellDies(s) PROVE Loaded'
  BY <1>13, ServerTypeOK, Located, Loaded, Grows, OriginalIsContent DEF ShellDies, Exit, Reach,
     evidence, service, Loaded, Grows, Located, ServerTypeOK
<1>14. ASSUME Upload PROVE Loaded'
  BY <1>14, ServerTypeOK, Located, Loaded, Grows, OriginalIsContent DEF Upload, evidence,
     local, service, faults, Loaded, Grows, Located, ServerTypeOK
<1>15. ASSUME OtherLoad PROVE Loaded'
  BY <1>15, ServerTypeOK, Located, Loaded, Grows, OriginalIsContent DEF OtherLoad, evidence,
     local, service, Loaded, Grows, Located, ServerTypeOK
<1>16. ASSUME Install PROVE Loaded'
  BY <1>16, ServerTypeOK, Located, Loaded, Grows, OriginalIsContent DEF Install, Verifies,
     Whole, database, evidence, local, faults, Loaded, Grows, Located, ServerTypeOK
<1>17. ASSUME Launch PROVE Loaded'
  BY <1>17, ServerTypeOK, Located, Loaded, Grows, OriginalIsContent DEF Launch, Verdict,
     Verifies, Whole, database, evidence, local, faults, Loaded, Grows, Located, ServerTypeOK
<1>18. ASSUME Enter PROVE Loaded'
  BY <1>18, ServerTypeOK, Located, Loaded, Grows, OriginalIsContent DEF Enter, Whole, database,
     evidence, local, faults, Loaded, Grows, Located, ServerTypeOK
<1>19. ASSUME Promote PROVE Loaded'
  BY <1>19, ServerTypeOK, Located, Loaded, Grows, OriginalIsContent DEF Promote, database,
     evidence, local, faults, Loaded, Grows, Located, ServerTypeOK
<1>20. ASSUME Load PROVE Loaded'
  <2>1. canonical /\ canonical' = canonical
    BY <1>20, Loaded DEF Load, Loaded
  <2>2. worker' = "loading" => writer' = "worker" /\ wal' = [Seen EXCEPT !.lexical = TRUE]
    BY <1>20 DEF Load
  <2>3. worker' = "loading" => wal' # None
    BY <2>2, SeenIsCatalog, ServerTypeOK, OriginalIsContent DEF Catalog
  <2>4. QED
    BY <2>1, <2>2, <2>3 DEF Loaded
<1>21. ASSUME CloseLoaded PROVE Loaded'
  BY <1>21, ServerTypeOK, Located, Loaded, Grows, OriginalIsContent DEF CloseLoaded,
     Checkpoint, evidence, local, faults, Loaded, Grows, Located, ServerTypeOK
<1>22. ASSUME Seal PROVE Loaded'
  BY <1>22, ServerTypeOK, Located, Loaded, Grows, OriginalIsContent DEF Seal, database,
     evidence, local, faults, Loaded, Grows, Located, ServerTypeOK
<1>23. ASSUME WorkerDies PROVE Loaded'
  BY <1>23, ServerTypeOK, Located, Loaded, Grows, OriginalIsContent DEF WorkerDies, evidence,
     local, Loaded, Grows, Located, ServerTypeOK
<1>24. ASSUME WriteBack PROVE Loaded'
  BY <1>24, ServerTypeOK, Located, Loaded, Grows, OriginalIsContent DEF WriteBack, database,
     evidence, local, service, faults, Loaded, Grows, Located, ServerTypeOK
<1>25. ASSUME PowerFails PROVE Loaded'
  BY <1>25, ServerTypeOK, Located, Loaded, Grows, OriginalIsContent DEF PowerFails, Loaded,
     Grows, Located, ServerTypeOK
<1>26. CASE UNCHANGED vars
  BY <1>26, ServerTypeOK, Located, Loaded, Grows, OriginalIsContent DEF vars, database,
     evidence, local, service, faults, Loaded, Grows, Located, ServerTypeOK
<1>27. QED
  BY <1>1, <1>2, <1>3, <1>4, <1>5, <1>6, <1>7, <1>8, <1>9, <1>10, <1>11, <1>12, <1>13, <1>14,
     <1>15, <1>16, <1>17, <1>18, <1>19, <1>20, <1>21, <1>22, <1>23, <1>24, <1>25, <1>26 DEF
     ServerNext, BootstrapStep, WorkerStep

LEMMA SeenStill == UNCHANGED <<file, wal>> => Seen' = Seen
BY DEF Seen

\* What a record names is rebound, or is in the file no more.
LEMMA HashIsEnoughKept ==
  ASSUME ServerTypeOK, ServerTypeOK', Located, Recorded, Loaded, Grows, Moves, Recorded',
     HashIsEnough, [ServerNext]_vars
  PROVE  HashIsEnough'
<1> USE ServerAssumption
<1>1. ASSUME NEW s \in Shell, Survey(s) PROVE HashIsEnough'
  BY <1>1, ServerTypeOK, Located, Recorded, Recorded', Grows, Moves, HashIsEnough, SeenStill,
     OriginalIsContent DEF Survey, Reach, Pass, Exit, Eligible, Whole, database, evidence,
     service, HashIsEnough, Recorded, Known, Grows, Moves, Located
<1>2. ASSUME NEW s \in Shell, Transferred(s) PROVE HashIsEnough'
  BY <1>2, ServerTypeOK, Located, Recorded, Recorded', Grows, Moves, HashIsEnough, SeenStill,
     OriginalIsContent DEF Transferred, Pass, Reach, Exit, Whole, database, evidence, service,
     faults, HashIsEnough, Recorded, Known, Grows, Moves, Located
<1>3. ASSUME NEW s \in Shell, Choose(s) PROVE HashIsEnough'
  BY <1>3, ServerTypeOK, Located, Recorded, Recorded', Grows, Moves, HashIsEnough, SeenStill,
     OriginalIsContent DEF Choose, Reach, Exit, database, evidence, service, faults,
     HashIsEnough, Recorded, Known, Grows, Moves, Located
<1>4. ASSUME NEW s \in Shell, Check(s) PROVE HashIsEnough'
  BY <1>4, ServerTypeOK, Located, Recorded, Recorded', Grows, Moves, HashIsEnough, SeenStill,
     OriginalIsContent DEF Check, Reach, Exit, database, service, faults, HashIsEnough,
     Recorded, Known, Grows, Moves, Located
<1>5. ASSUME NEW s \in Shell, Recover(s) PROVE HashIsEnough'
  BY <1>5, ServerTypeOK, Located, Recorded, Recorded', Grows, Moves, HashIsEnough, SeenStill,
     OriginalIsContent DEF Recover, Put, Pass, Reach, Exit, database, service, faults,
     HashIsEnough, Recorded, Known, Grows, Moves, Located
<1>6. ASSUME NEW s \in Shell, Replace(s) PROVE HashIsEnough'
  BY <1>6, ServerTypeOK, Located, Recorded, Recorded', Grows, Moves, HashIsEnough, SeenStill,
     OriginalIsContent DEF Replace, Pass, Reach, Exit, evidence, service, faults, HashIsEnough,
     Recorded, Known, Grows, Moves, Located
<1>7. ASSUME NEW s \in Shell, Close(s) PROVE HashIsEnough'
  <2>1. UNCHANGED <<receipts, index, validation, contract>> /\ file'.serial = serial + 1
    BY <1>7 DEF Close, Checkpoint, evidence, service
  <2>2. /\ \A r \in Receipt : receipts[r] # None => receipts[r] # file'
        /\ \A record \in {index, validation, contract} : record # None => record.rebound # file'
    BY <2>1, ServerTypeOK, Recorded DEF Recorded, Known, ServerTypeOK
  <2>3. QED
    BY <2>1, <2>2 DEF HashIsEnough
<1>8. ASSUME NEW s \in Shell, WriteReceipt(s) PROVE HashIsEnough'
  BY <1>8, ServerTypeOK, Located, Recorded, Recorded', Grows, Moves, HashIsEnough, SeenStill,
     OriginalIsContent DEF WriteReceipt, Put, Pass, Reach, Exit, database, service, faults,
     HashIsEnough, Recorded, Known, Grows, Moves, Located
<1>9. ASSUME NEW s \in Shell, Verify(s) PROVE HashIsEnough'
  BY <1>9, ServerTypeOK, Located, Recorded, Recorded', Grows, Moves, HashIsEnough, SeenStill,
     OriginalIsContent DEF Verify, Pass, Reach, Exit, Verifies, Whole, database, evidence,
     service, faults, HashIsEnough, Recorded, Known, Grows, Moves, Located
<1>10. ASSUME NEW s \in Shell, WriteIndex(s) PROVE HashIsEnough'
  <2>1. UNCHANGED <<file, wal, receipts, validation, contract>>
    BY <1>10 DEF WriteIndex, database, service
  <2>2. index' # None /\ file = index'.rebound => Seen.views = "rebound"
    <3>1. CASE Whole(chosen[s]) /\ file = receipts[chosen[s]]
      BY <1>10, <3>1, Located, HashIsEnough DEF WriteIndex, Located, Working, HashIsEnough, Whole
    <3>2. CASE ~(Whole(chosen[s]) /\ file = receipts[chosen[s]])
      BY <1>10, <3>2, HashIsEnough DEF WriteIndex, HashIsEnough
    <3>3. QED
      BY <3>1, <3>2
  <2>3. QED
    BY <2>1, <2>2, SeenStill, HashIsEnough DEF HashIsEnough
<1>11. ASSUME NEW s \in Shell, Validate(s) PROVE HashIsEnough'
  <2>1. UNCHANGED <<file, wal, receipts, index, contract>>
    BY <1>11 DEF Validate, database, service
  <2>2. validation'.rebound = receipts[chosen[s]] /\ chosen[s] \in Receipt
    BY <1>11, Located DEF Validate, Located, Working
  <2>3. receipts[chosen[s]] # None
    BY <1>11, Located DEF Validate, Located
  <2>4. QED
    BY <2>1, <2>2, <2>3, SeenStill, HashIsEnough DEF HashIsEnough
<1>12. ASSUME NEW s \in Shell, ReplaceFails(s) PROVE HashIsEnough'
  BY <1>12, ServerTypeOK, Located, Recorded, Recorded', Grows, Moves, HashIsEnough, SeenStill,
     OriginalIsContent DEF ReplaceFails, Exit, Reach, database, evidence, service,
     HashIsEnough, Recorded, Known, Grows, Moves, Located
<1>13. ASSUME NEW s \in Shell, ShellDies(s) PROVE HashIsEnough'
  BY <1>13, ServerTypeOK, Located, Recorded, Recorded', Grows, Moves, HashIsEnough, SeenStill,
     OriginalIsContent DEF ShellDies, Exit, Reach, evidence, service, HashIsEnough, Recorded,
     Known, Grows, Moves, Located
<1>14. ASSUME Upload PROVE HashIsEnough'
  BY <1>14, ServerTypeOK, Located, Recorded, Recorded', Grows, Moves, HashIsEnough, SeenStill,
     OriginalIsContent DEF Upload, evidence, local, service, faults, HashIsEnough, Recorded,
     Known, Grows, Moves, Located
<1>15. ASSUME OtherLoad PROVE HashIsEnough'
  <2>1. UNCHANGED <<receipts, index, validation, contract>> /\ file'.serial = serial + 1
    BY <1>15 DEF OtherLoad, evidence, service
  <2>2. /\ \A r \in Receipt : receipts[r] # None => receipts[r] # file'
        /\ \A record \in {index, validation, contract} : record # None => record.rebound # file'
    BY <2>1, ServerTypeOK, Recorded DEF Recorded, Known, ServerTypeOK
  <2>3. QED
    BY <2>1, <2>2 DEF HashIsEnough
<1>16. ASSUME Install PROVE HashIsEnough'
  BY <1>16, ServerTypeOK, Located, Recorded, Recorded', Grows, Moves, HashIsEnough, SeenStill,
     OriginalIsContent DEF Install, Verifies, Whole, database, evidence, local, faults,
     HashIsEnough, Recorded, Known, Grows, Moves, Located
<1>17. ASSUME Launch PROVE HashIsEnough'
  BY <1>17, ServerTypeOK, Located, Recorded, Recorded', Grows, Moves, HashIsEnough, SeenStill,
     OriginalIsContent DEF Launch, Verdict, Verifies, Whole, database, evidence, local, faults,
     HashIsEnough, Recorded, Known, Grows, Moves, Located
<1>18. ASSUME Enter PROVE HashIsEnough'
  BY <1>18, ServerTypeOK, Located, Recorded, Recorded', Grows, Moves, HashIsEnough, SeenStill,
     OriginalIsContent DEF Enter, Whole, database, evidence, local, faults, HashIsEnough,
     Recorded, Known, Grows, Moves, Located
<1>19. ASSUME Promote PROVE HashIsEnough'
  BY <1>19, ServerTypeOK, Located, Recorded, Recorded', Grows, Moves, HashIsEnough, SeenStill,
     OriginalIsContent DEF Promote, database, evidence, local, faults, HashIsEnough, Recorded,
     Known, Grows, Moves, Located
<1>20. ASSUME Load PROVE HashIsEnough'
  BY <1>20, ServerTypeOK, Located, Recorded, Recorded', Grows, Moves, HashIsEnough, SeenStill,
     OriginalIsContent DEF Load, evidence, local, faults, HashIsEnough, Recorded, Known, Grows,
     Moves, Located
<1>21. ASSUME CloseLoaded PROVE HashIsEnough'
  <2>1. UNCHANGED <<receipts, index, validation, contract>> /\ file'.serial = serial + 1
    BY <1>21 DEF CloseLoaded, Checkpoint, evidence, service
  <2>2. /\ \A r \in Receipt : receipts[r] # None => receipts[r] # file'
        /\ \A record \in {index, validation, contract} : record # None => record.rebound # file'
    BY <2>1, ServerTypeOK, Recorded DEF Recorded, Known, ServerTypeOK
  <2>3. QED
    BY <2>1, <2>2 DEF HashIsEnough
<1>22. ASSUME Seal PROVE HashIsEnough'
  BY <1>22, ServerTypeOK, Located, Recorded, Recorded', Grows, Moves, HashIsEnough, SeenStill,
     OriginalIsContent DEF Seal, database, evidence, local, faults, HashIsEnough, Recorded,
     Known, Grows, Moves, Located
<1>23. ASSUME WorkerDies PROVE HashIsEnough'
  BY <1>23, ServerTypeOK, Located, Recorded, Recorded', Grows, Moves, HashIsEnough, SeenStill,
     OriginalIsContent DEF WorkerDies, evidence, local, HashIsEnough, Recorded, Known, Grows,
     Moves, Located
<1>24. ASSUME WriteBack PROVE HashIsEnough'
  BY <1>24, ServerTypeOK, Located, Recorded, Recorded', Grows, Moves, HashIsEnough, SeenStill,
     OriginalIsContent DEF WriteBack, database, evidence, local, service, faults, HashIsEnough,
     Recorded, Known, Grows, Moves, Located
<1>25. ASSUME PowerFails PROVE HashIsEnough'
  BY <1>25, ServerTypeOK, Located, Recorded, Recorded', Grows, Moves, HashIsEnough, SeenStill,
     OriginalIsContent DEF PowerFails, HashIsEnough, Recorded, Known, Grows, Moves, Located
<1>26. CASE UNCHANGED vars
  BY <1>26, ServerTypeOK, Located, Recorded, Recorded', Grows, Moves, HashIsEnough, SeenStill,
     OriginalIsContent DEF vars, database, evidence, local, service, faults, HashIsEnough,
     Recorded, Known, Grows, Moves, Located
<1>27. QED
  BY <1>1, <1>2, <1>3, <1>4, <1>5, <1>6, <1>7, <1>8, <1>9, <1>10, <1>11, <1>12, <1>13, <1>14,
     <1>15, <1>16, <1>17, <1>18, <1>19, <1>20, <1>21, <1>22, <1>23, <1>24, <1>25, <1>26 DEF
     ServerNext, BootstrapStep, WorkerStep

\* A worker starts on what the launch has seen.
LEMMA WorkerFindsKept ==
  ASSUME ServerTypeOK, ServerTypeOK', Located, Recorded, Loaded, Grows, Moves,
     WorkerFindsItsDatabase, [ServerNext]_vars
  PROVE  WorkerFindsItsDatabase'
<1> USE ServerAssumption
<1>1. ASSUME NEW s \in Shell, Survey(s) PROVE WorkerFindsItsDatabase'
  BY <1>1, ServerTypeOK, Loaded, Grows, WorkerFindsItsDatabase, SeenStill DEF Survey, Reach,
     Pass, Exit, Eligible, Whole, database, evidence, service, WorkerFindsItsDatabase, Loaded,
     Grows, Moves, Located, ServerTypeOK, Catalog
<1>2. ASSUME NEW s \in Shell, Transferred(s) PROVE WorkerFindsItsDatabase'
  BY <1>2, ServerTypeOK, Loaded, Grows, WorkerFindsItsDatabase, SeenStill DEF Transferred,
     Pass, Reach, Exit, Whole, database, evidence, service, faults, WorkerFindsItsDatabase,
     Loaded, Grows, Moves, Located, ServerTypeOK, Catalog
<1>3. ASSUME NEW s \in Shell, Choose(s) PROVE WorkerFindsItsDatabase'
  BY <1>3, ServerTypeOK, Loaded, Grows, WorkerFindsItsDatabase, SeenStill DEF Choose, Reach,
     Exit, database, evidence, service, faults, WorkerFindsItsDatabase, Loaded, Grows, Moves,
     Located, ServerTypeOK, Catalog
<1>4. ASSUME NEW s \in Shell, Check(s) PROVE WorkerFindsItsDatabase'
  BY <1>4, ServerTypeOK, Loaded, Grows, WorkerFindsItsDatabase, SeenStill DEF Check, Reach,
     Exit, database, service, faults, WorkerFindsItsDatabase, Loaded, Grows, Moves, Located,
     ServerTypeOK, Catalog
<1>5. ASSUME NEW s \in Shell, Recover(s) PROVE WorkerFindsItsDatabase'
  BY <1>5, ServerTypeOK, Loaded, Grows, WorkerFindsItsDatabase, SeenStill DEF Recover, Put,
     Pass, Reach, Exit, database, service, faults, WorkerFindsItsDatabase, Loaded, Grows,
     Moves, Located, ServerTypeOK, Catalog
<1>6. ASSUME NEW s \in Shell, Replace(s) PROVE WorkerFindsItsDatabase'
  BY <1>6, ServerTypeOK, Loaded, Grows, WorkerFindsItsDatabase, SeenStill DEF Replace, Pass,
     Reach, Exit, evidence, service, faults, WorkerFindsItsDatabase, Loaded, Grows, Moves,
     Located, ServerTypeOK, Catalog
<1>7. ASSUME NEW s \in Shell, Close(s) PROVE WorkerFindsItsDatabase'
  BY <1>7, ServerTypeOK, Loaded, Grows, WorkerFindsItsDatabase, SeenStill DEF Close, Pass,
     Reach, Checkpoint, evidence, service, faults, WorkerFindsItsDatabase, Loaded, Grows,
     Moves, Located, ServerTypeOK, Catalog
<1>8. ASSUME NEW s \in Shell, WriteReceipt(s) PROVE WorkerFindsItsDatabase'
  BY <1>8, ServerTypeOK, Loaded, Grows, WorkerFindsItsDatabase, SeenStill DEF WriteReceipt,
     Put, Pass, Reach, Exit, database, service, faults, WorkerFindsItsDatabase, Loaded, Grows,
     Moves, Located, ServerTypeOK, Catalog
<1>9. ASSUME NEW s \in Shell, Verify(s) PROVE WorkerFindsItsDatabase'
  BY <1>9, ServerTypeOK, Loaded, Grows, WorkerFindsItsDatabase, SeenStill DEF Verify, Pass,
     Reach, Exit, Verifies, Whole, database, evidence, service, faults, WorkerFindsItsDatabase,
     Loaded, Grows, Moves, Located, ServerTypeOK, Catalog
<1>10. ASSUME NEW s \in Shell, WriteIndex(s) PROVE WorkerFindsItsDatabase'
  BY <1>10, ServerTypeOK, Loaded, Grows, WorkerFindsItsDatabase, SeenStill DEF WriteIndex,
     Pass, Reach, Exit, Whole, database, service, faults, WorkerFindsItsDatabase, Loaded,
     Grows, Moves, Located, ServerTypeOK, Catalog
<1>11. ASSUME NEW s \in Shell, Validate(s) PROVE WorkerFindsItsDatabase'
  BY <1>11, ServerTypeOK, Loaded, Grows, WorkerFindsItsDatabase, SeenStill DEF Validate, Exit,
     Reach, database, service, faults, WorkerFindsItsDatabase, Loaded, Grows, Moves, Located,
     ServerTypeOK, Catalog
<1>12. ASSUME NEW s \in Shell, ReplaceFails(s) PROVE WorkerFindsItsDatabase'
  BY <1>12, ServerTypeOK, Loaded, Grows, WorkerFindsItsDatabase, SeenStill DEF ReplaceFails,
     Exit, Reach, database, evidence, service, WorkerFindsItsDatabase, Loaded, Grows, Moves,
     Located, ServerTypeOK, Catalog
<1>13. ASSUME NEW s \in Shell, ShellDies(s) PROVE WorkerFindsItsDatabase'
  BY <1>13, ServerTypeOK, Loaded, Grows, WorkerFindsItsDatabase, SeenStill DEF ShellDies, Exit,
     Reach, evidence, service, WorkerFindsItsDatabase, Loaded, Grows, Moves, Located,
     ServerTypeOK, Catalog
<1>14. ASSUME Upload PROVE WorkerFindsItsDatabase'
  BY <1>14, ServerTypeOK, Loaded, Grows, WorkerFindsItsDatabase, SeenStill DEF Upload,
     evidence, local, service, faults, WorkerFindsItsDatabase, Loaded, Grows, Moves, Located,
     ServerTypeOK, Catalog
<1>15. ASSUME OtherLoad PROVE WorkerFindsItsDatabase'
  BY <1>15, ServerTypeOK, Loaded, Grows, WorkerFindsItsDatabase, SeenStill DEF OtherLoad,
     evidence, local, service, WorkerFindsItsDatabase, Loaded, Grows, Moves, Located,
     ServerTypeOK, Catalog
<1>16. ASSUME Install PROVE WorkerFindsItsDatabase'
  BY <1>16, ServerTypeOK, Loaded, Grows, WorkerFindsItsDatabase, SeenStill DEF Install,
     Verifies, Whole, database, evidence, local, faults, WorkerFindsItsDatabase, Loaded, Grows,
     Moves, Located, ServerTypeOK, Catalog
<1>17. ASSUME Launch PROVE WorkerFindsItsDatabase'
  BY <1>17, ServerTypeOK, Loaded, Grows, WorkerFindsItsDatabase, SeenStill DEF Launch, Verdict,
     Verifies, Whole, database, evidence, local, faults, WorkerFindsItsDatabase, Loaded, Grows,
     Moves, Located, ServerTypeOK, Catalog
<1>18. ASSUME Enter PROVE WorkerFindsItsDatabase'
  BY <1>18, ServerTypeOK, Loaded, Grows, WorkerFindsItsDatabase, SeenStill DEF Enter, Whole,
     database, evidence, local, faults, WorkerFindsItsDatabase, Loaded, Grows, Moves, Located,
     ServerTypeOK, Catalog
<1>19. ASSUME Promote PROVE WorkerFindsItsDatabase'
  BY <1>19, ServerTypeOK, Loaded, Grows, WorkerFindsItsDatabase, SeenStill DEF Promote,
     database, evidence, local, faults, WorkerFindsItsDatabase, Loaded, Grows, Moves, Located,
     ServerTypeOK, Catalog
<1>20. ASSUME Load PROVE WorkerFindsItsDatabase'
  BY <1>20, ServerTypeOK, Loaded, Grows, WorkerFindsItsDatabase, SeenStill DEF Load, evidence,
     local, faults, WorkerFindsItsDatabase, Loaded, Grows, Moves, Located, ServerTypeOK,
     Catalog
<1>21. ASSUME CloseLoaded PROVE WorkerFindsItsDatabase'
  BY <1>21, ServerTypeOK, Loaded, Grows, WorkerFindsItsDatabase, SeenStill DEF CloseLoaded,
     Checkpoint, evidence, local, faults, WorkerFindsItsDatabase, Loaded, Grows, Moves,
     Located, ServerTypeOK, Catalog
<1>22. ASSUME Seal PROVE WorkerFindsItsDatabase'
  BY <1>22, ServerTypeOK, Loaded, Grows, WorkerFindsItsDatabase, SeenStill DEF Seal, database,
     evidence, local, faults, WorkerFindsItsDatabase, Loaded, Grows, Moves, Located,
     ServerTypeOK, Catalog
<1>23. ASSUME WorkerDies PROVE WorkerFindsItsDatabase'
  BY <1>23, ServerTypeOK, Loaded, Grows, WorkerFindsItsDatabase, SeenStill DEF WorkerDies,
     evidence, local, WorkerFindsItsDatabase, Loaded, Grows, Moves, Located, ServerTypeOK,
     Catalog
<1>24. ASSUME WriteBack PROVE WorkerFindsItsDatabase'
  BY <1>24, ServerTypeOK, Loaded, Grows, WorkerFindsItsDatabase, SeenStill DEF WriteBack,
     database, evidence, local, service, faults, WorkerFindsItsDatabase, Loaded, Grows, Moves,
     Located, ServerTypeOK, Catalog
<1>25. ASSUME PowerFails PROVE WorkerFindsItsDatabase'
  BY <1>25, ServerTypeOK, Loaded, Grows, WorkerFindsItsDatabase, SeenStill DEF PowerFails,
     WorkerFindsItsDatabase, Loaded, Grows, Moves, Located, ServerTypeOK, Catalog
<1>26. CASE UNCHANGED vars
  BY <1>26, ServerTypeOK, Loaded, Grows, WorkerFindsItsDatabase, SeenStill DEF vars, database,
     evidence, local, service, faults, WorkerFindsItsDatabase, Loaded, Grows, Moves, Located,
     ServerTypeOK, Catalog
<1>27. QED
  BY <1>1, <1>2, <1>3, <1>4, <1>5, <1>6, <1>7, <1>8, <1>9, <1>10, <1>11, <1>12, <1>13, <1>14,
     <1>15, <1>16, <1>17, <1>18, <1>19, <1>20, <1>21, <1>22, <1>23, <1>24, <1>25, <1>26 DEF
     ServerNext, BootstrapStep, WorkerStep

LEMMA ServerStepKeeps == ServerInv /\ [ServerNext]_vars => ServerInv'
<1> SUFFICES ASSUME ServerInv, [ServerNext]_vars PROVE ServerInv'
  OBVIOUS
<1>1. /\ ServerTypeOK /\ Located /\ Recorded /\ Loaded
      /\ HashIsEnough /\ WorkerFindsItsDatabase
  BY DEF ServerInv
<1>2. ServerTypeOK' /\ Grows /\ Moves
  BY <1>1, ServerTypeOKKept, SeenGrows, FileMoves
<1>3. Located' /\ Recorded' /\ Loaded'
  BY <1>1, <1>2, LocatedKept, RecordedKept, LoadedKept
<1>4. HashIsEnough' /\ WorkerFindsItsDatabase'
  BY <1>1, <1>2, <1>3, HashIsEnoughKept, WorkerFindsKept
<1>5. QED
  BY <1>2, <1>3, <1>4 DEF ServerInv

LEMMA ServerInvariant == ServerSpec => []ServerInv
<1>1. ServerInit => ServerInv
  BY ServerInitEstablishes
<1>2. ServerInv /\ [ServerNext]_vars => ServerInv'
  BY ServerStepKeeps
<1>3. QED
  BY <1>1, <1>2, PTL DEF ServerSpec

-----------------------------------------------------------------------------
\* The variables keep their types, for any bootstraps, receipts and bounds.
THEOREM ServerTypes == ServerSpec => []ServerTypeOK
<1>1. ServerInv => ServerTypeOK
  BY DEF ServerInv
<1>2. QED
  BY <1>1, ServerInvariant, PTL

\* A database with a recorded hash has rebound views, whatever bootstraps
\* overlap, whoever else writes, and wherever anything dies.
THEOREM ServerHashIsEnough == ServerSpec => []HashIsEnough
<1>1. ServerInv => HashIsEnough
  BY DEF ServerInv
<1>2. QED
  BY <1>1, ServerInvariant, PTL

\* A worker starts, and begins, on rebound views and without the tables of a
\* dead one, although the hash does not tell of a log that is left over.
THEOREM ServerWorkerFinds == ServerSpec => []WorkerFindsItsDatabase
<1>1. ServerInv => WorkerFindsItsDatabase
  BY DEF ServerInv
<1>2. QED
  BY <1>1, ServerInvariant, PTL

-----------------------------------------------------------------------------
\* Until the power fails an intent, once written, stays.
Intended ==
  /\ outages \in Nat
  /\ outages = 0 =>
       /\ \A s \in Shell :
            pc[s] \in {"recover", "replace", "close", "receipt"} => chosen[s] \in intents
       /\ file.catalog.views = "rebound" => intents # {}
       /\ wal # None => (wal.views = "rebound" => intents # {})

\* The views are rebound only after the intent.
LEMMA IntendedKept ==
  ASSUME ServerTypeOK, ServerTypeOK', Located, Recorded, Loaded, Grows, Moves, Intended,
     [ServerNext]_vars
  PROVE  Intended'
<1> USE ServerAssumption
<1>1. ASSUME NEW s \in Shell, Survey(s) PROVE Intended'
  BY <1>1, ServerTypeOK, Located, Loaded, Intended, OriginalIsContent DEF Survey, Reach, Pass,
     Exit, Eligible, Whole, database, evidence, service, Intended, ServerTypeOK, Located
<1>2. ASSUME NEW s \in Shell, Transferred(s) PROVE Intended'
  BY <1>2, ServerTypeOK, Located, Loaded, Intended, OriginalIsContent DEF Transferred, Pass,
     Reach, Exit, Whole, database, evidence, service, faults, Intended, ServerTypeOK, Located
<1>3. ASSUME NEW s \in Shell, Choose(s) PROVE Intended'
  BY <1>3, ServerTypeOK, Located, Loaded, Intended, OriginalIsContent DEF Choose, Reach, Exit,
     database, evidence, service, faults, Intended, ServerTypeOK, Located
<1>4. ASSUME NEW s \in Shell, Check(s) PROVE Intended'
  BY <1>4, ServerTypeOK, Located, Loaded, Intended, OriginalIsContent DEF Check, Reach, Exit,
     database, service, faults, Intended, ServerTypeOK, Located
<1>5. ASSUME NEW s \in Shell, Recover(s) PROVE Intended'
  BY <1>5, ServerTypeOK, Located, Loaded, Intended, OriginalIsContent DEF Recover, Put, Pass,
     Reach, Exit, database, service, faults, Intended, ServerTypeOK, Located
<1>6. ASSUME NEW s \in Shell, Replace(s) PROVE Intended'
  BY <1>6, ServerTypeOK, Located, Loaded, Intended, OriginalIsContent DEF Replace, Pass, Reach,
     Exit, evidence, service, faults, Intended, ServerTypeOK, Located, Seen, Bytes, Catalog
<1>7. ASSUME NEW s \in Shell, Close(s) PROVE Intended'
  BY <1>7, ServerTypeOK, Located, Loaded, Intended, OriginalIsContent DEF Close, Pass, Reach,
     Checkpoint, evidence, service, faults, Intended, ServerTypeOK, Located
<1>8. ASSUME NEW s \in Shell, WriteReceipt(s) PROVE Intended'
  BY <1>8, ServerTypeOK, Located, Loaded, Intended, OriginalIsContent DEF WriteReceipt, Put,
     Pass, Reach, Exit, database, service, faults, Intended, ServerTypeOK, Located
<1>9. ASSUME NEW s \in Shell, Verify(s) PROVE Intended'
  BY <1>9, ServerTypeOK, Located, Loaded, Intended, OriginalIsContent DEF Verify, Pass, Reach,
     Exit, Verifies, Whole, database, evidence, service, faults, Intended, ServerTypeOK,
     Located
<1>10. ASSUME NEW s \in Shell, WriteIndex(s) PROVE Intended'
  BY <1>10, ServerTypeOK, Located, Loaded, Intended, OriginalIsContent DEF WriteIndex, Pass,
     Reach, Exit, Whole, database, service, faults, Intended, ServerTypeOK, Located
<1>11. ASSUME NEW s \in Shell, Validate(s) PROVE Intended'
  BY <1>11, ServerTypeOK, Located, Loaded, Intended, OriginalIsContent DEF Validate, Exit,
     Reach, database, service, faults, Intended, ServerTypeOK, Located
<1>12. ASSUME NEW s \in Shell, ReplaceFails(s) PROVE Intended'
  BY <1>12, ServerTypeOK, Located, Loaded, Intended, OriginalIsContent DEF ReplaceFails, Exit,
     Reach, database, evidence, service, Intended, ServerTypeOK, Located
<1>13. ASSUME NEW s \in Shell, ShellDies(s) PROVE Intended'
  BY <1>13, ServerTypeOK, Located, Loaded, Intended, OriginalIsContent DEF ShellDies, Exit,
     Reach, evidence, service, Intended, ServerTypeOK, Located
<1>14. ASSUME Upload PROVE Intended'
  BY <1>14, ServerTypeOK, Located, Loaded, Intended, OriginalIsContent DEF Upload, evidence,
     local, service, faults, Intended, ServerTypeOK, Located, TransferDatabase
<1>15. ASSUME OtherLoad PROVE Intended'
  BY <1>15, ServerTypeOK, Located, Loaded, Intended, OriginalIsContent DEF OtherLoad, evidence,
     local, service, Intended, ServerTypeOK, Located, Seen
<1>16. ASSUME Install PROVE Intended'
  BY <1>16, ServerTypeOK, Located, Loaded, Intended, OriginalIsContent DEF Install, Verifies,
     Whole, database, evidence, local, faults, Intended, ServerTypeOK, Located
<1>17. ASSUME Launch PROVE Intended'
  BY <1>17, ServerTypeOK, Located, Loaded, Intended, OriginalIsContent DEF Launch, Verdict,
     Verifies, Whole, database, evidence, local, faults, Intended, ServerTypeOK, Located
<1>18. ASSUME Enter PROVE Intended'
  BY <1>18, ServerTypeOK, Located, Loaded, Intended, OriginalIsContent DEF Enter, Whole,
     database, evidence, local, faults, Intended, ServerTypeOK, Located
<1>19. ASSUME Promote PROVE Intended'
  BY <1>19, ServerTypeOK, Located, Loaded, Intended, OriginalIsContent DEF Promote, database,
     evidence, local, faults, Intended, ServerTypeOK, Located
<1>20. ASSUME Load PROVE Intended'
  BY <1>20, ServerTypeOK, Located, Loaded, Intended, OriginalIsContent DEF Load, evidence,
     local, faults, Intended, ServerTypeOK, Located, Seen, Bytes, Catalog
<1>21. ASSUME CloseLoaded PROVE Intended'
  BY <1>21, ServerTypeOK, Located, Loaded, Intended, OriginalIsContent DEF CloseLoaded,
     Checkpoint, evidence, local, faults, Intended, ServerTypeOK, Located, Loaded
<1>22. ASSUME Seal PROVE Intended'
  BY <1>22, ServerTypeOK, Located, Loaded, Intended, OriginalIsContent DEF Seal, database,
     evidence, local, faults, Intended, ServerTypeOK, Located
<1>23. ASSUME WorkerDies PROVE Intended'
  BY <1>23, ServerTypeOK, Located, Loaded, Intended, OriginalIsContent DEF WorkerDies,
     evidence, local, Intended, ServerTypeOK, Located
<1>24. ASSUME WriteBack PROVE Intended'
  BY <1>24, ServerTypeOK, Located, Loaded, Intended, OriginalIsContent DEF WriteBack, database,
     evidence, local, service, faults, Intended, ServerTypeOK, Located
<1>25. ASSUME PowerFails PROVE Intended'
  BY <1>25, ServerTypeOK, Located, Loaded, Intended, OriginalIsContent DEF PowerFails,
     Intended, ServerTypeOK, Located
<1>26. CASE UNCHANGED vars
  BY <1>26, ServerTypeOK, Located, Loaded, Intended, OriginalIsContent DEF vars, database,
     evidence, local, service, faults, Intended, ServerTypeOK, Located
<1>27. QED
  BY <1>1, <1>2, <1>3, <1>4, <1>5, <1>6, <1>7, <1>8, <1>9, <1>10, <1>11, <1>12, <1>13, <1>14,
     <1>15, <1>16, <1>17, <1>18, <1>19, <1>20, <1>21, <1>22, <1>23, <1>24, <1>25, <1>26 DEF
     ServerNext, BootstrapStep, WorkerStep

\* Unless one was begun while another was at work, one bootstrap is at work.
InTurn ==
  ~concurrent => \A s, t \in Shell : pc[s] # "idle" /\ pc[t] # "idle" => s = t

\* Bootstraps one after the other and no other command: there is one receipt,
\* and the file is what it says until the worker loads its tables.
OneReceipt ==
  /\ intents \subseteq {Plain} /\ \A r \in Receipt : receipts[r] # None => r = Plain
  /\ \A s \in Shell : chosen[s] \in {None, Plain}
  /\ \A record \in {index, validation, contract} :
       record # None => receipts[Plain] # None /\ record.rebound = receipts[Plain]
  /\ receipts[Plain] # None =>
       /\ Plain \in intents /\ file # TransferDatabase
       /\ Seen.lexical \/ file = receipts[Plain]
  /\ \A s \in Shell :
       /\ pc[s] \in {"replace", "close"} => file = TransferDatabase
       /\ pc[s] = "recover" => receipts[Plain] # None \/ file = seen[s]
  /\ worker # "stopped" => contract # None
  /\ worker = "loading" => Seen.lexical

Once == loads \in Nat /\ outages \in Nat /\ (Alone => OneReceipt)
AloneSoFar == loads' \in Nat /\ outages' \in Nat /\ (Alone' => Alone)

\* A second bootstrap at work is noticed when it begins.
LEMMA InTurnKept ==
  ASSUME ServerTypeOK, InTurn, [ServerNext]_vars
  PROVE  InTurn'
<1> USE ServerAssumption
<1>1. ASSUME NEW s \in Shell, Survey(s) PROVE InTurn'
  <2>1. concurrent' = (concurrent \/ \E t \in Shell : pc[t] # "idle")
    BY <1>1 DEF Survey
  <2>2. \A t \in Shell : t # s => pc'[t] = pc[t]
    BY <1>1, ServerTypeOK DEF Survey, Reach, ServerTypeOK
  <2>3. QED
    BY <2>1, <2>2 DEF InTurn
<1>2. ASSUME NEW s \in Shell, Transferred(s) PROVE InTurn'
  BY <1>2, ServerTypeOK, InTurn DEF Transferred, Pass, Reach, Exit, Whole, faults, InTurn,
     ServerTypeOK
<1>3. ASSUME NEW s \in Shell, Choose(s) PROVE InTurn'
  BY <1>3, ServerTypeOK, InTurn DEF Choose, Reach, Exit, faults, InTurn, ServerTypeOK
<1>4. ASSUME NEW s \in Shell, Check(s) PROVE InTurn'
  BY <1>4, ServerTypeOK, InTurn DEF Check, Reach, Exit, faults, InTurn, ServerTypeOK
<1>5. ASSUME NEW s \in Shell, Recover(s) PROVE InTurn'
  BY <1>5, ServerTypeOK, InTurn DEF Recover, Put, Pass, Reach, Exit, faults, InTurn,
     ServerTypeOK
<1>6. ASSUME NEW s \in Shell, Replace(s) PROVE InTurn'
  BY <1>6, ServerTypeOK, InTurn DEF Replace, Pass, Reach, Exit, faults, InTurn, ServerTypeOK
<1>7. ASSUME NEW s \in Shell, Close(s) PROVE InTurn'
  BY <1>7, ServerTypeOK, InTurn DEF Close, Pass, Reach, Checkpoint, faults, InTurn,
     ServerTypeOK
<1>8. ASSUME NEW s \in Shell, WriteReceipt(s) PROVE InTurn'
  BY <1>8, ServerTypeOK, InTurn DEF WriteReceipt, Put, Pass, Reach, Exit, faults, InTurn,
     ServerTypeOK
<1>9. ASSUME NEW s \in Shell, Verify(s) PROVE InTurn'
  BY <1>9, ServerTypeOK, InTurn DEF Verify, Pass, Reach, Exit, Verifies, Whole, faults, InTurn,
     ServerTypeOK
<1>10. ASSUME NEW s \in Shell, WriteIndex(s) PROVE InTurn'
  BY <1>10, ServerTypeOK, InTurn DEF WriteIndex, Pass, Reach, Exit, Whole, faults, InTurn,
     ServerTypeOK
<1>11. ASSUME NEW s \in Shell, Validate(s) PROVE InTurn'
  BY <1>11, ServerTypeOK, InTurn DEF Validate, Exit, Reach, faults, InTurn, ServerTypeOK
<1>12. ASSUME NEW s \in Shell, ReplaceFails(s) PROVE InTurn'
  BY <1>12, ServerTypeOK, InTurn DEF ReplaceFails, Exit, Reach, InTurn, ServerTypeOK
<1>13. ASSUME NEW s \in Shell, ShellDies(s) PROVE InTurn'
  BY <1>13, ServerTypeOK, InTurn DEF ShellDies, Exit, Reach, InTurn, ServerTypeOK
<1>14. ASSUME Upload PROVE InTurn'
  BY <1>14, ServerTypeOK, InTurn DEF Upload, local, faults, InTurn, ServerTypeOK
<1>15. ASSUME OtherLoad PROVE InTurn'
  BY <1>15, ServerTypeOK, InTurn DEF OtherLoad, local, InTurn, ServerTypeOK
<1>16. ASSUME Install PROVE InTurn'
  BY <1>16, ServerTypeOK, InTurn DEF Install, Verifies, Whole, local, faults, InTurn,
     ServerTypeOK
<1>17. ASSUME Launch PROVE InTurn'
  BY <1>17, ServerTypeOK, InTurn DEF Launch, Verdict, Verifies, Whole, local, faults, InTurn,
     ServerTypeOK
<1>18. ASSUME Enter PROVE InTurn'
  BY <1>18, ServerTypeOK, InTurn DEF Enter, Whole, local, faults, InTurn, ServerTypeOK
<1>19. ASSUME Promote PROVE InTurn'
  BY <1>19, ServerTypeOK, InTurn DEF Promote, local, faults, InTurn, ServerTypeOK
<1>20. ASSUME Load PROVE InTurn'
  BY <1>20, ServerTypeOK, InTurn DEF Load, local, faults, InTurn, ServerTypeOK
<1>21. ASSUME CloseLoaded PROVE InTurn'
  BY <1>21, ServerTypeOK, InTurn DEF CloseLoaded, Checkpoint, local, faults, InTurn,
     ServerTypeOK
<1>22. ASSUME Seal PROVE InTurn'
  BY <1>22, ServerTypeOK, InTurn DEF Seal, local, faults, InTurn, ServerTypeOK
<1>23. ASSUME WorkerDies PROVE InTurn'
  BY <1>23, ServerTypeOK, InTurn DEF WorkerDies, local, InTurn, ServerTypeOK
<1>24. ASSUME WriteBack PROVE InTurn'
  BY <1>24, ServerTypeOK, InTurn DEF WriteBack, local, faults, InTurn, ServerTypeOK
<1>25. ASSUME PowerFails PROVE InTurn'
  BY <1>25, ServerTypeOK, InTurn DEF PowerFails, InTurn, ServerTypeOK
<1>26. CASE UNCHANGED vars
  BY <1>26, ServerTypeOK, InTurn DEF vars, database, evidence, local, service, faults, InTurn,
     ServerTypeOK
<1>27. QED
  BY <1>1, <1>2, <1>3, <1>4, <1>5, <1>6, <1>7, <1>8, <1>9, <1>10, <1>11, <1>12, <1>13, <1>14,
     <1>15, <1>16, <1>17, <1>18, <1>19, <1>20, <1>21, <1>22, <1>23, <1>24, <1>25, <1>26 DEF
     ServerNext, BootstrapStep, WorkerStep

\* What has happened has happened.
LEMMA AloneStays ==
  ASSUME ServerTypeOK, Once, [ServerNext]_vars
  PROVE  AloneSoFar
<1> USE ServerAssumption
<1>1. ASSUME NEW s \in Shell, Survey(s) PROVE AloneSoFar
  BY <1>1, ServerTypeOK, Once DEF Survey, Reach, Pass, Exit, Eligible, Whole, AloneSoFar,
     Alone, Once, ServerTypeOK
<1>2. ASSUME NEW s \in Shell, Transferred(s) PROVE AloneSoFar
  BY <1>2, ServerTypeOK, Once DEF Transferred, Pass, Reach, Exit, Whole, faults, AloneSoFar,
     Alone, Once, ServerTypeOK
<1>3. ASSUME NEW s \in Shell, Choose(s) PROVE AloneSoFar
  BY <1>3, ServerTypeOK, Once DEF Choose, Reach, Exit, faults, AloneSoFar, Alone, Once,
     ServerTypeOK
<1>4. ASSUME NEW s \in Shell, Check(s) PROVE AloneSoFar
  BY <1>4, ServerTypeOK, Once DEF Check, Reach, Exit, faults, AloneSoFar, Alone, Once,
     ServerTypeOK
<1>5. ASSUME NEW s \in Shell, Recover(s) PROVE AloneSoFar
  BY <1>5, ServerTypeOK, Once DEF Recover, Put, Pass, Reach, Exit, faults, AloneSoFar, Alone,
     Once, ServerTypeOK
<1>6. ASSUME NEW s \in Shell, Replace(s) PROVE AloneSoFar
  BY <1>6, ServerTypeOK, Once DEF Replace, Pass, Reach, Exit, faults, AloneSoFar, Alone, Once,
     ServerTypeOK
<1>7. ASSUME NEW s \in Shell, Close(s) PROVE AloneSoFar
  BY <1>7, ServerTypeOK, Once DEF Close, Pass, Reach, Checkpoint, faults, AloneSoFar, Alone,
     Once, ServerTypeOK
<1>8. ASSUME NEW s \in Shell, WriteReceipt(s) PROVE AloneSoFar
  BY <1>8, ServerTypeOK, Once DEF WriteReceipt, Put, Pass, Reach, Exit, faults, AloneSoFar,
     Alone, Once, ServerTypeOK
<1>9. ASSUME NEW s \in Shell, Verify(s) PROVE AloneSoFar
  BY <1>9, ServerTypeOK, Once DEF Verify, Pass, Reach, Exit, Verifies, Whole, faults,
     AloneSoFar, Alone, Once, ServerTypeOK
<1>10. ASSUME NEW s \in Shell, WriteIndex(s) PROVE AloneSoFar
  BY <1>10, ServerTypeOK, Once DEF WriteIndex, Pass, Reach, Exit, Whole, faults, AloneSoFar,
     Alone, Once, ServerTypeOK
<1>11. ASSUME NEW s \in Shell, Validate(s) PROVE AloneSoFar
  BY <1>11, ServerTypeOK, Once DEF Validate, Exit, Reach, faults, AloneSoFar, Alone, Once,
     ServerTypeOK
<1>12. ASSUME NEW s \in Shell, ReplaceFails(s) PROVE AloneSoFar
  BY <1>12, ServerTypeOK, Once DEF ReplaceFails, Exit, Reach, AloneSoFar, Alone, Once,
     ServerTypeOK
<1>13. ASSUME NEW s \in Shell, ShellDies(s) PROVE AloneSoFar
  BY <1>13, ServerTypeOK, Once DEF ShellDies, Exit, Reach, AloneSoFar, Alone, Once,
     ServerTypeOK
<1>14. ASSUME Upload PROVE AloneSoFar
  BY <1>14, ServerTypeOK, Once DEF Upload, faults, AloneSoFar, Alone, Once, ServerTypeOK
<1>15. ASSUME OtherLoad PROVE AloneSoFar
  BY <1>15, ServerTypeOK, Once DEF OtherLoad, AloneSoFar, Alone, Once, ServerTypeOK
<1>16. ASSUME Install PROVE AloneSoFar
  BY <1>16, ServerTypeOK, Once DEF Install, Verifies, Whole, faults, AloneSoFar, Alone, Once,
     ServerTypeOK
<1>17. ASSUME Launch PROVE AloneSoFar
  BY <1>17, ServerTypeOK, Once DEF Launch, Verdict, Verifies, Whole, faults, AloneSoFar, Alone,
     Once, ServerTypeOK
<1>18. ASSUME Enter PROVE AloneSoFar
  BY <1>18, ServerTypeOK, Once DEF Enter, Whole, faults, AloneSoFar, Alone, Once, ServerTypeOK
<1>19. ASSUME Promote PROVE AloneSoFar
  BY <1>19, ServerTypeOK, Once DEF Promote, faults, AloneSoFar, Alone, Once, ServerTypeOK
<1>20. ASSUME Load PROVE AloneSoFar
  BY <1>20, ServerTypeOK, Once DEF Load, faults, AloneSoFar, Alone, Once, ServerTypeOK
<1>21. ASSUME CloseLoaded PROVE AloneSoFar
  BY <1>21, ServerTypeOK, Once DEF CloseLoaded, Checkpoint, faults, AloneSoFar, Alone, Once,
     ServerTypeOK
<1>22. ASSUME Seal PROVE AloneSoFar
  BY <1>22, ServerTypeOK, Once DEF Seal, faults, AloneSoFar, Alone, Once, ServerTypeOK
<1>23. ASSUME WorkerDies PROVE AloneSoFar
  BY <1>23, ServerTypeOK, Once DEF WorkerDies, AloneSoFar, Alone, Once, ServerTypeOK
<1>24. ASSUME WriteBack PROVE AloneSoFar
  BY <1>24, ServerTypeOK, Once DEF WriteBack, faults, AloneSoFar, Alone, Once, ServerTypeOK
<1>25. ASSUME PowerFails PROVE AloneSoFar
  BY <1>25, ServerTypeOK, Once DEF PowerFails, AloneSoFar, Alone, Once, ServerTypeOK
<1>26. CASE UNCHANGED vars
  BY <1>26, ServerTypeOK, Once DEF vars, database, evidence, local, service, faults,
     AloneSoFar, Alone, Once, ServerTypeOK
<1>27. QED
  BY <1>1, <1>2, <1>3, <1>4, <1>5, <1>6, <1>7, <1>8, <1>9, <1>10, <1>11, <1>12, <1>13, <1>14,
     <1>15, <1>16, <1>17, <1>18, <1>19, <1>20, <1>21, <1>22, <1>23, <1>24, <1>25, <1>26 DEF
     ServerNext, BootstrapStep, WorkerStep

\* There is one receipt only, and nobody but the worker makes it false.
LEMMA OneReceiptKept ==
  ASSUME Alone, Alone', InTurn, ServerTypeOK, ServerTypeOK', Located, Recorded, Loaded, Grows,
     Moves, Intended, OneReceipt, [ServerNext]_vars
  PROVE  OneReceipt'
<1> USE ServerAssumption
<1>1. ASSUME NEW s \in Shell, Survey(s) PROVE OneReceipt'
  BY <1>1, Alone, Alone', InTurn, ServerTypeOK, Located, Recorded, Loaded, Intended,
     OneReceipt, Moves, SeenStill, OriginalIsContent DEF Survey, Reach, Pass, Exit, Eligible,
     Whole, database, evidence, service, Alone, InTurn, OneReceipt, ServerTypeOK, Located,
     Recorded, Moves, Intended, Working
<1>2. ASSUME NEW s \in Shell, Transferred(s) PROVE OneReceipt'
  BY <1>2, Alone, Alone', InTurn, ServerTypeOK, Located, Recorded, Loaded, Intended,
     OneReceipt, Moves, SeenStill, OriginalIsContent DEF Transferred, Pass, Reach, Exit, Whole,
     database, evidence, service, faults, Alone, InTurn, OneReceipt, ServerTypeOK, Located,
     Recorded, Moves, Intended, Working
<1>3. ASSUME NEW s \in Shell, Choose(s) PROVE OneReceipt'
  BY <1>3, Alone, Alone', InTurn, ServerTypeOK, Located, Recorded, Loaded, Intended,
     OneReceipt, Moves, SeenStill, OriginalIsContent DEF Choose, Reach, Exit, database,
     evidence, service, faults, Alone, InTurn, OneReceipt, ServerTypeOK, Located, Recorded,
     Moves, Intended, Working
<1>4. ASSUME NEW s \in Shell, Check(s) PROVE OneReceipt'
  <2>1. chosen[s] = Plain /\ s \in Shell
    BY <1>4, ServerTypeOK, Located, OneReceipt
       DEF Check, ServerTypeOK, Located, OneReceipt, Working, Receipt
  <2>2. intents' \subseteq {Plain} /\ (Plain \in intents => Plain \in intents')
    BY <1>4, <2>1, OneReceipt DEF Check, OneReceipt
  <2>3. /\ UNCHANGED <<file, wal, receipts, index, validation, contract, worker>>
        /\ Seen' = Seen
    BY <1>4, SeenStill DEF Check, database, service
  <2>4. \A t \in Shell : chosen'[t] \in {None, Plain}
    BY <1>4, OneReceipt, ServerTypeOK DEF Check, OneReceipt, Exit, Reach, ServerTypeOK
  <2>5. /\ pc'[s] \in {"replace", "close"} => file = TransferDatabase
        /\ pc'[s] = "recover" => file = seen'[s]
    BY <1>4, ServerTypeOK DEF Check, Exit, Reach, ServerTypeOK
  <2>6. \A t \in Shell : t # s => pc'[t] = "idle"
    BY <1>4, Alone, InTurn, ServerTypeOK DEF Check, Exit, Reach, Alone, InTurn, ServerTypeOK
  <2>7. QED
    BY <2>2, <2>3, <2>4, <2>5, <2>6, OneReceipt DEF OneReceipt
<1>5. ASSUME NEW s \in Shell, Recover(s) PROVE OneReceipt'
  BY <1>5, Alone, Alone', InTurn, ServerTypeOK, Located, Recorded, Loaded, Intended,
     OneReceipt, Moves, SeenStill, OriginalIsContent DEF Recover, Put, Pass, Reach, Exit,
     database, service, faults, Alone, InTurn, OneReceipt, ServerTypeOK, Located, Recorded,
     Moves, Intended, Working
<1>6. ASSUME NEW s \in Shell, Replace(s) PROVE OneReceipt'
  BY <1>6, Alone, Alone', InTurn, ServerTypeOK, Located, Recorded, Loaded, Intended,
     OneReceipt, Moves, SeenStill, OriginalIsContent DEF Replace, Pass, Reach, Exit, evidence,
     service, faults, Alone, InTurn, OneReceipt, ServerTypeOK, Located, Recorded, Moves,
     Intended, Working
<1>7. ASSUME NEW s \in Shell, Close(s) PROVE OneReceipt'
  BY <1>7, Alone, Alone', InTurn, ServerTypeOK, Located, Recorded, Loaded, Intended,
     OneReceipt, Moves, SeenStill, OriginalIsContent DEF Close, Pass, Reach, Checkpoint,
     evidence, service, faults, Alone, InTurn, OneReceipt, ServerTypeOK, Located, Recorded,
     Moves, Intended, Working
<1>8. ASSUME NEW s \in Shell, WriteReceipt(s) PROVE OneReceipt'
  BY <1>8, Alone, Alone', InTurn, ServerTypeOK, Located, Recorded, Loaded, Intended,
     OneReceipt, Moves, SeenStill, OriginalIsContent DEF WriteReceipt, Put, Pass, Reach, Exit,
     database, service, faults, Alone, InTurn, OneReceipt, ServerTypeOK, Located, Recorded,
     Moves, Intended, Working
<1>9. ASSUME NEW s \in Shell, Verify(s) PROVE OneReceipt'
  BY <1>9, Alone, Alone', InTurn, ServerTypeOK, Located, Recorded, Loaded, Intended,
     OneReceipt, Moves, SeenStill, OriginalIsContent DEF Verify, Pass, Reach, Exit, Verifies,
     Whole, database, evidence, service, faults, Alone, InTurn, OneReceipt, ServerTypeOK,
     Located, Recorded, Moves, Intended, Working
<1>10. ASSUME NEW s \in Shell, WriteIndex(s) PROVE OneReceipt'
  BY <1>10, Alone, Alone', InTurn, ServerTypeOK, Located, Recorded, Loaded, Intended,
     OneReceipt, Moves, SeenStill, OriginalIsContent DEF WriteIndex, Pass, Reach, Exit, Whole,
     database, service, faults, Alone, InTurn, OneReceipt, ServerTypeOK, Located, Recorded,
     Moves, Intended, Working
<1>11. ASSUME NEW s \in Shell, Validate(s) PROVE OneReceipt'
  BY <1>11, Alone, Alone', InTurn, ServerTypeOK, Located, Recorded, Loaded, Intended,
     OneReceipt, Moves, SeenStill, OriginalIsContent DEF Validate, Exit, Reach, database,
     service, faults, Alone, InTurn, OneReceipt, ServerTypeOK, Located, Recorded, Moves,
     Intended, Working
<1>12. ASSUME NEW s \in Shell, ReplaceFails(s) PROVE OneReceipt'
  BY <1>12, Alone, Alone', InTurn, ServerTypeOK, Located, Recorded, Loaded, Intended,
     OneReceipt, Moves, SeenStill, OriginalIsContent DEF ReplaceFails, Exit, Reach, database,
     evidence, service, Alone, InTurn, OneReceipt, ServerTypeOK, Located, Recorded, Moves,
     Intended, Working
<1>13. ASSUME NEW s \in Shell, ShellDies(s) PROVE OneReceipt'
  BY <1>13, Alone, Alone', InTurn, ServerTypeOK, Located, Recorded, Loaded, Intended,
     OneReceipt, Moves, SeenStill, OriginalIsContent DEF ShellDies, Exit, Reach, evidence,
     service, Alone, InTurn, OneReceipt, ServerTypeOK, Located, Recorded, Moves, Intended,
     Working
<1>14. ASSUME Upload PROVE OneReceipt'
  BY <1>14, Alone, Alone', InTurn, ServerTypeOK, Located, Recorded, Loaded, Intended,
     OneReceipt, Moves, SeenStill, OriginalIsContent DEF Upload, evidence, local, service,
     faults, Alone, InTurn, OneReceipt, ServerTypeOK, Located, Recorded, Moves, Intended,
     Working
<1>15. ASSUME OtherLoad PROVE OneReceipt'
  BY <1>15, Alone, Alone', InTurn, ServerTypeOK, Located, Recorded, Loaded, Intended,
     OneReceipt, Moves, SeenStill, OriginalIsContent DEF OtherLoad, evidence, local, service,
     Alone, InTurn, OneReceipt, ServerTypeOK, Located, Recorded, Moves, Intended, Working
<1>16. ASSUME Install PROVE OneReceipt'
  BY <1>16, Alone, Alone', InTurn, ServerTypeOK, Located, Recorded, Loaded, Intended,
     OneReceipt, Moves, SeenStill, OriginalIsContent DEF Install, Verifies, Whole, database,
     evidence, local, faults, Alone, InTurn, OneReceipt, ServerTypeOK, Located, Recorded,
     Moves, Intended, Working
<1>17. ASSUME Launch PROVE OneReceipt'
  BY <1>17, Alone, Alone', InTurn, ServerTypeOK, Located, Recorded, Loaded, Intended,
     OneReceipt, Moves, SeenStill, OriginalIsContent DEF Launch, Verdict, Verifies, Whole,
     database, evidence, local, faults, Alone, InTurn, OneReceipt, ServerTypeOK, Located,
     Recorded, Moves, Intended, Working
<1>18. ASSUME Enter PROVE OneReceipt'
  BY <1>18, Alone, Alone', InTurn, ServerTypeOK, Located, Recorded, Loaded, Intended,
     OneReceipt, Moves, SeenStill, OriginalIsContent DEF Enter, Whole, database, evidence,
     local, faults, Alone, InTurn, OneReceipt, ServerTypeOK, Located, Recorded, Moves,
     Intended, Working
<1>19. ASSUME Promote PROVE OneReceipt'
  BY <1>19, Alone, Alone', InTurn, ServerTypeOK, Located, Recorded, Loaded, Intended,
     OneReceipt, Moves, SeenStill, OriginalIsContent DEF Promote, database, evidence, local,
     faults, Alone, InTurn, OneReceipt, ServerTypeOK, Located, Recorded, Moves, Intended,
     Working
<1>20. ASSUME Load PROVE OneReceipt'
  <2>1. /\ UNCHANGED <<file, receipts, intents, index, validation, contract>>
        /\ UNCHANGED <<pc, chosen, seen>> /\ contract # None
    BY <1>20, OneReceipt DEF Load, evidence, local, OneReceipt
  <2>2. CASE writer = None
    <3>1. wal' = [Seen EXCEPT !.lexical = TRUE]
      BY <1>20, <2>2 DEF Load
    <3>2. Seen' = wal' /\ wal'.lexical
      BY <3>1, SeenIsCatalog, ServerTypeOK, OriginalIsContent DEF Seen, Catalog
    <3>3. QED
      BY <2>1, <3>2, OneReceipt DEF OneReceipt
  <2>3. CASE writer # None
    <3>1. Seen' = Seen /\ worker' = "stopped"
      BY <1>20, <2>3, SeenStill DEF Load
    <3>2. QED
      BY <2>1, <3>1, OneReceipt DEF OneReceipt
  <2>4. QED
    BY <2>2, <2>3
<1>21. ASSUME CloseLoaded PROVE OneReceipt'
  <2>1. /\ UNCHANGED <<receipts, intents, index, validation, contract>>
        /\ UNCHANGED <<pc, chosen, seen>> /\ worker = "loading" /\ worker' = "loaded"
        /\ wal' = None /\ file'.catalog = wal /\ file'.serial = serial + 1
    BY <1>21 DEF CloseLoaded, Checkpoint, evidence, local
  <2>2. Seen'.lexical
    BY <2>1, Loaded, OneReceipt DEF Loaded, OneReceipt, Seen
  <2>3. receipts[Plain] # None
    BY <2>1, OneReceipt DEF OneReceipt
  <2>4. file' # TransferDatabase
    BY <2>1, OriginalIsContent, ServerTypeOK DEF ServerTypeOK
  <2>5. \A t \in Shell : pc[t] \notin {"replace", "close"}
    BY <2>3, OneReceipt DEF OneReceipt
  <2>6. QED
    BY <2>1, <2>2, <2>3, <2>4, <2>5, OneReceipt DEF OneReceipt
<1>22. ASSUME Seal PROVE OneReceipt'
  BY <1>22, Alone, Alone', InTurn, ServerTypeOK, Located, Recorded, Loaded, Intended,
     OneReceipt, Moves, SeenStill, OriginalIsContent DEF Seal, database, evidence, local,
     faults, Alone, InTurn, OneReceipt, ServerTypeOK, Located, Recorded, Moves, Intended,
     Working
<1>23. ASSUME WorkerDies PROVE OneReceipt'
  BY <1>23, Alone, Alone', InTurn, ServerTypeOK, Located, Recorded, Loaded, Intended,
     OneReceipt, Moves, SeenStill, OriginalIsContent DEF WorkerDies, evidence, local, Alone,
     InTurn, OneReceipt, ServerTypeOK, Located, Recorded, Moves, Intended, Working
<1>24. ASSUME WriteBack PROVE OneReceipt'
  BY <1>24, Alone, Alone', InTurn, ServerTypeOK, Located, Recorded, Loaded, Intended,
     OneReceipt, Moves, SeenStill, OriginalIsContent DEF WriteBack, database, evidence, local,
     service, faults, Alone, InTurn, OneReceipt, ServerTypeOK, Located, Recorded, Moves,
     Intended, Working
<1>25. ASSUME PowerFails PROVE OneReceipt'
  BY <1>25, Alone, Alone', InTurn, ServerTypeOK, Located, Recorded, Loaded, Intended,
     OneReceipt, Moves, SeenStill, OriginalIsContent DEF PowerFails, Alone, InTurn, OneReceipt,
     ServerTypeOK, Located, Recorded, Moves, Intended, Working
<1>26. CASE UNCHANGED vars
  BY <1>26, Alone, Alone', InTurn, ServerTypeOK, Located, Recorded, Loaded, Intended,
     OneReceipt, Moves, SeenStill, OriginalIsContent DEF vars, database, evidence, local,
     service, faults, Alone, InTurn, OneReceipt, ServerTypeOK, Located, Recorded, Moves,
     Intended, Working
<1>27. QED
  BY <1>1, <1>2, <1>3, <1>4, <1>5, <1>6, <1>7, <1>8, <1>9, <1>10, <1>11, <1>12, <1>13, <1>14,
     <1>15, <1>16, <1>17, <1>18, <1>19, <1>20, <1>21, <1>22, <1>23, <1>24, <1>25, <1>26 DEF
     ServerNext, BootstrapStep, WorkerStep

-----------------------------------------------------------------------------
\* Until the power fails a rebound database has an intent: whatever dies in
\* whatever bootstrap, the next one is never left with 0 eligible intents and
\* a changed database.
THEOREM ServerIntentIsDurable == ServerSpec => []IntentIsDurable
<1>1. ServerInit => Intended
  BY ServerAssumption DEF ServerInit, Intended, TransferDatabase
<1>2. ServerInv /\ ServerInv' /\ Intended /\ [ServerNext]_vars => Intended'
  BY IntendedKept, SeenGrows, FileMoves DEF ServerInv
<1>3. Intended => IntentIsDurable
  BY DEF Intended, IntentIsDurable
<1>4. QED
  BY <1>1, <1>2, <1>3, ServerInvariant, PTL DEF ServerSpec

\* Bootstraps that come one after the other, however many and wherever they
\* are cut off, rebind the database once; from the installation on only the
\* worker changes it.
THEOREM ServerRebindIsOnce == ServerSpec => []RebindIsOnce
<1> DEFINE Inv == Intended /\ InTurn /\ Once
<1>1. ServerInit => Inv
  <2>1. ServerInit => Intended
    BY ServerAssumption DEF ServerInit, Intended, TransferDatabase
  <2>2. ServerInit => InTurn
    BY DEF ServerInit, InTurn
  <2>3. ServerInit => Once
    BY ServerAssumption DEF ServerInit, Once, OneReceipt, TransferDatabase, Seen, Receipt
  <2>4. QED
    BY <2>1, <2>2, <2>3
<1>2. ServerInv /\ ServerInv' /\ Inv /\ [ServerNext]_vars => Inv'
  <2> SUFFICES ASSUME ServerInv, ServerInv', Inv, [ServerNext]_vars PROVE Inv'
    OBVIOUS
  <2>1. /\ ServerTypeOK /\ ServerTypeOK' /\ Located /\ Recorded /\ Loaded
        /\ Grows /\ Moves
    BY SeenGrows, FileMoves DEF ServerInv
  <2>2. Intended'
    BY <2>1, IntendedKept
  <2>3. InTurn'
    BY <2>1, InTurnKept
  <2>4. AloneSoFar
    BY <2>1, AloneStays
  <2>5. ASSUME Alone' PROVE OneReceipt'
    BY <2>1, <2>4, <2>5, OneReceiptKept DEF Once, AloneSoFar
  <2>6. QED
    BY <2>2, <2>3, <2>4, <2>5 DEF Once, AloneSoFar
<1>3. Once => RebindIsOnce
  BY DEF Once, OneReceipt, RebindIsOnce
<1>4. QED
  BY <1>1, <1>2, <1>3, ServerInvariant, PTL DEF ServerSpec

\* What the run checks of rebinds: segment/storage.py records every one, and
\* bootstrap_ubuntu.sh run alone rebinds the database once.
THEOREM ServerRebindIsRecordedOnce == ServerSpec => []RebindIsRecordedOnce
<1>1. IntentIsDurable /\ RebindIsOnce => RebindIsRecordedOnce
  BY DEF RebindIsRecordedOnce
<1>2. QED
  BY <1>1, ServerIntentIsDurable, ServerRebindIsOnce, PTL

=============================================================================
