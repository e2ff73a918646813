--------------------------- MODULE RecoveryImport ---------------------------
(***************************************************************************)
(* The import of completed input stages                                    *)
(* (final_discovery/recovery.py).  A campaign whose code changed outside   *)
(* stages 1 and 2 need not compute them again: the import authenticates    *)
(* both completions of the old work directory, copies their artifacts into *)
(* attempts of the new one, file by file against the recorded hashes, adds *)
(* the two original completion files and their provenance as evidence, and *)
(* publishes under the new code's identity.                                *)
(*                                                                         *)
(* An import takes hours and nothing is locked: the source may be replaced *)
(* or damaged, another import or the campaign's own worker may complete a  *)
(* stage of the target, and the import may die at any step and be run      *)
(* again.  The target keeps what StageLedger promises of a stage store:    *)
(* a completion is entered once and names the completion it depends on.    *)
(***************************************************************************)
EXTENDS Integers

CONSTANTS
  Importer,       \* runs of the import
  Version,        \* runs of the old campaign's stages 1 and 2
  Content,        \* what an artifact directory can hold
  Produced,       \* Version -> the contents its two stages have
  Original,       \* the version the source holds at first
  Unset           \* absent file or unset variable

InputStage == {1, 2}

\* A completion of the target: what its artifacts hold, and the original
\* completion files among them, which a worker's completion does not have.
Completion == [art : Content, evidence : [InputStage -> Version] \cup {Unset}]

ASSUME ImportAssumption ==
  /\ Produced \in [Version -> [InputStage -> Content]]
  /\ Original \in Version
  /\ Unset \notin Version \cup [InputStage -> Version] \cup Completion

VARIABLES
  source,         \* completion.json of the two stages in the source
  intact,         \* <<version, stage>>: artifacts of the source that are whole
  target,         \* completion.json of the two stages in the target
  phase,          \* where an import is
  at,             \* the stage it is at
  held,           \* the source manifests it has authenticated
  bytes           \* the source completion files it has read

importVars == <<source, intact, target, phase, at, held, bytes>>
files == <<source, intact, target>>

Phase == {"idle", "authenticate", "read", "run", "copy", "evidence",
          "publish", "verify", "imported", "raised", "dead"}

ImportInit ==
  /\ source = [s \in InputStage |-> Original]
  /\ intact = Version \X InputStage
  /\ target = [s \in InputStage |-> Unset]
  /\ phase = [i \in Importer |-> "idle"]
  /\ at = [i \in Importer |-> 1]
  /\ held = [i \in Importer |-> [s \in InputStage |-> Unset]]
  /\ bytes = [i \in Importer |-> [s \in InputStage |-> Unset]]

Move(i, p, s) == phase' = [phase EXCEPT ![i] = p] /\ at' = [at EXCEPT ![i] = s]
Raise(i) == Move(i, "raised", at[i])

(***************************************************************************)
(* The source checks                                                       *)
(***************************************************************************)
BeginImport(i) ==
  /\ phase[i] = "idle"
  /\ Move(i, "authenticate", 1)
  /\ UNCHANGED <<files, held, bytes>>

\* authenticate_completion: the artifacts are those of the manifest and, for
\* stage 2, the completion file of stage 1 is the one it was computed from.
AuthenticateSource(i) ==
  LET s == at[i]
      v == source[s]
  IN /\ phase[i] = "authenticate"
     /\ IF <<v, s>> \in intact /\ (s = 2 => source[1] = v)
          THEN /\ held' = [held EXCEPT ![i][s] = v]
               /\ IF s = 1 THEN Move(i, "authenticate", 2) ELSE Move(i, "read", 1)
          ELSE Raise(i) /\ UNCHANGED held
     /\ UNCHANGED <<files, bytes>>

\* The bytes of both completion files are kept, and must still say what was
\* authenticated.
ReadBytes(i) ==
  /\ phase[i] = "read"
  /\ bytes' = [bytes EXCEPT ![i][at[i]] = source[at[i]]]
  /\ IF at[i] = 1 THEN Move(i, "read", 2)
       ELSE IF bytes'[i] = held[i] THEN Move(i, "run", 1) ELSE Raise(i)
  /\ UNCHANGED <<files, held>>

(***************************************************************************)
(* One stage: run_stage with the copying producer, then the checks of its  *)
(* result                                                                  *)
(***************************************************************************)

\* A completion that is there was made for the same request, whoever made it.
RunStage(i) ==
  /\ phase[i] = "run"
  /\ Move(i, IF target[at[i]] # Unset THEN "verify" ELSE "copy", at[i])
  /\ UNCHANGED <<files, held, bytes>>

CopyArtifacts(i) ==
  /\ phase[i] = "copy"
  /\ IF <<held[i][at[i]], at[i]>> \in intact
       THEN Move(i, "evidence", at[i]) ELSE Raise(i)
  /\ UNCHANGED <<files, held, bytes>>

\* Both source completion files must still be what was read.
WriteEvidence(i) ==
  /\ phase[i] = "evidence"
  /\ IF source = bytes[i] THEN Move(i, "publish", at[i]) ELSE Raise(i)
  /\ UNCHANGED <<files, held, bytes>>

\* The completion is linked only where none is.
Imported(i, s) == [art |-> Produced[held[i][s]][s], evidence |-> bytes[i]]

\* Mutant: the evidence is what the source holds at the publication.
PublishCurrentEvidence(i) ==
  /\ phase[i] = "publish"
  /\ IF target[at[i]] = Unset
       THEN /\ target' = [target EXCEPT ![at[i]] =
                            [art |-> Produced[held[i][at[i]]][at[i]], evidence |-> source]]
            /\ Move(i, "verify", at[i])
       ELSE Raise(i) /\ UNCHANGED target
  /\ UNCHANGED <<source, intact, held, bytes>>

PublishImport(i) ==
  /\ phase[i] = "publish"
  /\ IF target[at[i]] = Unset
       THEN /\ target' = [target EXCEPT ![at[i]] = Imported(i, at[i])]
            /\ Move(i, "verify", at[i])
       ELSE Raise(i) /\ UNCHANGED target
  /\ UNCHANGED <<source, intact, held, bytes>>

\* What the completed target must show, whether it was just made or found.
Accepts(i, s) ==
  /\ target[s].art = Produced[held[i][s]][s]
  /\ target[s].evidence = bytes[i]

VerifyTarget(i) ==
  /\ phase[i] = "verify"
  /\ IF ~Accepts(i, at[i]) THEN Raise(i)
       ELSE IF at[i] = 1 THEN Move(i, "run", 2) ELSE Move(i, "imported", 2)
  /\ UNCHANGED <<files, held, bytes>>

\* The process of an import ends; its attempts stay and are never published.
ImporterDies(i) ==
  /\ phase[i] \notin {"idle", "imported", "raised", "dead"}
  /\ Move(i, "dead", at[i])
  /\ UNCHANGED <<files, held, bytes>>

(***************************************************************************)
(* Everyone else                                                           *)
(***************************************************************************)

\* The campaign's worker completes a stage by computing it.
WorkerCompletes(s) ==
  /\ target[s] = Unset
  /\ s = 2 => target[1] # Unset
  /\ \E c \in Content : target' = [target EXCEPT ![s] = [art |-> c, evidence |-> Unset]]
  /\ UNCHANGED <<source, intact, phase, at, held, bytes>>

\* The source is brought to another version, one completion file at a time
\* and each at most once.
SourceReplaced(s) ==
  /\ source[s] = Original
  /\ \E v \in Version : source' = [source EXCEPT ![s] = v]
  /\ UNCHANGED <<intact, target, phase, at, held, bytes>>

\* Artifacts of a version in the source are changed or lost.
SourceDamaged ==
  /\ \E a \in intact : intact' = intact \ {a}
  /\ UNCHANGED <<source, target, phase, at, held, bytes>>

Import(i) ==
  \/ BeginImport(i) \/ AuthenticateSource(i) \/ ReadBytes(i) \/ RunStage(i)
  \/ CopyArtifacts(i) \/ WriteEvidence(i) \/ PublishImport(i) \/ VerifyTarget(i)

ImportNext ==
  \/ \E i \in Importer : Import(i) \/ ImporterDies(i)
  \/ \E s \in InputStage : WorkerCompletes(s) \/ SourceReplaced(s)
  \/ SourceDamaged

ImportSpec == ImportInit /\ [][ImportNext]_importVars

(***************************************************************************)
(* Properties                                                              *)
(***************************************************************************)

ImportTypeOK ==
  /\ source \in [InputStage -> Version]
  /\ intact \subseteq Version \X InputStage
  /\ target \in [InputStage -> Completion \cup {Unset}]
  /\ phase \in [Importer -> Phase]
  /\ at \in [Importer -> InputStage]
  /\ held \in [Importer -> [InputStage -> Version \cup {Unset}]]
  /\ bytes \in [Importer -> [InputStage -> Version \cup {Unset}]]

IsImport(s) == target[s] # Unset /\ target[s].evidence # Unset

\* An imported completion holds what the completion files it carries as
\* evidence describe, and these are of one run of the old campaign: whatever
\* happens to the source between the checks, the copies and the publication.
ImportIsGenuine ==
  \A s \in InputStage :
    IsImport(s) => \E v \in Version : /\ target[s].evidence = [t \in InputStage |-> v]
                                      /\ target[s].art = Produced[v][s]

\* Two imported stages carry the same evidence, though different imports of
\* different sources may have made them: an import goes on to stage 2 only
\* over a stage 1 that is its own in every byte.  One that returns leaves
\* both stages imported from what it authenticated.
ImportsAgree ==
  /\ IsImport(1) /\ IsImport(2) => target[1].evidence = target[2].evidence
  /\ IsImport(2) => IsImport(1)
  /\ \A i \in Importer : phase[i] = "imported" =>
       \A s \in InputStage : IsImport(s) /\ target[s].evidence = bytes[i]
=============================================================================
