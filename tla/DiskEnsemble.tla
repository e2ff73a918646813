---------------------------- MODULE DiskEnsemble ----------------------------
(***************************************************************************)
(* The candidate ranking of the final discovery, as disk_ensemble.py       *)
(* builds it for populations that do not fit in memory, and as             *)
(* disk_validation.py computes it again in SQL to judge what was built.    *)
(*                                                                         *)
(* Three passes read an evidence ledger and two null ledgers in step.      *)
(* The first gathers the p-values, from which the Benjamini-Hochberg       *)
(* q-values are made; the second finds Tier A and keeps the best           *)
(* TierBSize others; the third writes the candidates to sorted chunks,     *)
(* which are merged into the ranking.  No pass but the first knows the     *)
(* population, and none sees more than a bounded part of it.               *)
(*                                                                         *)
(* A pair is numbered as its identifier sorts.  A draft is what decides    *)
(* about a pair: its score and p-values, and the answers to the frozen     *)
(* tests that need no other pair.  p- and q-values are whole numbers, One  *)
(* stands for 1.0, so fine that every quotient taken of them is whole.     *)
(* The ledgers are artifacts of completed stages and do not change.        *)
(***************************************************************************)
EXTENDS Integers, Sequences, FiniteSets

CONSTANTS
  Pair,           \* candidate pairs
  Draft,          \* drafts a pair may have
  One, QLimit,    \* the q-value 1.0, and the largest that Tier A admits
  MinimumScore,   \* the smallest ensemble score that it admits
  TierBSize, ChunkSize, MaximumPairs

Scope == {"full", "remove_all_english"}
Ledger == Scope \cup {"evidence"}

ASSUME EnsembleAssumption ==
  /\ Pair \subseteq Nat /\ IsFiniteSet(Pair)
  /\ One \in Nat /\ QLimit \in 0..(One - 1) /\ MinimumScore \in Nat
  /\ TierBSize \in Nat /\ ChunkSize \in Nat \ {0} /\ MaximumPairs \in Nat \ {0}
  /\ \A d \in Draft :
       /\ d.score \in Nat
       /\ d.p \in [Scope -> 0..One] /\ d.trusted \in [Scope -> BOOLEAN]
       /\ {d.unknown, d.basic, d.english, d.fit} \subseteq BOOLEAN
       /\ \A s \in Scope, k \in 1..Cardinality(Pair) : d.p[s] % k = 0

VARIABLES
  ledger,         \* the pairs of each ledger
  draft,          \* the draft of every pair
  faulty,         \* pairs whose rows do not have the registered provenance
  claimed,        \* the hypothesis count that all null rows carry
  phase,
  read,           \* pairs read in this pass
  count,          \* size of the population after the first pass
  scope, left, running, qValue,    \* the adjustment of the p-values
  tierA, tierB,
  lines,          \* candidate rows written
  buffer, chunk,  \* pairs of the rows in memory and in each chunk file
  opened, heap, merged,            \* the merge
  findings        \* what the validation reports

inputs == <<ledger, draft, faulty, claimed>>
adjustment == <<scope, left, running, qValue>>
tiers == <<tierA, tierB>>
chunks == <<lines, buffer, chunk>>
merge == <<opened, heap, merged>>
ensembleVars ==
  <<inputs, phase, read, count, adjustment, tiers, chunks, merge, findings>>

EnsembleInit ==
  /\ ledger \in [Ledger -> SUBSET Pair]
  /\ draft \in [Pair -> Draft]
  /\ faulty \in SUBSET Pair
  /\ claimed \in 0..Cardinality(Pair)
  /\ phase = "gather" /\ read = {} /\ count = 0
  /\ scope = "full" /\ left = {} /\ running = One
  /\ qValue = [s \in Scope |-> [p \in Pair |-> One]]
  /\ tierA = {} /\ tierB = {}
  /\ lines = {} /\ buffer = {} /\ chunk = <<>>
  /\ opened = 0 /\ heap = {} /\ merged = <<>>
  /\ findings = {}

Refuse ==
  /\ phase' = "refused"
  /\ UNCHANGED <<read, count, adjustment, tiers, chunks, merge>>

(***************************************************************************)
(* What the sorts and the tests compare                                    *)
(***************************************************************************)

\* The order of the ranking: descending score, then identifier.
Before(p, r) ==
  \/ draft[p].score > draft[r].score
  \/ draft[p].score = draft[r].score /\ p < r

IsFirst(p, P) == p \in P /\ \A r \in P : r = p \/ Before(p, r)

\* The order of the p-values of a scope.
Smaller(s, p, r) ==
  \/ draft[p].p[s] < draft[r].p[s]
  \/ draft[p].p[s] = draft[r].p[s] /\ p < r

\* Of a pair with English-derived evidence, what is left without it must pass
\* the same tests.
AblationSurvives(d, aq) ==
  d.english => /\ d.trusted["remove_all_english"] /\ aq <= QLimit
               /\ d.unknown /\ d.fit /\ ~d.basic

\* A scope is trusted when its null has a stratum large enough and an empirical
\* FDR within the limit, and its score is enough if it is that without English;
\* a pair is fit with enough original-language families and no quality flag.
ExclusionReasons(d, q, aq) ==
  {r \in {"known", "score", "q", "null", "unfit", "ablation", "basic"} :
     \/ r = "known" /\ ~d.unknown
     \/ r = "score" /\ d.score < MinimumScore
     \/ r = "q" /\ q > QLimit
     \/ r = "null" /\ ~d.trusted["full"]
     \/ r = "unfit" /\ ~d.fit
     \/ r = "ablation" /\ ~AblationSurvives(d, aq)
     \/ r = "basic" /\ d.basic}

Reasons(p) ==
  ExclusionReasons(draft[p], qValue["full"][p], qValue["remove_all_english"][p])

(***************************************************************************)
(* Reading the three ledgers in step                                       *)
(***************************************************************************)
Unread(l) == ledger[l] \ read

Leads(p, l) == p \in Unread(l) /\ \A r \in Unread(l) : p <= r

Drafted(p) == p \notin faulty /\ \A l \in Ledger : Leads(p, l)

Exhausted == \A l \in Ledger : Unread(l) = {}

\* One ledger is at its end and another is not, they are at different pairs,
\* or a row is refused, whichever of the passes meets it.
StreamBreaks ==
  /\ phase \in {"gather", "tier", "emit"}
  /\ ~Exhausted /\ ~\E p \in Pair : Drafted(p)
  /\ Refuse
  /\ UNCHANGED <<inputs, findings>>

(***************************************************************************)
(* First pass, and the q-values                                            *)
(***************************************************************************)
Gather(p) ==
  /\ phase = "gather" /\ Drafted(p)
  /\ IF Cardinality(read) >= MaximumPairs
       THEN Refuse
       ELSE /\ read' = read \cup {p}
            /\ UNCHANGED <<phase, count, adjustment, tiers, chunks, merge>>
  /\ UNCHANGED <<inputs, findings>>

\* Null rows state the size of the population they are about; the sizes of
\* the strata are compared at the same place.
EndGather ==
  /\ phase = "gather" /\ Exhausted
  /\ IF read = {} \/ claimed # Cardinality(read)
       THEN Refuse
       ELSE /\ phase' = "adjust" /\ count' = Cardinality(read)
            /\ left' = read
            /\ UNCHANGED <<read, scope, running, qValue, tiers, chunks, merge>>
  /\ UNCHANGED <<inputs, findings>>

AtMost(a, b) == IF a <= b THEN a ELSE b

\* Mutant: the adjusted value is not made monotone.
AdjustAlone(p) ==
  LET q == AtMost(One, count * (draft[p].p[scope] \div Cardinality(left)))
  IN /\ phase = "adjust"
     /\ p \in left /\ \A r \in left : r = p \/ Smaller(scope, r, p)
     /\ qValue' = [qValue EXCEPT ![scope][p] = q]
     /\ running' = q
     /\ left' = left \ {p}
     /\ UNCHANGED <<inputs, phase, read, count, scope, tiers, chunks, merge, findings>>

\* One turn of the loop of benjamini_hochberg, which takes the p-values from
\* the largest down: as many are left as the rank of this one says.
Adjust(p) ==
  LET q == AtMost(running, count * (draft[p].p[scope] \div Cardinality(left)))
  IN /\ phase = "adjust"
     /\ p \in left /\ \A r \in left : r = p \/ Smaller(scope, r, p)
     /\ qValue' = [qValue EXCEPT ![scope][p] = q]
     /\ running' = q
     /\ left' = left \ {p}
     /\ UNCHANGED <<inputs, phase, read, count, scope, tiers, chunks, merge, findings>>

EndAdjust ==
  /\ phase = "adjust" /\ left = {}
  /\ IF scope = "full"
       THEN /\ scope' = "remove_all_english" /\ left' = read /\ running' = One
            /\ UNCHANGED <<phase, read, qValue>>
       ELSE /\ phase' = "tier" /\ read' = {}
            /\ UNCHANGED adjustment
  /\ UNCHANGED <<inputs, count, tiers, chunks, merge, findings>>

(***************************************************************************)
(* Second pass: Tier A, and the best of the others                         *)
(***************************************************************************)

\* Mutant: the list is cut before the new pair has its place in it.
TrimmedEarly(P) == IF Cardinality(P) >= TierBSize THEN {r \in P : \E x \in P : Before(r, x)} ELSE P

\* A list that is too long loses its last.
Trimmed(P) == IF Cardinality(P) > TierBSize THEN {r \in P : \E x \in P : Before(r, x)} ELSE P

Tier(p) ==
  /\ phase = "tier" /\ Drafted(p)
  /\ read' = read \cup {p}
  /\ tierA' = IF Reasons(p) = {} THEN tierA \cup {p} ELSE tierA
  /\ tierB' = IF Reasons(p) # {} /\ draft[p].unknown /\ ~draft[p].basic
                THEN Trimmed(tierB \cup {p}) ELSE tierB
  /\ UNCHANGED <<inputs, phase, count, adjustment, chunks, merge, findings>>

EndTier ==
  /\ phase = "tier" /\ Exhausted
  /\ IF Cardinality(read) # count
       THEN Refuse
       ELSE /\ phase' = "emit" /\ read' = {}
            /\ UNCHANGED <<count, adjustment, tiers, chunks, merge>>
  /\ UNCHANGED <<inputs, findings>>

(***************************************************************************)
(* Third pass: the candidates, in sorted chunks                            *)
(***************************************************************************)

\* The place in the list of Tier B, 0 for none.
TierBRank(p) ==
  IF p \in tierB THEN Cardinality({r \in tierB : Before(r, p)}) + 1 ELSE 0

Row(p) ==
  [pair |-> p, q |-> [s \in Scope |-> qValue[s][p]],
   reasons |-> Reasons(p), rank |-> TierBRank(p)]

\* A buffer is written as a chunk when it is full.
Emit(p) ==
  /\ phase = "emit" /\ Drafted(p)
  /\ IF (Reasons(p) = {} /\ TierBRank(p) # 0) \/ (p \in tierA) # (Reasons(p) = {})
       THEN Refuse
       ELSE /\ read' = read \cup {p}
            /\ lines' = lines \cup {Row(p)}
            /\ IF Cardinality(buffer) + 1 >= ChunkSize
                 THEN chunk' = Append(chunk, buffer \cup {p}) /\ buffer' = {}
                 ELSE buffer' = buffer \cup {p} /\ UNCHANGED chunk
            /\ UNCHANGED <<phase, count, adjustment, tiers, merge>>
  /\ UNCHANGED <<inputs, findings>>

\* Mutant: what is left in the buffer is forgotten.
EndEmitFull ==
  /\ phase = "emit" /\ Exhausted
  /\ IF chunk = <<>>
       THEN Refuse
       ELSE /\ phase' = "merge" /\ buffer' = {}
            /\ UNCHANGED <<read, count, adjustment, tiers, lines, chunk, merge>>
  /\ UNCHANGED <<inputs, findings>>

EndEmit ==
  /\ phase = "emit" /\ Exhausted
  /\ IF chunk = <<>> /\ buffer = {}
       THEN Refuse
       ELSE /\ phase' = "merge" /\ buffer' = {}
            /\ chunk' = IF buffer = {} THEN chunk ELSE Append(chunk, buffer)
            /\ UNCHANGED <<read, count, adjustment, tiers, lines, merge>>
  /\ UNCHANGED <<inputs, findings>>

(***************************************************************************)
(* The merge of the chunks                                                 *)
(***************************************************************************)

\* The first line of every chunk goes to the heap.
OpenChunk(p) ==
  LET i == opened + 1
  IN /\ phase = "merge" /\ i <= Len(chunk) /\ IsFirst(p, chunk[i])
     /\ heap' = heap \cup {<<p, i>>}
     /\ chunk' = [chunk EXCEPT ![i] = @ \ {p}]
     /\ opened' = i
     /\ UNCHANGED <<inputs, phase, read, count, adjustment, tiers, lines, buffer,
                    merged, findings>>

\* The next line of the chunk that the line came from takes its place.
Refill(h) ==
  \/ /\ chunk[h[2]] = {}
     /\ heap' = heap \ {h}
     /\ UNCHANGED chunk
  \/ \E p \in chunk[h[2]] :
       /\ IsFirst(p, chunk[h[2]])
       /\ heap' = (heap \ {h}) \cup {<<p, h[2]>>}
       /\ chunk' = [chunk EXCEPT ![h[2]] = @ \ {p}]

Pop(h) ==
  /\ phase = "merge" /\ opened = Len(chunk)
  /\ h \in heap /\ \A g \in heap : ~Before(g[1], h[1])
  /\ IF merged # <<>> /\ ~Before(merged[Len(merged)], h[1])
       THEN Refuse
       ELSE /\ merged' = Append(merged, h[1])
            /\ Refill(h)
            /\ UNCHANGED <<phase, read, count, adjustment, tiers, lines, buffer, opened>>
  /\ UNCHANGED <<inputs, findings>>

\* The file has its name before its length is compared.
PublishRanking ==
  /\ phase = "merge" /\ opened = Len(chunk) /\ heap = {}
  /\ phase' = IF Len(merged) = count THEN "published" ELSE "refused"
  /\ UNCHANGED <<inputs, read, count, adjustment, tiers, chunks, merge, findings>>

(***************************************************************************)
(* The validation, from the ledgers                                        *)
(***************************************************************************)
Population == ledger["evidence"]

\* row_number() over the p-values.
PlaceOf(s, p) == Cardinality({r \in Population : r = p \/ Smaller(s, r, p)})

Quotient(s, p) ==
  AtMost(Cardinality(Population) * (draft[p].p[s] \div PlaceOf(s, p)), One)

\* The least quotient from the place of p on.
ExpectedQ(s, p) ==
  LET Q == {Quotient(s, r) : r \in {x \in Population : PlaceOf(s, x) >= PlaceOf(s, p)}}
  IN CHOOSE q \in Q : \A x \in Q : q <= x

ExpectedReasons(p) ==
  ExclusionReasons(draft[p], ExpectedQ("full", p), ExpectedQ("remove_all_english", p))

Pool ==
  {p \in Population : ExpectedReasons(p) # {} /\ draft[p].unknown /\ ~draft[p].basic}

ExpectedPlace(P, p) == Cardinality({r \in P : Before(r, p)}) + 1

ExpectedTierB == {p \in Pool : ExpectedPlace(Pool, p) <= TierBSize}

ExpectedRow(p) ==
  [pair |-> p, q |-> [s \in Scope |-> ExpectedQ(s, p)],
   reasons |-> ExpectedReasons(p),
   rank |-> IF p \in ExpectedTierB THEN ExpectedPlace(Pool, p) ELSE 0]

Ranked == {merged[i] : i \in 1..Len(merged)}
Written == {row \in lines : row.pair \in Ranked}

Findings ==
  {f \in {"population", "output-order", "row", "tier-b-size"} :
     \/ f = "population" /\ (Ranked # Population \/ Len(merged) # Cardinality(Ranked))
     \/ f = "output-order" /\ \E i \in 1..Len(merged) : i # ExpectedPlace(Population, merged[i])
     \/ f = "row" /\ \E row \in Written : row # ExpectedRow(row.pair)
     \/ f = "tier-b-size" /\ Cardinality({row \in Written : row.rank # 0})
                               # Cardinality(ExpectedTierB)}

ValidateRanking ==
  /\ phase = "published"
  /\ phase' = "validated"
  /\ findings' = Findings
  /\ UNCHANGED <<inputs, read, count, adjustment, tiers, chunks, merge>>

EnsembleNext ==
  \/ \E p \in Pair : Gather(p) \/ Adjust(p) \/ Tier(p) \/ Emit(p) \/ OpenChunk(p)
  \/ \E h \in heap : Pop(h)
  \/ StreamBreaks \/ EndGather \/ EndAdjust \/ EndTier \/ EndEmit
  \/ PublishRanking \/ ValidateRanking

EnsembleSpec == EnsembleInit /\ [][EnsembleNext]_ensembleVars

(***************************************************************************)
(* Properties                                                              *)
(***************************************************************************)
Phase == {"gather", "adjust", "tier", "emit", "merge", "published", "validated", "refused"}

EnsembleTypeOK ==
  /\ ledger \in [Ledger -> SUBSET Pair] /\ draft \in [Pair -> Draft]
  /\ faulty \subseteq Pair /\ claimed \in Nat
  /\ phase \in Phase /\ read \subseteq Pair /\ count \in Nat
  /\ scope \in Scope /\ left \subseteq Pair /\ running \in 0..One
  /\ qValue \in [Scope -> [Pair -> 0..One]]
  /\ tierA \subseteq Pair /\ tierB \subseteq Pair
  /\ buffer \subseteq Pair /\ chunk \in Seq(SUBSET Pair)
  /\ opened \in 0..Len(chunk) /\ heap \subseteq Pair \X (1..Len(chunk))
  /\ merged \in Seq(Pair)

\* The ledgers are about one population, of a size that is allowed and stated,
\* and every row has its provenance.
Sound ==
  /\ \A s \in Scope : ledger[s] = Population
  /\ Population # {} /\ Population \cap faulty = {}
  /\ claimed = Cardinality(Population) /\ claimed <= MaximumPairs

\* "The small in-memory implementation ... remains the executable oracle"
\* (disk_ensemble.py:3).  Ledgers that belong together are never refused, by
\* whichever check of whichever pass, others always; and in what is published,
\* order, q-values, tiers and ranks are those the validation computes from the
\* whole population.
OutcomeIsRight ==
  /\ phase = "refused" => ~Sound
  /\ phase \in {"published", "validated"} => Sound /\ findings = {}

\* What Tier A takes for significant is what the step-up procedure of
\* Benjamini and Hochberg rejects: a pair is at or before one whose p-value is
\* at most its place's share of the limit.
DiscoveriesAreStepUp ==
  phase \in {"tier", "emit", "merge", "published", "validated"} =>
    \A s \in Scope, p \in Population :
      qValue[s][p] <= QLimit <=>
        \E r \in Population :
          /\ PlaceOf(s, p) <= PlaceOf(s, r)
          /\ Cardinality(Population) * draft[r].p[s] <= QLimit * PlaceOf(s, r)
=============================================================================
