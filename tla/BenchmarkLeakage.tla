-------------------------- MODULE BenchmarkLeakage --------------------------
(***************************************************************************)
(* How the known-link benchmark keeps related relationships out of each    *)
(* other's partitions.  A relationship links two endpoints, each a closed  *)
(* range of one book.  benchmarks/leakage.py sweeps all ranges in order    *)
(* and writes a leakage group wherever two relationships meet;             *)
(* benchmarks/pipeline.py then gives every relationship a partition and    *)
(* excludes those that share a group with one of another partition.        *)
(*                                                                         *)
(* The sweep compares neither all pairs of ranges nor the numbers between  *)
(* a start and an end, and the exclusion takes no closure over groups: so  *)
(* that ranges which overlap never part is a matter of both together.      *)
(***************************************************************************)
EXTENDS Integers

CONSTANTS
  Relationship,
  Range,          \* ranges the endpoints may have: [book, start, end]
  EndpointPairs,  \* pairs of ranges a relationship may have
  HeldOut         \* the held-out partitions and "train": what a hash may say

Side == {1, 2}
Endpoint == Relationship \X Side

\* LeakageEndpoint.__post_init__: a positive, ordered range.  Books are
\* numbered as they sort; 0 stands for no book yet.
ASSUME LeakageAssumption ==
  /\ \A i \in Range : /\ i.book \in Nat \ {0}
                      /\ i.start \in Nat /\ i.end \in Nat /\ i.start <= i.end
  /\ EndpointPairs \subseteq [Side -> Range]
  /\ HeldOut \subseteq {"test", "development", "train"}

VARIABLES
  ends,           \* the ranges of every relationship
  pending,        \* endpoints the sweep has not come to
  book,           \* the book it is in
  active,         \* endpoints in the heap
  groups,         \* leakage groups written so far
  split,          \* whether the split has been generated
  base,           \* the partition before the groups are consulted
  partition       \* the partition that is written

sweepVars == <<ends, pending, book, active, groups>>
leakageVars == <<sweepVars, split, base, partition>>

RangeOf(e) == ends[e[1]][e[2]]

LeakageInit ==
  /\ ends \in [Relationship -> EndpointPairs]
  /\ pending = Endpoint
  /\ book = 0
  /\ active = {}
  /\ groups = {}
  /\ split = FALSE
  /\ base = [r \in Relationship |-> "none"]
  /\ partition = [r \in Relationship |-> "none"]

(***************************************************************************)
(* The sweep                                                               *)
(***************************************************************************)

\* Two ranges in the order of the sort.
Precedes(i, j) == i.book < j.book \/ (i.book = j.book /\ i.start <= j.start)

\* Endpoints with the smallest book and start of those that are left.
IsNext(e) == e \in pending /\ \A f \in pending : Precedes(RangeOf(e), RangeOf(f))

StartingWith(e) ==
  {f \in pending : RangeOf(f).book = RangeOf(e).book /\ RangeOf(f).start = RangeOf(e).start}

\* Mutant: a range is dropped at its last verse.
StillActiveHalfOpen(e) ==
  IF RangeOf(e).book # book THEN {}
  ELSE {f \in active : RangeOf(f).end > RangeOf(e).start}

\* The heap without what ended before the start; a new book empties it.
StillActive(e) ==
  IF RangeOf(e).book # book THEN {}
  ELSE {f \in active : RangeOf(f).end >= RangeOf(e).start}

Members(E) == {f[1] : f \in E}

\* One pass of the loop: all endpoints that start at one place.
Sweep(e) ==
  LET now == StillActive(e) \cup StartingWith(e)
  IN /\ IsNext(e)
     /\ pending' = pending \ StartingWith(e)
     /\ book' = RangeOf(e).book
     /\ active' = now
     /\ groups' = IF \E r, s \in Members(now) : r # s
                    THEN groups \cup {[book |-> RangeOf(e).book,
                                       start |-> RangeOf(e).start,
                                       members |-> Members(now)]}
                    ELSE groups
     /\ UNCHANGED <<ends, split, base, partition>>

(***************************************************************************)
(* The split                                                               *)
(***************************************************************************)
Priority(P) ==
  IF "test" \in P THEN "test"
  ELSE IF "development" \in P THEN "development" ELSE "train"

\* Strategy held_out_book; the hash of a book may be any partition.
ByBook(r, hash) == Priority({hash[ends[r][s].book] : s \in Side})

\* Strategy held_out_source_passage: ranges of several verses are out, and
\* so is a relationship whose passages are hashed apart.
ByPassage(r, hash) ==
  IF \/ \E s \in Side : ends[r][s].start # ends[r][s].end
     \/ hash[ends[r][1]] # hash[ends[r][2]]
    THEN "excluded" ELSE hash[ends[r][1]]

\* A group with eligible members of two partitions.
Crosses(g, part) ==
  \E r, s \in g.members :
    part[r] # "excluded" /\ part[s] # "excluded" /\ part[r] # part[s]

\* Mutant: the held-out rows keep their places, only the training rows go.
EnforcedOnTraining(part) ==
  [r \in Relationship |->
     IF part[r] = "train" /\ \E g \in groups : r \in g.members /\ Crosses(g, part)
       THEN "excluded" ELSE part[r]]

\* Every eligible member of such a group is excluded; the groups are judged
\* by the partitions from before any exclusion.
Enforced(part) ==
  [r \in Relationship |->
     IF \E g \in groups : r \in g.members /\ Crosses(g, part)
       THEN "excluded" ELSE part[r]]

Books == {i.book : i \in Range}
Passages == {i \in Range : i.start = i.end}

\* One frame of _iter_split_frames.  The relationships that are not eligible
\* are those of another tier or without a mapping.
Split ==
  /\ pending = {} /\ ~split
  /\ \E eligible \in SUBSET Relationship :
       \/ \E hash \in [Books -> HeldOut] :
            base' = [r \in Relationship |->
                       IF r \in eligible THEN ByBook(r, hash) ELSE "excluded"]
       \/ \E hash \in [Passages -> HeldOut] :
            base' = [r \in Relationship |->
                       IF r \in eligible THEN ByPassage(r, hash) ELSE "excluded"]
  /\ partition' = Enforced(base')
  /\ split' = TRUE
  /\ UNCHANGED sweepVars

LeakageNext == (\E e \in Endpoint : Sweep(e)) \/ Split

LeakageSpec == LeakageInit /\ [][LeakageNext]_leakageVars

(***************************************************************************)
(* Properties                                                              *)
(***************************************************************************)

Group == [book : Nat, start : Nat, members : SUBSET Relationship]
Partition == {"none", "excluded", "test", "development", "train"}

LeakageTypeOK ==
  /\ ends \in [Relationship -> EndpointPairs]
  /\ pending \subseteq Endpoint
  /\ book \in Nat
  /\ active \subseteq Endpoint
  /\ groups \subseteq Group
  /\ split \in BOOLEAN
  /\ base \in [Relationship -> Partition]
  /\ partition \in [Relationship -> Partition]

Overlap(i, j) == i.book = j.book /\ i.start <= j.end /\ j.start <= i.end
Related(r, s) == \E a, b \in Side : Overlap(ends[r][a], ends[s][b])

\* Two relationships share a group exactly if a range of the one overlaps a
\* range of the other: the sweep misses no overlap (ranges that touch in one
\* verse, nest, repeat, or are both of one relationship) and invents none
\* (across books, or through a third range).
GroupsAreExact ==
  pending = {} =>
    \A r, s \in Relationship :
      r # s => (Related(r, s) <=> \E g \in groups : {r, s} \subseteq g.members)

\* No two relationships with overlapping ranges are in different partitions
\* of a split, and one is excluded for the groups only if it is in a group
\* that crossed: nothing leaks, and nothing is lost for nothing.
SplitsDoNotLeak ==
  split =>
    \A r \in Relationship :
      /\ \A s \in Relationship :
           Related(r, s) => \/ "excluded" \in {partition[r], partition[s]}
                            \/ partition[r] = partition[s]
      /\ partition[r] # base[r] =>
           \E s, t \in Relationship : /\ Related(r, s) /\ Related(r, t)
                                      /\ base[s] # base[t]
                                      /\ "excluded" \notin {base[s], base[t]}
=============================================================================
