----------------------------- MODULE Reconcile -----------------------------
(***************************************************************************)
(* The reconciliation gate (reconcile, suggest_reconcile_settings and the  *)
(* route over them).  Two engines that cannot be joined are compared by    *)
(* what each can compute alone: the columns, the number of rows, the       *)
(* duplicate and null keys and a few aggregates of every column.           *)
(*                                                                         *)
(* Each is a query of its own and nothing stops a build of the candidate   *)
(* between two of them.  A table is its column types and the rows the      *)
(* filter leaves; a value is a number or Null.  Tolerances of values are   *)
(* far below the distance of two values here, so values compare exactly.   *)
(***************************************************************************)
EXTENDS Integers, FiniteSets, SequencesExt

CONSTANTS
  Requests,      \* the requests: sequences of pairs of tables to compare
  IdColumns,     \* the columns the name of a table suggests as its key, best first
  Surrogates,    \* columns whose name says their values differ between engines
  Null

\* A request is a list of pairs, and the rows of a table are a list.
IsList(s) == s \in Seq(ToSet(s))
ASSUME RequestsAssumption ==
  \A r \in Requests :
    /\ IsList(r)
    /\ \A p \in ToSet(r) : IsList(p.source.rows) /\ IsList(p.candidate.rows) /\ IsList(p.rebuilt)

VARIABLES
  pairs,         \* the request
  now,           \* the rows of the candidate of the pair at hand
  moved,         \* history: it was rebuilt while it was compared
  rec,           \* the comparison at hand
  results        \* a verdict for each pair dealt with

recVars == <<pairs, now, moved, rec, results>>

Sides == {"source", "candidate"}
Pair == pairs[Len(results) + 1]
Blank == [pc |-> "pair", key |-> {}, cols |-> [s \in Sides |-> <<>>], asked |-> 0,
          counts |-> [s \in Sides |-> 0], badKeys |-> [s \in Sides |-> 0],
          agg |-> [s \in Sides |-> <<>>], failures |-> {}]

FirstRows(r) == IF r = <<>> THEN <<>> ELSE Head(r).candidate.rows

NotCompared == now = FirstRows(pairs) /\ moved = FALSE /\ rec = Blank /\ results = <<>>
RecInit == pairs \in Requests /\ NotCompared

\* Foreign keys are checked whatever the comparison found.
Onwards == IF Pair.orphans = <<>> THEN "verdict" ELSE "references"

RowsOn(side) == IF side = "source" THEN Pair.source.rows ELSE now

\* Mutant: a fingerprint without the sums of squares.
AggregatesNoSquares(rows, c, numeric) ==
  LET filled == {i \in DOMAIN rows : rows[i][c] # Null}
      values == {rows[i][c] : i \in filled}
  IN  [nonnull |-> Cardinality(filled), distinct |-> Cardinality(values),
       min |-> IF values = {} THEN Null ELSE Min(values),
       max |-> IF values = {} THEN Null ELSE Max(values),
       sum |-> MapThenSumSet(LAMBDA i : rows[i][c], filled)]

\* The aggregates of one column: NULLs are counted and otherwise ignored, as
\* SQL does, and those over no value at all are NULL.
Aggregates(rows, c, numeric) ==
  LET filled == {i \in DOMAIN rows : rows[i][c] # Null}
      values == {rows[i][c] : i \in filled}
      total(f(_)) == IF filled = {} THEN Null ELSE MapThenSumSet(LAMBDA i : f(rows[i][c]), filled)
      base == ("nonnull" :> Cardinality(filled)) @@ ("nulls" :> Len(rows) - Cardinality(filled))
              @@ ("distinct" :> Cardinality(values))
              @@ ("min" :> IF values = {} THEN Null ELSE Min(values))
              @@ ("max" :> IF values = {} THEN Null ELSE Max(values))
  IN  IF numeric
      THEN base @@ ("sum" :> total(LAMBDA v : v)) @@ ("sumsq" :> total(LAMBDA v : v * v))
      ELSE base

\* Groups of more than one row under one key, and rows with a part of it NULL.
BadKeys(rows, key) ==
  LET keyOf(i) == [c \in key |-> rows[i][c]]
      groups == {keyOf(i) : i \in DOMAIN rows}
  IN  IF key = {} THEN 0
      ELSE Cardinality({g \in groups : Cardinality({i \in DOMAIN rows : keyOf(i) = g}) > 1})
           + Cardinality({i \in DOMAIN rows : \E c \in key : rows[i][c] = Null})

Cols(side) == DOMAIN rec.cols[side]
Numeric(side, c) == rec.cols[side][c] = "num"
Shared == (Cols("source") \cap Cols("candidate")) \ (Pair.exclude \cup (Surrogates \cap Cols("candidate")))
\* The keys are aggregated only when nothing else is left.
Compared == IF Shared \ rec.key # {} THEN Shared \ rec.key ELSE Shared
ComparedAsNumber(c) == \A s \in Sides : Numeric(s, c)

SuggestedKey(columns) ==
  LET there == SelectSeq(IdColumns, LAMBDA c : c \in columns)
  IN  IF there = <<>> THEN {} ELSE {Head(there)}

NextPair(verdict) ==
  /\ results' = Append(results, verdict)
  /\ rec' = Blank
  /\ moved' = FALSE
  /\ now' = FirstRows(SubSeq(pairs, Len(results) + 2, Len(pairs)))

\* A filter the guard refuses, or a name that is missing.
RefusePair ==
  /\ Len(results) < Len(pairs) /\ rec.pc = "pair" /\ Pair.refused
  /\ NextPair(FALSE)
  /\ UNCHANGED pairs

\* A catalogue that does not answer reads as a table without columns.
ReadColumns ==
  /\ Len(results) < Len(pairs) /\ rec.pc = "pair" /\ ~Pair.refused
  /\ \E read \in SUBSET Sides :
       LET cols == [s \in Sides |-> IF s \in read THEN Pair[s].types ELSE <<>>]
       IN  rec' = [rec EXCEPT !.pc = "parity", !.cols = cols,
                     !.key = IF Pair.key # {} THEN Pair.key
                             ELSE SuggestedKey(DOMAIN cols["candidate"])]
  /\ UNCHANGED <<pairs, now, moved, results>>

Unreadable == \E s \in Sides : Cols(s) = {}
OneSided == (Cols("source") \cup Cols("candidate")) \ (Cols("source") \cap Cols("candidate"))
Drifted == {c \in Cols("source") \cap Cols("candidate") : Numeric("source", c) # Numeric("candidate", c)}

\* Which columns there are, and which flipped between number and text.  With a
\* side or a key that cannot be read there is nothing to query.
CheckSchema ==
  /\ rec.pc = "parity"
  /\ LET keyless == ~Unreadable /\ ~(rec.key \subseteq Cols("source") \cap Cols("candidate"))
         bad == (IF Unreadable THEN {"columns"} ELSE {})
                \cup (IF ~Unreadable /\ OneSided # {} THEN {"parity"} ELSE {})
                \cup (IF ~Unreadable /\ Drifted # {} THEN {"drift"} ELSE {})
                \cup (IF keyless THEN {"key"} ELSE {})
     IN  rec' = [rec EXCEPT !.failures = bad,
                            !.pc = IF Unreadable \/ keyless THEN Onwards ELSE "query"]
  /\ UNCHANGED <<pairs, now, moved, results>>

\* Three queries for the source, then three for the candidate: rows, keys and
\* aggregates.
SideAsked == IF rec.asked < 3 THEN "source" ELSE "candidate"
Query ==
  /\ rec.pc = "query"
  /\ LET s == SideAsked
         next == IF rec.asked = 5 THEN "compare" ELSE "query"
         answered == [rec EXCEPT !.asked = @ + 1, !.pc = next]
     IN  rec' = CASE rec.asked % 3 = 0 -> [answered EXCEPT !.counts[s] = Len(RowsOn(s))]
                  [] rec.asked % 3 = 1 -> [answered EXCEPT !.badKeys[s] = BadKeys(RowsOn(s), rec.key)]
                  [] OTHER -> [answered EXCEPT !.agg[s] =
                       [c \in Compared |-> Aggregates(RowsOn(s), c, ComparedAsNumber(c))]]
  /\ UNCHANGED <<pairs, now, moved, results>>

QueryFails ==
  /\ rec.pc = "query"
  /\ rec' = [rec EXCEPT !.pc = Onwards, !.failures = @ \cup {SideAsked}]
  /\ UNCHANGED <<pairs, now, moved, results>>

RowsDiffer ==
  LET s == rec.counts["source"] c == rec.counts["candidate"]
  IN  (IF c > s THEN c - s ELSE s - c) * 100 > Pair.tolerance * (IF s = 0 THEN 1 ELSE s)
Differing == {c \in Compared : rec.agg["source"][c] # rec.agg["candidate"][c]}

\* An empty side is reported alone: every column would differ.
Compare ==
  /\ rec.pc = "compare"
  /\ LET empty == \E s \in Sides : rec.counts[s] = 0
     IN  rec' = [rec EXCEPT !.pc = Onwards,
                   !.failures = @ \cup
                     (IF empty THEN {"empty"}
                      ELSE (IF RowsDiffer THEN {"rows"} ELSE {})
                           \cup (IF \E s \in Sides : rec.badKeys[s] > 0 THEN {"keys"} ELSE {})
                           \cup Differing)]
  /\ UNCHANGED <<pairs, now, moved, results>>

\* Foreign keys of the candidate.  A check that cannot be made passes.
CheckContainment ==
  /\ rec.pc = "references"
  /\ \E answered \in BOOLEAN :
       rec' = [rec EXCEPT !.pc = "verdict",
                 !.failures = IF answered /\ \E i \in DOMAIN Pair.orphans : Pair.orphans[i] > 0
                              THEN @ \cup {"orphans"} ELSE @]
  /\ UNCHANGED <<pairs, now, moved, results>>

Report ==
  /\ rec.pc = "verdict"
  /\ NextPair(rec.failures = {})
  /\ UNCHANGED pairs

\* A build replaces the rows of the candidate: external to the comparison.
Rebuild ==
  /\ rec.pc \in {"query", "compare", "references"} /\ ~moved /\ Pair.rebuilt # now
  /\ now' = Pair.rebuilt /\ moved' = TRUE
  /\ UNCHANGED <<pairs, rec, results>>

RecNext ==
  \/ RefusePair \/ ReadColumns \/ CheckSchema \/ Query \/ QueryFails
  \/ Compare \/ CheckContainment \/ Report \/ Rebuild

RecSpec == RecInit /\ [][RecNext]_recVars

Reported == Len(results) = Len(pairs)
AllPassed == Reported /\ results # <<>> /\ \A i \in DOMAIN results : results[i]
-----------------------------------------------------------------------------
\* The values of a column, each with how often it occurs.
BagOf(rows, c) == [v \in {rows[i][c] : i \in DOMAIN rows} |->
                     Cardinality({i \in DOMAIN rows : rows[i][c] = v})]

\* The comparison at hand found two tables of the same columns, each of one kind
\* on both sides, with rows in the source and no key twice or NULL; and, if the
\* candidate was not rebuilt meanwhile, the same fingerprint of each column.
Alike ==
  /\ Cols("source") = Cols("candidate") /\ Drifted = {} /\ rec.key \subseteq Cols("source")
  /\ Pair.source.rows # <<>> /\ BadKeys(Pair.source.rows, rec.key) = 0
  /\ ~moved =>
       /\ now # <<>> /\ BadKeys(now, rec.key) = 0
       /\ \A c \in Compared : Aggregates(Pair.source.rows, c, ComparedAsNumber(c))
                                = Aggregates(now, c, ComparedAsNumber(c))

\* No pair passes but on what was asked of both sides, whatever failed and was
\* rebuilt on the way; the gate is passed by no empty request and past no pair
\* that could not be compared (reconcile, sfglue_reconcile).
PassIsEarned ==
  /\ rec.pc = "verdict" /\ rec.failures = {} => Alike
  /\ AllPassed => /\ pairs # <<>>
                  /\ \A i \in DOMAIN pairs : ~pairs[i].refused /\ pairs[i].source.rows # <<>>

\* A pass is earned, and past a comparison during which nothing was rebuilt it
\* means that each compared numeric column has the same values the same number of
\* times: true of columns of up to four small numbers, where no two have the same
\* count, range, cardinality, sum and sum of squares.
PassMeansSame ==
  /\ PassIsEarned
  /\ rec.pc = "verdict" /\ rec.failures = {} /\ ~moved =>
       \A c \in Compared : ComparedAsNumber(c) => BagOf(Pair.source.rows, c) = BagOf(now, c)
=============================================================================
