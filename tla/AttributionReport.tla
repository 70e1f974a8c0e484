------------------------- MODULE AttributionReport -------------------------
(***************************************************************************)
(* attribution.go: the signed report of what receipts weigh.  Weights are  *)
(* numbers of Grain-ths of a thousandth; the code compares thousandths.    *)
(* A difference of exactly a thousandth goes either way with the binary    *)
(* fractions of the code; here it passes.  Weights are not negative.       *)
(***************************************************************************)
EXTENDS Signatures, Integers, SequencesExt

CONSTANT Grain     \* how fine weights are, below a thousandth

ASSUME GrainAssumption == Grain \in Nat \ {0}

SumWeights(entries) ==
  LET sum[n \in 0..Len(entries)] ==
        IF n = 0 THEN 0 ELSE sum[n - 1] + entries[n].weight
  IN sum[Len(entries)]

\* roundTo3, half up.
RoundTo3(x) == ((2 * x + Grain) \div (2 * Grain)) * Grain

AbsDiff(x, y) == IF x < y THEN y - x ELSE x - y

\* Mutant of WeightOk: the tolerance is a hundredth.
WeightRoughlyOk(report) ==
  AbsDiff(report.totalWeight, RoundTo3(SumWeights(report.entries))) <= 10 * Grain

\* The total is within a thousandth of the rounded sum.
WeightOk(report) ==
  AbsDiff(report.totalWeight, RoundTo3(SumWeights(report.entries))) <= Grain

EntriesHash(entries) == CanonicalHash([entries |-> entries])

\* SignReport signs what it is given.
SignReport(report, privateKey) ==
  [report |-> report, signature |-> Sign(privateKey, report)]

\* VerifyAttributionReport.
VerifyReport(r, publicKey) ==
  /\ Verifies(r.signature, r.report, publicKey)
  /\ r.report.receiptCount = Len(r.report.entries)
  /\ WeightOk(r.report)
  /\ r.report.entriesHash # Null
       => r.report.entriesHash = EntriesHash(r.report.entries)
=============================================================================
