--------------------------- MODULE SoftPartitions ---------------------------
(***************************************************************************)
(* createPartitions, which UpMSU3, UpWMSU3, UpOLL and UpWBO share word for  *)
(* word: the order in which the soft clauses enter a search.  There is one  *)
(* slot per label and one more, the slot nPartitions, for the soft clauses  *)
(* that have no label; the non-empty slots are sorted by size, then by      *)
(* number.                                                                  *)
(***************************************************************************)
EXTENDS Integers, FiniteSets

CONSTANTS
    Soft,           \* the soft clauses
    nPartitions     \* MaxSATFormula::nPartitions(), the largest label

ASSUME SoftAssumption == IsFiniteSet(Soft) /\ Soft # {}
ASSUME PartitionAssumption == nPartitions \in Nat

VARIABLE label      \* Soft::_partition, -1 when the input gives none

\* soft_partitions_tmp[v]
SlotOf(i) == IF label[i] = -1 THEN nPartitions ELSE label[i]

Slot(v) == {i \in Soft : SlotOf(i) = v}

UsedSlots == {v \in 0..nPartitions : Slot(v) # {}}

Before(v, w) ==
    \/ Cardinality(Slot(v)) < Cardinality(Slot(w))
    \/ Cardinality(Slot(v)) = Cardinality(Slot(w)) /\ v < w

Position(v) == Cardinality({w \in UsedSlots : Before(w, v)})

\* soft_partitions[k], the partition that is the k-th to enter
SoftPartition(k) == {i \in Soft : Position(SlotOf(i)) = k}

nSoftPartitions == Cardinality(UsedSlots)

InitLabels == label \in [Soft -> -1..nPartitions]
=============================================================================
