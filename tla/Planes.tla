------------------------------- MODULE Planes -------------------------------
(***************************************************************************)
(* The elevation clusters behind suggested floor levels: dbscan_elevations *)
(* of backend/app/assistance.py, one pass over the sorted elevations, next *)
(* to the definition of density-based clustering it computes.              *)
(***************************************************************************)
EXTENDS Integers, Sequences, FiniteSets, FiniteSetsExt

CONSTANTS
    Eps,        \* eps, the tolerance
    MinSamples, \* min_samples
    MaxPoints,  \* bound of the model: points
    MaxValue    \* bound of the model: elevations 0..MaxValue

ASSUME PlaneShape == Eps \in Nat /\ MinSamples \in Nat
                     /\ MaxPoints \in Nat /\ MaxValue \in Nat

Noise == -1

\* The elevations in ascending order.
Inputs == {v \in UNION {[1..n -> 0..MaxValue] : n \in 1..MaxPoints} :
              \A i \in 2..Len(v) : v[i - 1] <= v[i]}

\* Slip: the window leaves out what is exactly eps away.
OpenWindow(v, i) == {k \in DOMAIN v : v[k] - v[i] < Eps /\ v[i] - v[k] < Eps}

\* left[i] .. right[i] - 1: the points within eps, the point itself included.
Window(v, i) == {k \in DOMAIN v : v[k] - v[i] <= Eps /\ v[i] - v[k] <= Eps}

Core(v) == {i \in DOMAIN v : Cardinality(Window(v, i)) >= MinSamples}

\* A core point opens a cluster when the core point before it is too far.
Opens(v, i) == \A k \in Core(v) : k < i => v[i] - v[k] > Eps

CoreLabel(v, i) == Cardinality({k \in Core(v) : k <= i /\ Opens(v, k)}) - 1

\* A border point joins the cluster of the first core point near it.
Label(v, i) ==
    LET nearby == Core(v) \cap Window(v, i)
    IN IF i \in Core(v) THEN CoreLabel(v, i)
       ELSE IF nearby # {} THEN CoreLabel(v, Min(nearby)) ELSE Noise

-----------------------------------------------------------------------------
\* Core points that a chain of core points, each within eps of the one before,
\* connects: those in every set that holds the first and is closed.
Closed(v, set) == \A m \in set, k \in Core(v) : k \in Window(v, m) => k \in set

Connected(v, i) ==
    {k \in Core(v) : \A set \in SUBSET Core(v) : i \in set /\ Closed(v, set) => k \in set}

\* The clusters are the density-connected sets: two core points have one label
\* exactly when a chain of core points connects them, a border point has the
\* label of a core point within eps of it, what has no core point near is
\* noise, and the labels are 0, 1, ... without a gap.
LabelsAreExact ==
    \A v \in Inputs :
        /\ \A i, k \in Core(v) : Label(v, i) = Label(v, k) <=> k \in Connected(v, i)
        /\ \A i \in DOMAIN v \ Core(v) :
              IF \A k \in Core(v) : v[k] - v[i] > Eps \/ v[i] - v[k] > Eps
              THEN Label(v, i) = Noise
              ELSE \E k \in Core(v) : /\ Label(v, k) = Label(v, i)
                                      /\ v[k] - v[i] <= Eps /\ v[i] - v[k] <= Eps
        /\ LET labels == {Label(v, i) : i \in Core(v)}
           IN labels = 0..(Cardinality(labels) - 1)
=============================================================================
