---------------------------- MODULE MCEngineApi ----------------------------
(***************************************************************************)
(* Instances of EngineApi.                                                 *)
(***************************************************************************)
EXTENDS EngineApi, TLC

(* Layouts, schemas, threads and the expressions that compile are          *)
(* interchangeable.                                                        *)
Symmetry ==
    Permutations(Layouts) \cup Permutations(Schemas) \cup Permutations(Callers)
      \cup Permutations(Compilable)

(* Bound: what is set in an engine at a time, counted in schemas           *)
(* registered, different layouts, expressions and, twice, thresholds.      *)
SetIn(e) ==
    Cardinality({s \in Schemas : metadata[e][s] # None})
      + Cardinality({l \in Layouts : \E s \in Schemas : l \in {registry[e][s], metadata[e][s]}})
      + Cardinality(Bound(e))
      + 2 * Cardinality({s \in Schemas : compiled[e][s] # None})

FiveSet == \A e \in Engines : SetIn(e) <= 5

=============================================================================
