-------------------------- MODULE MCExecutionModes --------------------------
(***************************************************************************)
(* Instances of ExecutionModes: two-bit values in blocks of two rows, and  *)
(* expressions that use every node kind that has code and some that have   *)
(* none, share nodes, mix mask slots with blocks of planes, overflow the   *)
(* register cache, exhaust the slots and run out of carry registers.       *)
(***************************************************************************)
EXTENDS ExecutionModes

Op(k, args) == Node(k, args, 0)

Leaves == <<Load("a"), Load("b"), Const(2)>>

(* Every comparison of the fields and of a field with a constant.          *)
Compares == {Leaves \o <<Op(k, <<1, m>>)>> : k \in Comparisons, m \in {2, 3}}

(* Arithmetic under a comparison, and as the result.                       *)
Arithmetics ==
    {Leaves \o <<Op(k, <<1, 2>>)>> : k \in {"ADD", "SUB"}}
      \cup {Leaves \o <<Op("ADD", <<1, 2>>), Op("SUB", <<4, 3>>), Op("GE", <<5, 1>>)>>}

(* Three masks alive at once, one of them shared and negated.              *)
Logics ==
    {Leaves \o <<Op("GT", <<1, 2>>), Op("EQ", <<1, 3>>), Op("NOT", <<5>>),
                 Op(k, <<4, 6>>), Op("LE", <<2, 3>>), Op(j, <<7, 8>>), Op("AND", <<9, 4>>)>> :
       k \in {"AND", "OR"}, j \in {"AND", "OR"}}

(* Masks before blocks of planes, an odd number of them also, so that a    *)
(* block leaves a hole that a later mask fills; a SELECT that is compared. *)
Selects ==
    {Leaves \o <<Op("GT", <<1, 3>>), Op("NOT", <<4>>), Op("SELECT", <<1, 2, 5>>),
                 Op("EQ", <<6, 1>>)>>} \cup
    {Leaves \o <<Op("GT", <<1, 3>>), Op("SELECT", <<1, 2, 4>>)>>,
     Leaves \o <<Op("LT", <<1, 2>>), Op("ADD", <<1, 3>>), Op("SELECT", <<5, 2, 4>>),
                 Op("GT", <<6, 1>>), Op("AND", <<7, 4>>)>>}

(* Forests: weighted votes, with and without a constant.                   *)
Votes == <<Load("a"), Load("b"), Const(2), Const(1), Const(3),
           Op("GT", <<1, 3>>), Op("LE", <<2, 4>>),
           Op("SELECT", <<5, 4, 6>>), Op("SELECT", <<3, 5, 7>>),
           Node("EQ", <<1, 2>>, 5), Op("SUM", <<8, 9, 10>>)>>

Sums == {Votes, Votes \o <<Op("ADD", <<11, 5>>)>>}

(* Needs more slots than there are.                                        *)
Large ==
    {Leaves \o <<Op("ADD", <<1, 2>>), Op("ADD", <<4, 3>>), Op("GT", <<4, 5>>),
                 Op("SELECT", <<4, 5, 6>>), Op("SELECT", <<7, 4, 6>>), Op("LT", <<8, 2>>),
                 Op("SELECT", <<7, 8, 9>>), Op("GE", <<10, 1>>)>>}

(* More additions than there are carry registers.                          *)
Carries ==
    {Leaves \o <<Op("ADD", <<1, 2>>), Op("ADD", <<4, 3>>), Op("SUB", <<5, 1>>)>>}

(* Operators without code, read by a comparison, by an addition and as the *)
(* result; a SUM below the root.                                           *)
Unimplemented ==
    {Leaves \o <<Op("GT", <<1, 2>>), Op("MUL", <<1, 2>>), Op("LE", <<5, 3>>), Op("OR", <<4, 6>>)>>,
     Leaves \o <<Node("LSL", <<1>>, 1), Op("ADD", <<4, 2>>)>>,
     Leaves \o <<Op("EQ", <<1, 2>>), Op("POPCNT", <<4>>)>>,
     Leaves \o <<Node("EQ", <<1, 2>>, 1), Op("SUM", <<4>>), Op("GE", <<5, 1>>)>>}

(* A difference under a negation.                                          *)
Negated == {Leaves \o <<Op("SUB", <<1, 2>>), Op("EQ", <<4, 3>>), Op("NOT", <<5>>)>>}

(* More fields than a kernel can address.                                  *)
Wide == {<<Load("a"), Load("b"), Load("c"), Op("ADD", <<1, 2>>), Op("GT", <<3, 4>>)>>}

MCExprs == Compares \cup Arithmetics \cup Logics \cup Selects \cup Sums \cup Large \cup Carries
             \cup Unimplemented \cup Wide

(* Any values of a in the two rows; those of b in ascending order.         *)
MCBlocks == {d \in [{"a", "b"} -> [0 .. 1 -> 0 .. 3]] : d["b"][0] <= d["b"][1]}

MCMoreBlocks ==
    {[f \in {"a", "b"} |-> [r \in 0 .. 1 |-> IF f = "a" THEN 3 - r ELSE 2]],
     [f \in {"a", "b"} |-> [r \in 0 .. 1 |-> IF f = "b" THEN 1 + r ELSE 0]]}

=============================================================================
