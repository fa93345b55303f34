---------------------------- MODULE MCGpuKernel ----------------------------
(***************************************************************************)
(* Instances of GpuKernel: SIMD-groups of four lanes, so blocks of eight   *)
(* rows of eight-bit values, and two strides in a scan.                    *)
(***************************************************************************)
EXTENDS GpuKernel

Op(k, args) == Node(k, args, 0)

Leaves == <<Load("a"), Load("b"), Const(150), Const(9), Const(2)>>

(* Votes on comparisons of fields, sums and differences.                   *)
Forests ==
    {Leaves \o <<Node(k, <<1, 2>>, 5), Op("SUM", <<6>>)>> : k \in Comparisons} \cup
    {Leaves \o <<Op(k, <<1, 2>>), Op("GT", <<6, 3>>), Op("LT", <<1, 2>>),
                 Op("SELECT", <<4, 5, 7>>), Node("NOT", <<8>>, 3), Op("SUM", <<9, 10>>),
                 Op("ADD", <<11, 5>>)>> : k \in {"ADD", "SUB"}} \cup
    {Leaves \o <<Op("GE", <<2, 3>>), Op("SELECT", <<1, 3, 6>>), Op("EQ", <<7, 1>>),
                 Op("OR", <<8, 6>>), Node("AND", <<9, 8>>, 4), Op("SUM", <<10>>)>>}

(* Fewer fields than the schema has, and a root that is not a SUM.         *)
Others ==
    {<<Load("b"), Const(150), Node("GT", <<1, 2>>, 3), Op("SUM", <<3>>)>>,
     Leaves \o <<Op("GT", <<1, 2>>)>>}

(* Sums of three terms: two additions without a comparison in between.     *)
Chains ==
    {Leaves \o <<Op("ADD", <<1, 2>>), Op("ADD", <<6, 2>>), Node("GT", <<7, 3>>, 1),
                 Op("SUM", <<8>>)>>}

MCExprs == Forests \cup Others \cup Chains

Column(x, step) == [k \in 0 .. 1 |-> [r \in 0 .. 7 |-> (x + step * (r + 8 * k)) % 256]]

MCColumns ==
    {[f \in {"a", "b"} |-> IF f = "a" THEN Column(x, 37) ELSE Column(y, 19)] :
       x \in {0, 15, 101, 240}, y \in {1, 128, 255}}

=============================================================================
