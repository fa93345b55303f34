---------------------------- MODULE MCGpuParity ----------------------------
(***************************************************************************)
(* An instance of GpuParity: a few expressions of each kind on two columns *)
(* of the blocks of MCGpuKernel.                                           *)
(***************************************************************************)
EXTENDS MCGpuKernel, GpuParity

(* One expression for each feature on which the CPU may differ.            *)
Doubtful ==
    Others \cup Chains \cup
    {Leaves \o <<Node("LE", <<1, 2>>, 5), Op("SUM", <<6>>)>>} \cup
    {Leaves \o <<Op(k, <<1, 2>>), Node("GT", <<6, m>>, 1), Op("SUM", <<7>>)>> :
       k \in {"ADD", "SUB"}, m \in {1, 3}}

FewColumns ==
    {[f \in {"a", "b"} |-> IF f = "a" THEN Column(x, 37) ELSE Column(1, 19)] : x \in {0, 149}}

=============================================================================
