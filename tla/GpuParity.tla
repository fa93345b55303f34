----------------------------- MODULE GpuParity -----------------------------
(***************************************************************************)
(* One query after another on the GPU, each compared with the CPU's count  *)
(* of the same block.  The queries are taken in the order of Deviating:    *)
(* each has one of the features of GpuKernel on which the two may differ,  *)
(* and the next one is asked when they did.  The undefined shuffle is not  *)
(* among them: every query runs on a GPU that gives it a meaning.          *)
(***************************************************************************)
EXTENDS GpuKernel

VARIABLE differs  \* history: the features on which the two have differed

parityVars == <<vars, differs>>

Deviating == <<"result", "padding", "layout", "difference", "carry">>

(* The one feature of this query.                                          *)
Asked == Deviating[Cardinality(differs) + 1]

ParityInit == Init /\ differs = {} /\ Exposures = {Asked}

Evaluate == Next /\ UNCHANGED differs

(* The next query: the kernel starts again, as in Init.                    *)
NextQuery ==
    /\ Finished
    /\ output # CpuCount
    /\ differs' = differs \cup {Asked}
    /\ differs' # ToSet(Deviating)
    /\ expr' \in Exprs
    /\ post_order' = AllNodes(expr')
    /\ row_count' \in RowCounts
    /\ block_idx' \in 0 .. (num_blocks(row_count') - 1)
    /\ data' \in {Padded(c)' : c \in Columns}
    /\ junk' \in {{}, Rows}
    /\ lends' \in BOOLEAN
    /\ Exposures' = {Asked'}
    /\ reg' = [n \in DOMAIN expr' |-> [b \in Threads |-> {}]]
    /\ at' = [s \in Simds |-> [pos |-> 1, stage |-> "start"]]
    /\ arrived' = [s \in Simds |-> 0]
    /\ gen' = [s \in Simds |-> [l \in LaneIds |-> {}]]
    /\ prop' = gen' /\ cur_g' = gen' /\ cur_p' = gen'
    /\ stride' = [s \in Simds |-> 1]
    /\ shared_A' = [b \in Threads |-> junk'] /\ shared_B' = shared_A'
    /\ shared_carry' = junk'
    /\ shared_sums' = [s \in Simds |-> 0]
    /\ output' = 0

(* The last of them is only noted.                                         *)
LastQuery ==
    /\ Finished
    /\ output # CpuCount
    /\ differs' = differs \cup {Asked}
    /\ differs' = ToSet(Deviating)
    /\ UNCHANGED vars

ParityNext == Evaluate \/ NextQuery \/ LastQuery

ParitySpec == ParityInit /\ [][ParityNext]_parityVars

(* README.md:23: "bit-perfect, deterministic results across CPU and GPU    *)
(* architectures".  That says that no query is ever counted differently;   *)
(* stated here in a weaker form, that one of the five features is without  *)
(* effect, so that its violation exhibits a query for each of them.        *)
MathematicalParity == differs # ToSet(Deviating)

=============================================================================
