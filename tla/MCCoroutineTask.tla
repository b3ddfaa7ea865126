--------------------------- MODULE MCCoroutineTask ---------------------------
(* Model-checking instance of CoroutineTask: outer awaits inner, inner     *)
(* awaits leaf, and inner may also register and start leaf.                *)
EXTENDS CoroutineTask

CONSTANTS outer, inner, leaf

MCTasks == {outer, inner, leaf}

MCAwaits ==
  [t \in MCTasks |->
     CASE t = outer -> {inner} [] t = inner -> {leaf} [] OTHER -> {}]

MCRegisters == [t \in MCTasks |-> IF t = inner THEN {leaf} ELSE {}]

(* leaf, which inner awaits and may register, may be started twice.        *)
MCMaxStarts == [t \in MCTasks |-> IF t = leaf THEN 2 ELSE 1]
MCMaxStops == [t \in MCTasks |-> IF t = leaf THEN 0 ELSE 1]
=============================================================================
