------------------------------ MODULE MCJobRun ------------------------------
(* One job of every small shape, with a controller and without one.  Services *)
(* and steps meet only in that any step finds all services: the two longest  *)
(* loops are not combined. *)
EXTENDS JobRun

OneJob == {"job"}

SmallConfigs ==
    {c \in [services : 0..2, main : 0..2, after : 0..2] : c.services + c.main + c.after <= 4}
=============================================================================
