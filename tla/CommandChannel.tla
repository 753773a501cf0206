--------------------------- MODULE CommandChannel ---------------------------
(***************************************************************************)
(* What the console promises its user: the lines entered are handed to the *)
(* engine one by one, each once, in the order they were entered.           *)
(***************************************************************************)
EXTENDS Sequences

CONSTANT Line

VARIABLES
    pending,  \* entered and not handed over yet
    delivered \* handed over to the engine

vars == <<pending, delivered>>

Init == pending = <<>> /\ delivered = <<>>

Enter(line) ==
    /\ pending' = Append(pending, line)
    /\ UNCHANGED delivered

Deliver ==
    /\ pending # <<>>
    /\ delivered' = Append(delivered, Head(pending))
    /\ pending' = Tail(pending)

Next == Deliver \/ \E line \in Line : Enter(line)

Spec == Init /\ [][Next]_vars
=============================================================================
