----------------------------- MODULE FifoQueue ------------------------------
(***************************************************************************)
(* What Util::ThreadSafeQueue promises its callers whatever their threads  *)
(* do: elements are removed in the order they were added, each at most     *)
(* once, and clear(), or moving the queue, removes what is there.          *)
(***************************************************************************)
EXTENDS Sequences

CONSTANT Element

VARIABLES queue, taken

vars == <<queue, taken>>

Init == queue = <<>> /\ taken = <<>>

Put(e) ==
    /\ queue' = Append(queue, e)
    /\ UNCHANGED taken

Take ==
    /\ queue # <<>>
    /\ taken' = Append(taken, Head(queue))
    /\ queue' = Tail(queue)

Clear ==
    /\ queue' = <<>>
    /\ UNCHANGED taken

Next == Take \/ Clear \/ \E e \in Element : Put(e)

Spec == Init /\ [][Next]_vars
=============================================================================
