-------------------------------- MODULE Fifo --------------------------------
(***************************************************************************)
(* What IQueue promises: a first-in first-out queue whose pop and peek     *)
(* return `undefined' when it is empty.                                    *)
(***************************************************************************)
EXTENDS Naturals, Sequences

CONSTANTS Items, MaxPush, Undefined

VARIABLES
    contents,
    returned    \* what the last call returned

vars == <<contents, returned>>

FifoInit == contents = <<>> /\ returned = Undefined

Push ==
    \E n \in 1..MaxPush : \E items \in [1..n -> Items] :
        contents' = contents \o items /\ returned' = Undefined

Pop ==
    IF contents = <<>>
    THEN returned' = Undefined /\ UNCHANGED contents
    ELSE returned' = Head(contents) /\ contents' = Tail(contents)

Peek ==
    /\ returned' = IF contents = <<>> THEN Undefined ELSE Head(contents)
    /\ UNCHANGED contents

FifoNext == Push \/ Pop \/ Peek

FifoSpec == FifoInit /\ [][FifoNext]_vars
=============================================================================
