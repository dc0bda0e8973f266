--------------------------- MODULE MCBlockStream ---------------------------
(***************************************************************************)
(* Instances of BlockStream for TLC.                                       *)
(***************************************************************************)
EXTENDS BlockStream

\* A throttle that the buffer is large enough for, one that it is not, none.
MCThrottles == {1, 2, -1}

\* The first attempt can overflow its buffer and store four blocks, the second
\* one can store two.
MCMaxBytes == <<4, 2>>
=============================================================================
