----------------------------- MODULE ByteQueue -----------------------------
(***************************************************************************)
(* What a PmemBuffer promises: the bytes put in come out once, in order.    *)
(* Bytes are numbered in the order in which they are put in.                *)
(***************************************************************************)
EXTENDS Integers, Sequences

CONSTANT MaxLen   \* bound: bytes per call

VARIABLES q,      \* the bytes not read yet
          sent,   \* bytes put in so far
          got     \* what the last read returned

qvars == <<q, sent, got>>

QInit == q = <<>> /\ sent = 0 /\ got = <<>>

Enqueue(n) == /\ q' = q \o [i \in 1 .. n |-> sent + i]
              /\ sent' = sent + n
              /\ UNCHANGED got

Dequeue(n) == /\ n <= Len(q)
              /\ got' = SubSeq(q, 1, n)
              /\ q' = SubSeq(q, n + 1, Len(q))
              /\ UNCHANGED sent

Discard == q' = <<>> /\ UNCHANGED <<sent, got>>

QNext == \/ \E n \in 1 .. MaxLen : Enqueue(n)
         \/ \E n \in 0 .. MaxLen : Dequeue(n)
         \/ Discard

QSpec == QInit /\ [][QNext]_qvars
=============================================================================
