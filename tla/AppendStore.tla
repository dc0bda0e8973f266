---------------------------- MODULE AppendStore ----------------------------
(***************************************************************************)
(* What pmemkv promises its callers: for every key a list of values that    *)
(* put extends at its end, once per call and at one instant of the call.    *)
(* Where the code ignores errors the promise is weaker: a call may store a  *)
(* block without data (Lost), or nothing at all, and return all the same.   *)
(***************************************************************************)
EXTENDS Sequences

CONSTANTS Threads, Hashes, Vals, Lost, MayLose, MaySkip

VARIABLES store,  \* the values of each key
          call    \* the call each thread has under way

avars == <<store, call>>

Idle == [st |-> "idle"]
Pending(h, v) == [st |-> "pending", hash |-> h, val |-> v]
Applied == [st |-> "applied"]

AInit == /\ store = [h \in Hashes |-> <<>>]
         /\ call = [t \in Threads |-> Idle]

Call(t, h, v) == /\ call[t] = Idle
                 /\ call' = [call EXCEPT ![t] = Pending(h, v)]
                 /\ UNCHANGED store

Apply(t, h, v) ==
  /\ call[t] = Pending(h, v)
  /\ \E x \in {v} \cup (IF MayLose THEN {Lost} ELSE {}) :
       store' = [store EXCEPT ![h] = Append(@, x)]
  /\ call' = [call EXCEPT ![t] = Applied]

Skip(t, h, v) == /\ MaySkip
                 /\ call[t] = Pending(h, v)
                 /\ call' = [call EXCEPT ![t] = Applied]
                 /\ UNCHANGED store

Return(t) == /\ call[t] = Applied
             /\ call' = [call EXCEPT ![t] = Idle]
             /\ UNCHANGED store

\* Closing the store discards the values of one key after the other.
Clear(h) == /\ store' = [store EXCEPT ![h] = <<>>]
            /\ UNCHANGED call

ANext == \/ \E t \in Threads, h \in Hashes, v \in Vals :
              Call(t, h, v) \/ Apply(t, h, v) \/ Skip(t, h, v)
         \/ \E t \in Threads : Return(t)
         \/ \E h \in Hashes : Clear(h)

ASpec == AInit /\ [][ANext]_avars
=============================================================================
