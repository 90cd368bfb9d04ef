------------------------------- MODULE Outbox -------------------------------
(***************************************************************************)
(* What a drained batch does to the durable queue of a domain              *)
(* (lib/sync/outbox.ts).                                                   *)
(*                                                                         *)
(* An operator marked "Faulty" is a plausible bug in the operator after it *)
(* and part of no specification: the checks swap it in to see that the     *)
(* properties notice.                                                      *)
(***************************************************************************)
EXTENDS Naturals, FiniteSets, SequencesExt

\* Faulty: what was queued meanwhile goes with the batch, or nothing goes.
ErasedAll(queue, batch)  == <<>>
ErasedNone(queue, batch) == queue

\* The queue without the mutations of the batch, which are looked up by their ids.
\* (SelectSeq written out, to be reasoned about.)
Erased(queue, batch) ==
    LET kept   == {i \in DOMAIN queue : queue[i] \notin ToSet(batch)}
        nth(k) == CHOOSE i \in kept : Cardinality(kept \cap 1..i) = k
    IN  [k \in 1..Cardinality(kept) |-> queue[nth(k)]]
=============================================================================
