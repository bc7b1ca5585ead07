------------------------------ MODULE AudioRing ------------------------------
(***************************************************************************)
(* The ring between the capture callback of macOS audio, which may not     *)
(* wait, and the encoder thread (macos_utils/audio/ring.rs): one producer, *)
(* one consumer, two counters that wrap, and a time stamp under a sequence *)
(* lock.  A step is one load or store of an atomic, or of one sample.      *)
(*                                                                         *)
(* A sample is the number of samples accepted before it, a stamp the       *)
(* number of its block; the 64 bits of the sequence number do not wrap.    *)
(* Loads and stores take effect in the order they are written: what the    *)
(* orderings and the two fences of the code are for is assumed.            *)
(***************************************************************************)
EXTENDS Integers, Sequences

CONSTANTS
  Cap,        \* samples in the ring, a power of two
  Wrap,       \* where a counter wraps: a power of two above Cap
  Block,      \* bound: samples in a block, and in the consumer's buffer
  MaxBlocks   \* bound: blocks

VARIABLES
  buf, head, tail,    \* Shared.buf, head and tail
  seq, pos, ns,       \* Shared.anchor_seq, anchor_pos and anchor_ns
  prod,               \* the producer: where it is, its block, what it has left to copy
  cons,               \* the consumer: the same, and what it has loaded of the anchor
  accepted, taken,    \* history: samples accepted, and samples the consumer was given
  out,                \* what the last pop returned
  blocks,             \* history: where each stamped block starts, and its stamp
  dated               \* what the last call of anchor returned

vars == <<buf, head, tail, seq, pos, ns, prod, cons, accepted, taken, out, blocks, dated>>
anchor == <<seq, pos, ns>>

Least(a, b) == IF a < b THEN a ELSE b
Between(from, to) == (to - from) % Wrap

Init ==
  /\ buf = [i \in 0..Cap - 1 |-> 0] /\ head = 0 /\ tail = 0
  /\ seq = 0 /\ pos = 0 /\ ns = 0
  /\ prod = [at |-> "idle", n |-> 0, k |-> 0, block |-> 0]
  /\ cons = [at |-> "idle", n |-> 0, k |-> 0, tries |-> 0, seq |-> 0, pos |-> 0, ns |-> 0]
  /\ accepted = 0 /\ taken = 0 /\ out = <<>>
  /\ blocks = {} /\ dated = [pos |-> 0, ns |-> 0]

-----------------------------------------------------------------------------
(* The producer.                                                           *)

ProdAt(where) == prod' = [prod EXCEPT !.at = where]

\* push, and push_at with a stamp of 0: the old anchor stays.
Push(n) ==
  /\ prod.at = "idle" /\ prod.block < MaxBlocks
  /\ prod' = [at |-> "write", n |-> n, k |-> 0, block |-> prod.block + 1]
  /\ UNCHANGED <<buf, head, tail, anchor, cons, accepted, taken, out, blocks, dated>>

\* push_at: an odd sequence number, both values, an even one.
PushAt(n) ==
  /\ prod.at = "idle" /\ prod.block < MaxBlocks
  /\ prod' = [at |-> "pos", n |-> n, k |-> 0, block |-> prod.block + 1]
  /\ seq' = seq + 1
  /\ blocks' = blocks \cup {[pos |-> accepted % Wrap, ns |-> prod.block + 1]}
  /\ UNCHANGED <<buf, head, tail, pos, ns, cons, accepted, taken, out, dated>>

StorePos ==
  /\ prod.at = "pos"
  /\ pos' = head
  /\ ProdAt("ns")
  /\ UNCHANGED <<buf, head, tail, seq, ns, cons, accepted, taken, out, blocks, dated>>

StoreNs ==
  /\ prod.at = "ns"
  /\ ns' = prod.block
  /\ ProdAt("even")
  /\ UNCHANGED <<buf, head, tail, seq, pos, cons, accepted, taken, out, blocks, dated>>

Publish ==
  /\ prod.at = "even"
  /\ seq' = seq + 1
  /\ ProdAt("write")
  /\ UNCHANGED <<buf, head, tail, pos, ns, cons, accepted, taken, out, blocks, dated>>

\* Mutant: a counter that has wrapped is behind the other.
FreeUnwrapped == Cap - (head - tail)

\* The room the consumer has left.
Free == Cap - Between(tail, head)

\* write: what does not fit is dropped.
Write ==
  /\ prod.at = "write"
  /\ prod' = [prod EXCEPT !.at = "copy", !.n = Least(prod.n, Free)]
  /\ UNCHANGED <<buf, head, tail, anchor, cons, accepted, taken, out, blocks, dated>>

CopyIn ==
  /\ prod.at = "copy" /\ prod.k < prod.n
  /\ buf' = [buf EXCEPT ![(head + prod.k) % Cap] = accepted + prod.k]
  /\ prod' = [prod EXCEPT !.k = prod.k + 1]
  /\ UNCHANGED <<head, tail, anchor, cons, accepted, taken, out, blocks, dated>>

\* The samples are the consumer's with the store of head.
Release ==
  /\ prod.at = "copy" /\ prod.k = prod.n
  /\ head' = (head + prod.n) % Wrap /\ accepted' = accepted + prod.n
  /\ prod' = [prod EXCEPT !.at = "idle", !.n = 0, !.k = 0]
  /\ UNCHANGED <<buf, tail, anchor, cons, taken, out, blocks, dated>>

-----------------------------------------------------------------------------
(* The consumer.                                                           *)

\* pop
Pop(n) ==
  /\ cons.at = "idle"
  /\ cons' = [cons EXCEPT !.at = "copy", !.n = Least(n, Between(tail, head)), !.k = 0]
  /\ out' = <<>>
  /\ UNCHANGED <<buf, head, tail, anchor, prod, accepted, taken, blocks, dated>>

CopyOut ==
  /\ cons.at = "copy" /\ cons.k < cons.n
  /\ out' = Append(out, buf[(tail + cons.k) % Cap])
  /\ cons' = [cons EXCEPT !.k = cons.k + 1]
  /\ UNCHANGED <<buf, head, tail, anchor, prod, accepted, taken, blocks, dated>>

Return ==
  /\ cons.at = "copy" /\ cons.k = cons.n
  /\ tail' = (tail + cons.n) % Wrap /\ taken' = taken + cons.n
  /\ cons' = [cons EXCEPT !.at = "idle", !.n = 0, !.k = 0]
  /\ UNCHANGED <<buf, head, anchor, prod, accepted, out, blocks, dated>>

\* anchor: four tries to read both values under one even sequence number.
Anchor ==
  /\ cons.at = "idle"
  /\ cons' = [cons EXCEPT !.at = "seq", !.tries = 4]
  /\ UNCHANGED <<buf, head, tail, anchor, prod, accepted, taken, out, blocks, dated>>

GiveUp == [cons EXCEPT !.at = "idle", !.tries = 0, !.seq = 0, !.pos = 0, !.ns = 0]
Again  == IF cons.tries > 1 THEN [GiveUp EXCEPT !.at = "seq", !.tries = cons.tries - 1] ELSE GiveUp

LoadSeq ==
  /\ cons.at = "seq"
  /\ cons' = IF seq = 0 THEN GiveUp
             ELSE IF seq % 2 = 1 THEN Again
             ELSE [cons EXCEPT !.at = "pos", !.seq = seq]
  /\ UNCHANGED <<buf, head, tail, anchor, prod, accepted, taken, out, blocks, dated>>

LoadPos ==
  /\ cons.at = "pos"
  /\ cons' = [cons EXCEPT !.at = "ns", !.pos = pos]
  /\ UNCHANGED <<buf, head, tail, anchor, prod, accepted, taken, out, blocks, dated>>

LoadNs ==
  /\ cons.at = "ns"
  /\ cons' = [cons EXCEPT !.at = "same", !.ns = ns]
  /\ UNCHANGED <<buf, head, tail, anchor, prod, accepted, taken, out, blocks, dated>>

\* Mutant: the sequence number is not looked at again.
Accepts == TRUE

\* The sequence number is still the one read before the values.
Unmoved == seq = cons.seq

Compare ==
  /\ cons.at = "same"
  /\ IF Unmoved THEN cons' = GiveUp /\ dated' = [pos |-> cons.pos, ns |-> cons.ns]
                ELSE cons' = Again /\ UNCHANGED dated
  /\ UNCHANGED <<buf, head, tail, anchor, prod, accepted, taken, out, blocks>>

Next ==
  \/ \E n \in 1..Block : Push(n) \/ PushAt(n) \/ Pop(n)
  \/ StorePos \/ StoreNs \/ Publish \/ Write \/ CopyIn \/ Release
  \/ CopyOut \/ Return
  \/ Anchor \/ LoadSeq \/ LoadPos \/ LoadNs \/ Compare

Spec == Init /\ [][Next]_vars

-----------------------------------------------------------------------------
TypeOK ==
  /\ buf \in [0..Cap - 1 -> Nat] /\ {head, tail, pos} \subseteq 0..Wrap - 1
  /\ seq \in 0..(2 * MaxBlocks) /\ ns \in 0..MaxBlocks
  /\ prod.at \in {"idle", "pos", "ns", "even", "write", "copy"} /\ 0 <= prod.k /\ prod.k <= prod.n
  /\ cons.at \in {"idle", "copy", "seq", "pos", "ns", "same"} /\ 0 <= cons.k /\ cons.k <= cons.n
  /\ cons.tries \in 0..4
  /\ accepted % Wrap = head /\ taken % Wrap = tail

\* The consumer is given the samples that were accepted, each once and in their order,
\* while the producer overwrites the ring behind it (ring.rs:123-124, 192-194).
InOrder == cons.at = "copy" => \A i \in 1..Len(out) : out[i] = taken + i - 1

\* A stamp is never paired with the place of another block, however a call of anchor and
\* one of push_at overlap (ring.rs:94-105, 162-176).
AnchorTrue == dated.ns # 0 => dated \in blocks

=============================================================================
