--------------------------- MODULE OrderedDelivery ---------------------------
(***************************************************************************)
(* What a mirror batcher promises (internal/mirror_batcher.go:41-51): the  *)
(* batches it accepts reach the store one at a time and in order; each is  *)
(* written at least once unless the store keeps failing, and only a        *)
(* batcher that is shut down leaves a batch behind.  Module MirrorBatcher  *)
(* implements it.                                                          *)
(***************************************************************************)
EXTENDS Naturals, Sequences

CONSTANTS
  Batch,         \* numbered in the order in which the CLI sends them
  MaxAttempts

VARIABLES
  pending,   \* accepted batches not yet retired, oldest first
  tries,     \* attempts made for the oldest
  log,       \* what the store was made to write, in order
  stopped    \* the batcher was shut down

vars == <<pending, tries, log, stopped>>

Init == pending = <<>> /\ tries = 0 /\ log = <<>> /\ stopped = FALSE

\* A batch is accepted after all those the CLI sent before it.
Accept(b) ==
  /\ \A i \in DOMAIN pending : pending[i] < b
  /\ \A i \in DOMAIN log : log[i] < b
  /\ pending' = Append(pending, b)
  /\ UNCHANGED <<tries, log, stopped>>

\* One attempt for the oldest batch: the store writes it, or part of it, or not.
Attempt ==
  /\ pending # <<>>
  /\ ~stopped
  /\ tries < MaxAttempts
  /\ tries' = tries + 1
  /\ log' \in {log, Append(log, Head(pending))}
  /\ UNCHANGED <<pending, stopped>>

\* A batch is retired once written, or once every attempt was made.
Retire ==
  /\ pending # <<>>
  /\ tries = MaxAttempts \/ (log # <<>> /\ log[Len(log)] = Head(pending))
  /\ pending' = Tail(pending)
  /\ tries' = 0
  /\ UNCHANGED <<log, stopped>>

Stop ==
  /\ ~stopped
  /\ tries = 0
  /\ stopped' = TRUE
  /\ UNCHANGED <<pending, tries, log>>

Next == (\E b \in Batch : Accept(b)) \/ Attempt \/ Retire \/ Stop

Safety == Init /\ [][Next]_vars

\* The oldest batch is attempted and retired at last.
Progress == WF_vars(Attempt \/ Retire)

Spec == Safety /\ Progress
=============================================================================
