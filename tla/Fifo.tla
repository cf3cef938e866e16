--------------------------------- MODULE Fifo ---------------------------------
(* What RingBuffer promises: an unbounded first-in first-out queue. Growing it,  *)
(* and asking for a size it cannot take, are invisible in its content.           *)
EXTENDS Sequences

CONSTANTS
  FifoItem,   \* what can be put in
  FifoRefuse  \* the answer of a call that is refused

VARIABLES
  content,    \* what is in the queue, oldest first
  response    \* the answer of the last call, or <<>>

FifoInit == content = <<>> /\ response = <<>>

FifoPush(v) == content' = Append(content, v) /\ response' = <<>>

FifoPop == IF content = <<>>
             THEN content' = content /\ response' = <<FifoRefuse>>
             ELSE content' = Tail(content) /\ response' = <<Head(content)>>

FifoFront == /\ content # <<>>
             /\ content' = content
             /\ response' = <<Head(content)>>

FifoResize == content' = content /\ response' \in {<<>>, <<FifoRefuse>>}

FifoNext == (\E v \in FifoItem : FifoPush(v)) \/ FifoPop \/ FifoFront \/ FifoResize

FifoSpec == FifoInit /\ [][FifoNext]_<<content, response>>

=============================================================================
