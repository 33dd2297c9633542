------------------------ MODULE MCSagaConversation ------------------------
(* One order for TLC: the messages of different orders do not meet, neither *)
(* in a queue nor in a participant.                                         *)
EXTENDS SagaConversation

CONSTANT o1

NoneOneOrBoth == {{}, {"reply dies"}, FaultKind}
=============================================================================
