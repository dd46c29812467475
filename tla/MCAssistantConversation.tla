---------------------- MODULE MCAssistantConversation ----------------------
(* Instance of AssistantConversation: the requests are interchangeable.     *)
EXTENDS AssistantConversation, TLC

Symmetry == Permutations(Calls)
=============================================================================
