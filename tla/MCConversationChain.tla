------------------------ MODULE MCConversationChain ------------------------
(* Small instances of ConversationChain for TLC.                           *)
EXTENDS ConversationChain
============================================================================
