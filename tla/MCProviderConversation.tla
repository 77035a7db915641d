----------------------- MODULE MCProviderConversation -----------------------
(* Instances of ProviderConversation for TLC: one tool beside the stop. *)
EXTENDS ProviderConversation

MCScript == <<"edit_file", "stop_investigation">>
=============================================================================
