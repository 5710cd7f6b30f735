--------------------------- MODULE MCConversation ---------------------------
EXTENDS Conversation

(* The answers of a provider, and the limits of a compaction.              *)
MCResponses == {<<>>, <<"text">>, <<"json">>, <<"call">>, <<"text", "call">>, <<"call", "call">>,
                <<"call", "malformed">>, <<"call", "unknown">>, <<"call", "junk">>, <<"call", "call", "call">>}
MCLimits == [soft |-> 3, forced |-> 1, least |-> 1]
=============================================================================
