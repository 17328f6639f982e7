-------------------------- MODULE MCTelegramSetup --------------------------
(***************************************************************************)
(* Model-checking instance of TelegramSetup: one valid and one mistyped    *)
(* token, two chats (the user's and a stranger's that also wrote to the    *)
(* bot), one typo and one dead run.                                        *)
(***************************************************************************)
EXTENDS TelegramSetup

CONSTANTS good, typo, mine, stranger

MCTokens      == {good, typo}
MCValidTokens == {good}
MCChats       == {mine, stranger}

=============================================================================
