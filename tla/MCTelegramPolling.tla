------------------------- MODULE MCTelegramPolling -------------------------
(***************************************************************************)
(* An instance of TelegramPolling for TLC.                                 *)
(***************************************************************************)
EXTENDS TelegramPolling

CONSTANTS owner, stranger  \* two chats (model values)

McSenders == {owner, stranger}
McAuthorized == {owner}
=============================================================================
