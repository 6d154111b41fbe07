---------------------------- MODULE MCTelegramLink ----------------------------
(* Telegram linking on a small instance.                                      *)
EXTENDS TelegramLink, TLC

Interchangeable == Permutations(Users) \cup Permutations(Chats)
                   \cup Permutations(Tokens) \cup Permutations(Calls)
=============================================================================
