---------------------------- MODULE MCPersistence ----------------------------
(* Persistence for TLC: the administrator and three customers,
   one more than MaxAccounts lets in. *)
EXTENDS Persistence

CONSTANTS Admin, Asha, Ravi, Uma

MCIds == {Admin, Asha, Ravi, Uma}

\* Everywhere but before the file is loaded and inside acct_delete's loop.
Prompts == {"admin", "ready", "open", "write", "close", "rename"}

Anywhere == PCs \ Stopped
=============================================================================
