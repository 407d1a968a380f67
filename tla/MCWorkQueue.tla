---------------------------- MODULE MCWorkQueue ----------------------------
(* A chat turn stands for the rows that need no slot and a relayed job for *)
(* those that do; a command behaves like the chat turn.                    *)
EXTENDS WorkQueue

CONSTANTS chat, job
OneChat == {chat}
OneJob == {job}
NoRows == {}
=============================================================================
