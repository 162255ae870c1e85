---------------------------- MODULE MCTxSession ----------------------------
(* TLC instances of TxSession.  The login database (where the session starts) *)
(* ranges over all Databases.                                                 *)
EXTENDS TxSession

\* Every form of statement, ...
AllForms == ServerForms \cup DatabaseForms

\* ... or a write, and an operation SQL Server refuses inside a user
\* transaction, which has sent its USE [master] by then and which fn tolerates.
WithFromMaster == {"write", "fromMaster"}
=============================================================================
