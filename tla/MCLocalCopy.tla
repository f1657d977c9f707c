------------------------------ MODULE MCLocalCopy ------------------------------
(***************************************************************************)
(* Servers that give ETags, dates, both or neither.                        *)
(***************************************************************************)
EXTENDS LocalCopy

MCServers == {{}, {"tags"}, {"dates"}, Validators}
===============================================================================
