----------------------------- MODULE MCWsStream -----------------------------
(* The constants of the runs of WsStream: a fetch that failed and was        *)
(* replayed, then ran to the end.                                           *)
EXTENDS WsStream

MCStatusOf == <<"failed", "fetched", "chunked", "indexed">>
MCByUrl    == {1}
=============================================================================
