----------------------------- MODULE MCCatalogSync -----------------------------
(* A bundle of five chunks: three pumps, the last one shorter.  A name      *)
(* stands for the bytes of its chunk.                                      *)
EXTENDS CatalogSync

FirstPump == <<"weapons", "actions">>
SecondPump == <<"actors", "items">>
LastPump == <<"digest">>

MCBundle == FirstPump \o SecondPump \o LastPump
=============================================================================
