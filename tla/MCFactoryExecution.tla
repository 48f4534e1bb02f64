------------------------- MODULE MCFactoryExecution -------------------------
(* Small instances of FactoryExecution for TLC: "package" is written by both. *)
EXTENDS FactoryExecution

MCScaffold == <<"models", "package">>
MCProduct == <<"package", "service">>
=============================================================================
