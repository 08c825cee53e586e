--------------------------- MODULE MCProjectBinding ---------------------------
(***************************************************************************)
(* A small instance of ProjectBinding.                                     *)
(***************************************************************************)
EXTENDS ProjectBinding, TLC

(* No step reads the audit events and no property of the run is about them.   *)
Unaudited == <<rows, releases, handler, bindings, bindingOf, archived, request, raced>>
===============================================================================
