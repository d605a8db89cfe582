--------------------------- MODULE MCPluginStream ---------------------------
(***************************************************************************)
(* Two values in, three out, for TLC: one longer than RunLoop's limit and  *)
(* one empty among them.                                                   *)
(***************************************************************************)
EXTENDS PluginStream

InLengths  == <<3, 1>>
OutLengths == <<3, 0, 1>>
=============================================================================
