------------------------- MODULE MCStylesheetLoading -------------------------
(* One stylesheet and the hidden fallback, whose files change a few times. *)
EXTENDS StylesheetLoading
=============================================================================
