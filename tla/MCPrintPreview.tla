--------------------------- MODULE MCPrintPreview ---------------------------
(* Documents of no page or three; requests for all pages, and for two in the
   wrong order, one of them twice, with one that does not exist. *)
EXTENDS PrintPreview

MCPageLists == {<<>>, <<5, 2, 0, 2>>}
=============================================================================
