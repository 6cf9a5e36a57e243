------------------------ MODULE MCSupersetApiClient ------------------------
(* SupersetApiClient for TLC: the .cfg picks the rows, the size of a page    *)
(* and the limit of pages.                                                  *)
EXTENDS SupersetApiClient
=============================================================================
