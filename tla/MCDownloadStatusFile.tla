------------------------ MODULE MCDownloadStatusFile ------------------------
(* Two segments, the last one short; two slots. *)
EXTENDS DownloadStatusFile

CONSTANTS a, b

MCSlots == {a, b}
=============================================================================
