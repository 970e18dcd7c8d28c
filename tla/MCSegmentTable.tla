--------------------------- MODULE MCSegmentTable ---------------------------
(* Instance of SegmentTable for TLC.                                       *)
EXTENDS SegmentTable
=============================================================================
