--------------------------- MODULE MCRecorderDownload ---------------------------
(* Instances of RecorderDownload.                                                *)
EXTENDS RecorderDownload
===============================================================================
